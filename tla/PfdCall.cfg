SPECIFICATION Spec
CONSTANTS
  e1 = e1
  e2 = e2
  bad = bad
  Entries = {e1, e2, bad}
  MaxTasks = 2
  Requests <- MCRequests
  Failing = {bad}
INVARIANTS
  AnswerIsOfThisCall
  TempdirCleaned
PROPERTIES
  ImplementsPromise
