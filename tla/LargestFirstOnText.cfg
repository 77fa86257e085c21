SPECIFICATION Spec
CONSTANTS
  Word = 64
  MaxTasks = 4
  Percentages = {34}
  Size <- MCSize
  Converted <- NoneConverted
  Failing = {}
INVARIANT
  LargestGoParallelInAnyFormat
