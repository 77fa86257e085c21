---------------------------- MODULE PfdCallProofs ----------------------------
(***************************************************************************)
(* Proofs about PfdCall, for all entries, calls and failing entries: an    *)
(* answer is made of the output files of its own call, an answered call    *)
(* leaves none of its files, and every step of a call is a step of         *)
(* ResumableCall.                                                          *)
(***************************************************************************)
EXTENDS PfdCall, TLAPS

Answers == [entry : Entries, word : {"Already done!", "success!"}]

TypeInv ==
  /\ request \in Requests
  /\ phase \in {"idle", "checking", "writing", "copying", "running", "reading",
                "answered", "failed", "cut"}
  /\ net \in {"none", "working", "done", "aborted"}
  /\ pos \in Nat
  /\ answer \in Seq(Answers)
  /\ written \in SUBSET Task /\ stored \in SUBSET Task
  /\ temp \in [Index -> SUBSET Entries] /\ in \in [Index -> SUBSET Entries]
  /\ out \in [Index -> SUBSET Answers] /\ job \in [Index -> SUBSET Answers]
  /\ results \in SUBSET Entries /\ before \in SUBSET Entries

\* What a worker may find out about task k: it concerns the entry of that task,
\* and says "Already done!" only if the call or a twin of the task explains it.
Right(k, a) ==
  /\ a.entry = Entry(k)
  /\ a.word = "Already done!" =>
       \/ a.entry \in before
       \/ \E l \in Task \ {k} : Entry(l) = a.entry

\* The entry's result is there as well.
Good(k, a) == Right(k, a) /\ a.entry \in results

\* The loop of the client has written the files of the tasks it has passed.
InStructsWritten ==
  /\ phase \in {"writing", "copying"} =>
       \A k \in Task : k < pos => in[k] = {Entry(k)} /\ temp[k] = {}
  /\ phase = "copying" => pos \in Task /\ temp[pos] = {Entry(pos)}
  /\ phase = "running" =>
       \A k \in Task : in[k] = {Entry(k)} /\ temp[k] = {}

\* Nothing works for a call before it is launched, and the workflow is done only
\* when all tasks have ended.
NetFollowsPhase ==
  /\ phase \in {"checking", "writing", "copying"} =>
       /\ net = "none" /\ written = {} /\ stored = {} /\ job = Nowhere
       /\ results = before
  /\ phase = "checking" => pos = 0
  /\ net = "working" => phase = "running"
  /\ net = "done" => written = Task
  /\ phase = "running" => net # "none"

\* What the workers of a call know is right, and what they have ended is in the
\* output file.
JobsRight ==
  phase = "running" =>
    /\ \A k \in Task : \A a \in job[k] : Right(k, a) /\ job[k] = {a}
    /\ \A k \in stored : \E a \in Answers : job[k] = {a} /\ Good(k, a)
    /\ \A k \in written : k \in stored /\ out[k] = job[k]
    /\ \A e \in results : e \in before \/ \E l \in stored : Entry(l) = e

\* The client has read and removed what it has passed, and the rest is there.
ReadingRight ==
  /\ phase \in {"checking", "writing", "copying", "running"} => answer = <<>>
  /\ phase \in {"reading", "answered"} =>
       /\ phase = "answered" => pos \notin Task
       /\ Len(answer) = pos /\ pos <= Len(request.entries)
       /\ \A k \in Task : temp[k] = {}
       /\ \A k \in Task :
            IF k < pos
              THEN Good(k, answer[k + 1]) /\ in[k] = {} /\ out[k] = {}
              ELSE \E a \in Answers : out[k] = {a} /\ Good(k, a)

\* A call gets to work unless it has a flaw, and is cut short only for a reason.
ReasonsGiven ==
  LET reason == request.flaw # "none" \/ \E k \in Task : Entry(k) \in Failing
  IN  /\ phase \in {"running", "reading"} =>
           \/ request.flaw \in {"none", "percentage"}
           \/ request.flaw = "tempdir" /\ request.entries = <<>>
      /\ phase \in {"writing", "copying"} =>
           request.flaw \notin {"argument", "installation", "option"}
      /\ phase \in {"writing", "copying"} /\ request.flaw = "tempdir" =>
           phase = "writing" /\ pos = 0
      /\ net = "aborted" => reason

IInv ==
  /\ TypeInv
  /\ InStructsWritten
  /\ NetFollowsPhase
  /\ JobsRight
  /\ ReadingRight
  /\ ReasonsGiven
-----------------------------------------------------------------------------

\* The tasks of a call are positions a file name is made of, and have entries.
LEMMA TasksHaveEntries ==
  ASSUME request \in Requests
  PROVE  /\ request.entries \in Seq(Entries) /\ Len(request.entries) \in Nat
         /\ Task \subseteq Index
         /\ \A k \in Task : k \in Nat /\ Entry(k) \in Entries
<1>1. /\ request.entries \in Seq(Entries)
      /\ Len(request.entries) <= MaxTasks
  BY RequestsAssumption DEF Request
<1>. QED
  BY <1>1, MaxTasksAssumption DEF Task, Index, Entry

\* While a call goes on and results are added, what is right stays right.
LEMMA RightStays ==
  ASSUME UNCHANGED <<request, before>>
  PROVE  /\ Task' = Task
         /\ \A k : Entry(k)' = Entry(k)
         /\ \A k, a : Right(k, a)' <=> Right(k, a)
         /\ results \subseteq results' => \A k, a : Good(k, a) => Good(k, a)'
<1>1. Task' = Task /\ \A k : Entry(k)' = Entry(k)
  BY DEF Task, Entry
<1>2. \A k, a : Right(k, a)' <=> Right(k, a)
  BY <1>1 DEF Right
<1>. QED
  BY <1>1, <1>2 DEF Good

\* IInv holds before the first call, whichever it is.
THEOREM Initially == Init => IInv
<1> SUFFICES ASSUME Init PROVE IInv
  OBVIOUS
<1>1. TypeInv
  BY TasksHaveEntries DEF Init, TypeInv, Nowhere
<1>2. InStructsWritten /\ NetFollowsPhase /\ JobsRight /\ ReadingRight
  BY DEF Init, InStructsWritten, NetFollowsPhase, JobsRight, ReadingRight
<1>3. ReasonsGiven
  BY DEF Init, ReasonsGiven
<1>. QED
  BY <1>1, <1>2, <1>3 DEF IInv

LEMMA NewCallStep == ASSUME IInv, NewCall PROVE IInv'
<1>1. TypeInv'
  BY DEF IInv, TypeInv, NewCall, Nowhere, files
<1>2. InStructsWritten' /\ NetFollowsPhase' /\ JobsRight' /\ ReadingRight'
  BY DEF NewCall, InStructsWritten, NetFollowsPhase, JobsRight, ReadingRight,
         Nowhere
<1>3. ReasonsGiven'
  BY DEF NewCall, ReasonsGiven
<1>. QED
  BY <1>1, <1>2, <1>3 DEF IInv

LEMMA CutOffStep == ASSUME IInv, CutOff PROVE IInv'
<1>1. TypeInv'
  BY DEF IInv, TypeInv, CutOff, Nowhere, files, Task
<1>2. InStructsWritten' /\ NetFollowsPhase' /\ JobsRight' /\ ReadingRight'
  BY DEF CutOff, InStructsWritten, NetFollowsPhase, JobsRight, ReadingRight
<1>3. ReasonsGiven'
  BY DEF CutOff, ReasonsGiven
<1>. QED
  BY <1>1, <1>2, <1>3 DEF IInv

\* Giving up changes nothing but the phase.
LEMMA GiveUpStep ==
  ASSUME IInv, phase # "running", GiveUp PROVE IInv'
<1>1. TypeInv'
  BY DEF IInv, TypeInv, GiveUp, files, workers, Task
<1>2. InStructsWritten' /\ JobsRight' /\ ReadingRight'
  BY DEF GiveUp, InStructsWritten, JobsRight, ReadingRight
<1>3. NetFollowsPhase'
  BY DEF IInv, GiveUp, NetFollowsPhase, workers, Task
<1>4. ReasonsGiven'
  BY DEF IInv, GiveUp, ReasonsGiven, workers, Task, Entry
<1>. QED
  BY <1>1, <1>2, <1>3, <1>4 DEF IInv

LEMMA AcceptArgumentsStep == ASSUME IInv, AcceptArguments PROVE IInv'
<1>1. TypeInv'
  BY DEF IInv, TypeInv, AcceptArguments, files, workers, Task
<1>2. pos' = 0 /\ phase' = "writing"
  BY DEF IInv, AcceptArguments, NetFollowsPhase
<1>3. InStructsWritten'
  <2>1. \A k \in Task' : ~ (k < 0)
    BY DEF Task
  <2>. QED
    BY <1>2, <2>1 DEF InStructsWritten
<1>4. JobsRight' /\ ReadingRight'
  BY DEF IInv, AcceptArguments, JobsRight, ReadingRight
<1>5. NetFollowsPhase'
  BY DEF IInv, AcceptArguments, NetFollowsPhase, workers, Nowhere
<1>6. ReasonsGiven'
  BY <1>2 DEF IInv, AcceptArguments, ReasonsGiven, NetFollowsPhase, workers
<1>. QED
  BY <1>1, <1>3, <1>4, <1>5, <1>6 DEF IInv

LEMMA WriteTempStructStep ==
  ASSUME IInv, WriteTempStruct, Writable PROVE IInv'
<1>1. /\ temp' = [temp EXCEPT ![pos] = {Entry(pos)}]
      /\ phase = "writing" /\ phase' = "copying" /\ pos \in Task
      /\ UNCHANGED <<request, pos, answer, workers, in, out, results, before>>
  BY DEF WriteTempStruct
<1>2. UNCHANGED <<net, written, job, stored>>
  BY <1>1 DEF workers
<1>3. /\ Task' = Task /\ \A k : Entry(k)' = Entry(k)
      /\ pos \in Index /\ Entry(pos) \in Entries
      /\ \A k \in Task : k \in Nat /\ k \in Index
  BY <1>1, TasksHaveEntries DEF IInv, TypeInv, Task, Entry
<1>4. TypeInv'
  BY <1>1, <1>2, <1>3 DEF IInv, TypeInv
<1>5. InStructsWritten'
  BY <1>1, <1>3 DEF IInv, TypeInv, InStructsWritten
<1>6. JobsRight' /\ ReadingRight'
  BY <1>1 DEF IInv, JobsRight, ReadingRight
<1>7. NetFollowsPhase'
  BY <1>1, <1>2 DEF IInv, NetFollowsPhase, Nowhere
<1>8. ReasonsGiven'
  BY <1>1, <1>2 DEF IInv, NetFollowsPhase, ReasonsGiven, Writable
<1>. QED
  BY <1>4, <1>5, <1>6, <1>7, <1>8 DEF IInv

LEMMA WriteInStructStep == ASSUME IInv, WriteInStruct PROVE IInv'
<1>1. /\ in' = [in EXCEPT ![pos] = temp[pos]] /\ temp' = [temp EXCEPT ![pos] = {}]
      /\ phase = "copying" /\ phase' = "writing" /\ pos' = pos + 1
      /\ UNCHANGED <<request, answer, net, written, job, stored, out, results,
                     before>>
  BY DEF WriteInStruct, InStruct, workers
<1>2. /\ Task' = Task /\ \A k : Entry(k)' = Entry(k)
      /\ pos \in Task /\ pos \in Index /\ temp[pos] = {Entry(pos)}
      /\ \A k \in Task : k \in Nat /\ k \in Index
  BY <1>1, TasksHaveEntries DEF IInv, TypeInv, InStructsWritten, Task, Entry
<1>3. TypeInv'
  BY <1>1, <1>2 DEF IInv, TypeInv
<1>4. InStructsWritten'
  <2>1. \A k \in Task : k < pos + 1 => k = pos \/ k < pos
    BY <1>2 DEF IInv, TypeInv
  <2>. QED
    BY <1>1, <1>2, <2>1 DEF IInv, TypeInv, InStructsWritten
<1>5. JobsRight' /\ ReadingRight'
  BY <1>1 DEF IInv, JobsRight, ReadingRight
<1>6. NetFollowsPhase'
  BY <1>1 DEF IInv, NetFollowsPhase, Nowhere
<1>7. ReasonsGiven'
  BY <1>1 DEF IInv, NetFollowsPhase, ReasonsGiven
<1>. QED
  BY <1>3, <1>4, <1>5, <1>6, <1>7 DEF IInv

LEMMA LaunchStep == ASSUME IInv, Launch PROVE IInv'
<1>1. TypeInv'
  BY DEF IInv, TypeInv, Launch, files, Task
<1>2. InStructsWritten'
  BY TasksHaveEntries
  DEF IInv, TypeInv, Launch, InStructsWritten, files, Task, Entry
<1>3. JobsRight'
  <2>1. /\ job' = Nowhere /\ stored' = {} /\ written' = {}
        /\ results' = before' /\ \A k \in Task' : k \in Index
    BY TasksHaveEntries
    DEF IInv, TypeInv, Launch, NetFollowsPhase, files, Nowhere, Task
  <2>. QED
    BY <2>1 DEF JobsRight, Nowhere
<1>4. NetFollowsPhase' /\ ReadingRight'
  BY DEF IInv, Launch, NetFollowsPhase, ReadingRight
<1>5. ReasonsGiven'
  BY TasksHaveEntries, RequestsAssumption
  DEF IInv, TypeInv, Launch, ReasonsGiven, Flaws, Request, Task
<1>. QED
  BY <1>1, <1>2, <1>3, <1>4, <1>5 DEF IInv

\* A worker that finds a result finds one from before the call, or the one of a
\* task that has been stored and so is another.
LEMMA BeginTaskStep == ASSUME IInv, NEW k \in Task, BeginTask(k) PROVE IInv'
<1>1. PICK e \in in[k], way \in {"parallel", "serial"} :
        /\ job' = [job EXCEPT ![k] =
             {[entry |-> e,
               word |-> IF e \in results /\ way = "parallel"
                          THEN "Already done!" ELSE "success!"]}]
        /\ stored' = IF e \in results THEN stored \cup {k} ELSE stored
  BY DEF BeginTask
<1> DEFINE a == [entry |-> e,
                 word |-> IF e \in results /\ way = "parallel"
                            THEN "Already done!" ELSE "success!"]
<1>2. /\ phase = "running" /\ job[k] = {} /\ k \in Index
      /\ stored \subseteq Task /\ job \in [Index -> SUBSET Answers]
      /\ \A l \in Task : l \in Index
  BY TasksHaveEntries DEF IInv, TypeInv, BeginTask, NetFollowsPhase
<1>3. /\ \A l \in Task : \A b \in job[l] : Right(l, b) /\ job[l] = {b}
      /\ \A l \in stored : \E b \in Answers : job[l] = {b} /\ Good(l, b)
      /\ \A l \in written : l \in stored /\ out[l] = job[l]
      /\ \A d \in results : d \in before \/ \E l \in stored : Entry(l) = d
  BY <1>2 DEF IInv, JobsRight
<1>4. e = Entry(k) /\ e \in Entries /\ k \notin stored
  <2>1. in[k] = {Entry(k)}
    BY <1>2 DEF IInv, InStructsWritten
  <2>2. k \notin stored
    BY <1>2, <1>3
  <2>. QED
    BY <1>1, <2>1, <2>2, TasksHaveEntries DEF IInv, TypeInv
<1>5. a \in Answers /\ a.entry = e
  BY <1>4 DEF Answers
<1>6. /\ UNCHANGED <<request, before, results, phase, pos, answer, net, written>>
      /\ UNCHANGED <<temp, in, out>>
  BY DEF BeginTask, files
<1>7. /\ Task' = Task /\ \A l : Entry(l)' = Entry(l)
      /\ \A l, b : (Right(l, b)' <=> Right(l, b)) /\ (Good(l, b) => Good(l, b)')
  BY <1>6, RightStays
<1>8. job' \in [Index -> SUBSET Answers] /\ job'[k] = {a}
      /\ \A l \in Index : l # k => job'[l] = job[l]
  BY <1>1, <1>2, <1>5
<1>9. Right(k, a)
  <2>1. a.word = "Already done!" => e \in results
    OBVIOUS
  <2>2. e \in results => e \in before \/ \E l \in Task \ {k} : Entry(l) = e
    BY <1>2, <1>3, <1>4
  <2>. QED
    BY <1>4, <1>5, <2>1, <2>2 DEF Right
<1> HIDE DEF a
<1>10. TypeInv'
  BY <1>1, <1>6, <1>7, <1>8 DEF IInv, TypeInv
<1>11. JobsRight'
  <2>1. \A l \in Task : \A b \in job'[l] : Right(l, b) /\ job'[l] = {b}
    BY <1>2, <1>3, <1>8, <1>9
  <2>2. \A l \in stored' : \E b \in Answers : job'[l] = {b} /\ Good(l, b)
    <3>1. CASE k \in stored'
      <4>1. Good(k, a)
        BY <1>1, <1>4, <1>5, <1>9, <3>1 DEF Good
      <4>2. \A l \in stored' : l = k \/ (l \in stored /\ l \in Index)
        BY <1>1, <1>2
      <4>. QED
        BY <1>3, <1>5, <1>8, <4>1, <4>2
    <3>2. CASE k \notin stored'
      BY <1>1, <1>2, <1>3, <1>4, <1>8, <3>2
    <3>. QED
      BY <3>1, <3>2
  <2>3. \A l \in written : l \in stored' /\ out[l] = job'[l]
    BY <1>1, <1>2, <1>3, <1>4, <1>8
  <2>4. \A d \in results : d \in before \/ \E l \in stored' : Entry(l) = d
    BY <1>1, <1>3
  <2>5. \A l \in stored' : \E b \in Answers : job'[l] = {b} /\ Good(l, b)'
    BY <1>7, <2>2
  <2>. QED
    BY <1>6, <1>7, <2>1, <2>3, <2>4, <2>5 DEF JobsRight
<1>12. InStructsWritten' /\ NetFollowsPhase' /\ ReadingRight'
  BY <1>2, <1>6, <1>7
  DEF IInv, InStructsWritten, NetFollowsPhase, ReadingRight
<1>13. ReasonsGiven'
  BY <1>6, <1>7 DEF IInv, ReasonsGiven
<1>. QED
  BY <1>10, <1>11, <1>12, <1>13 DEF IInv

LEMMA StoreResultStep == ASSUME IInv, NEW k \in Task, StoreResult(k) PROVE IInv'
<1>1. PICK j \in job[k] : results' = results \cup {j.entry}
  BY DEF StoreResult
<1>2. /\ phase = "running" /\ k \in Index /\ stored' = stored \cup {k}
      /\ job[k] \in SUBSET Answers
      /\ \A a \in job[k] : Right(k, a)
  BY TasksHaveEntries DEF IInv, TypeInv, StoreResult, NetFollowsPhase, JobsRight
<1>3. j.entry = Entry(k) /\ j.entry \in Entries
  BY <1>1, <1>2 DEF Right, Answers
<1>4. UNCHANGED <<request, before, phase, pos, answer, net, written, job, temp,
                  in, out>>
  BY DEF StoreResult, files
<1>5. /\ Task' = Task /\ \A l : Entry(l)' = Entry(l)
      /\ \A l, b : (Right(l, b)' <=> Right(l, b)) /\ (Good(l, b) => Good(l, b)')
  BY <1>1, <1>4, RightStays
<1>6. TypeInv'
  BY <1>1, <1>2, <1>3, <1>4, <1>5 DEF IInv, TypeInv
<1>7. JobsRight'
  <2>1. \A l \in stored' : \E b \in Answers : job[l] = {b} /\ Good(l, b)'
    BY <1>1, <1>2, <1>3, <1>5 DEF IInv, JobsRight, Good
  <2>. QED
    BY <1>1, <1>2, <1>3, <1>4, <1>5, <2>1 DEF IInv, JobsRight
<1>8. InStructsWritten' /\ NetFollowsPhase' /\ ReadingRight'
  BY <1>2, <1>4, <1>5
  DEF IInv, InStructsWritten, NetFollowsPhase, ReadingRight
<1>9. ReasonsGiven'
  BY <1>4, <1>5 DEF IInv, ReasonsGiven
<1>. QED
  BY <1>6, <1>7, <1>8, <1>9 DEF IInv

LEMMA EndTaskStep == ASSUME IInv, NEW k \in Task, EndTask(k) PROVE IInv'
<1>1. /\ k \in stored /\ k \in Task \ written /\ net = "working"
      /\ out' = [out EXCEPT ![k] = job[k]] /\ written' = written \cup {k}
      /\ UNCHANGED <<request, phase, pos, answer, net, job, stored, temp, in,
                     results, before>>
  BY DEF EndTask, Farm!Write
<1>2. /\ phase = "running" /\ k \in Index /\ stored \subseteq Task
      /\ job \in [Index -> SUBSET Answers] /\ out \in [Index -> SUBSET Answers]
      /\ \A l \in Task : l \in Index
  BY <1>1, TasksHaveEntries DEF IInv, TypeInv, NetFollowsPhase
<1>3. /\ Task' = Task /\ \A l : Entry(l)' = Entry(l)
      /\ \A l, b : (Right(l, b)' <=> Right(l, b)) /\ (Good(l, b) => Good(l, b)')
  BY <1>1, RightStays
<1>4. out' \in [Index -> SUBSET Answers]
  BY <1>1, <1>2
<1>5. TypeInv'
  BY <1>1, <1>3, <1>4 DEF IInv, TypeInv
<1>6. JobsRight'
  <2>1. \A l \in written' : l \in stored /\ out'[l] = job[l]
    BY <1>1, <1>2 DEF IInv, JobsRight
  <2>. QED
    BY <1>1, <1>2, <1>3, <2>1 DEF IInv, JobsRight
<1>7. InStructsWritten' /\ NetFollowsPhase' /\ ReadingRight'
  BY <1>1, <1>2, <1>3
  DEF IInv, InStructsWritten, NetFollowsPhase, ReadingRight
<1>8. ReasonsGiven'
  BY <1>1, <1>3 DEF IInv, ReasonsGiven
<1>. QED
  BY <1>5, <1>6, <1>7, <1>8 DEF IInv

\* Nothing but the net changes when it is aborted for a reason.
LEMMA AbortStep ==
  ASSUME IInv, Farm!Abort,
         UNCHANGED <<request, phase, pos, answer, job, stored, files, results,
                     before>>,
         request.flaw # "none" \/ \E k \in Task : Entry(k) \in Failing
  PROVE  IInv'
<1>1. /\ net = "working" /\ net' = "aborted" /\ written' = written
      /\ UNCHANGED <<temp, in, out>>
  BY DEF Farm!Abort, files
<1>2. /\ Task' = Task /\ \A l : Entry(l)' = Entry(l)
      /\ \A l, b : (Right(l, b)' <=> Right(l, b)) /\ (Good(l, b) => Good(l, b)')
  BY RightStays
<1>3. TypeInv'
  BY <1>1, <1>2 DEF IInv, TypeInv
<1>4. JobsRight'
  BY <1>1, <1>2 DEF IInv, JobsRight
<1>5. InStructsWritten' /\ NetFollowsPhase' /\ ReadingRight'
  BY <1>1, <1>2 DEF IInv, InStructsWritten, NetFollowsPhase, ReadingRight
<1>6. ReasonsGiven'
  BY <1>1, <1>2 DEF IInv, ReasonsGiven
<1>. QED
  BY <1>3, <1>4, <1>5, <1>6 DEF IInv

\* The input struct of a task can be read while the workflow runs, so a task
\* fails only for its entry.
LEMMA TaskFailsStep == ASSUME IInv, NEW k \in Task, TaskFails(k) PROVE IInv'
<1>1. phase = "running"
  BY DEF IInv, TaskFails, Farm!Abort, NetFollowsPhase
<1>2. Readable(in[k])
  BY <1>1 DEF IInv, InStructsWritten, Readable
<1>3. \E j \in job[k] : j.entry \in Failing
  BY <1>2 DEF TaskFails
<1>4. Entry(k) \in Failing
  BY <1>1, <1>3 DEF IInv, JobsRight, Right
<1>. QED
  BY <1>4, AbortStep DEF TaskFails

LEMMA ExtractFailsStep == ASSUME IInv, ExtractFails PROVE IInv'
BY AbortStep DEF ExtractFails

LEMMA NetReportsStep == ASSUME IInv, NetReports PROVE IInv'
<1>1. /\ net = "working" /\ net' = "done" /\ written' = written /\ written = Task
      /\ UNCHANGED <<request, phase, pos, answer, job, stored, temp, in, out,
                     results, before>>
  BY DEF NetReports, Farm!Report, files
<1>2. /\ Task' = Task /\ \A l : Entry(l)' = Entry(l)
      /\ \A l, b : (Right(l, b)' <=> Right(l, b)) /\ (Good(l, b) => Good(l, b)')
  BY <1>1, RightStays
<1>3. TypeInv'
  BY <1>1, <1>2 DEF IInv, TypeInv
<1>4. JobsRight'
  BY <1>1, <1>2 DEF IInv, JobsRight
<1>5. InStructsWritten' /\ NetFollowsPhase' /\ ReadingRight'
  BY <1>1, <1>2 DEF IInv, InStructsWritten, NetFollowsPhase, ReadingRight
<1>6. ReasonsGiven'
  BY <1>1, <1>2 DEF IInv, ReasonsGiven
<1>. QED
  BY <1>3, <1>4, <1>5, <1>6 DEF IInv

\* The net is done: every task has its output struct.
LEMMA ReturnStep == ASSUME IInv, Return PROVE IInv'
<1>1. /\ phase = "running" /\ net # "working" /\ pos' = 0
      /\ phase' = IF net = "done" THEN "reading" ELSE "failed"
      /\ UNCHANGED <<request, answer, net, written, job, stored, temp, in, out,
                     results, before>>
  BY DEF Return, HasValue, workers, files
<1>2. /\ Task' = Task /\ \A l : Entry(l)' = Entry(l)
      /\ \A l, b : (Right(l, b)' <=> Right(l, b)) /\ (Good(l, b) => Good(l, b)')
  BY <1>1, RightStays
<1>3. TypeInv'
  BY <1>1, <1>2 DEF IInv, TypeInv
<1>4. ReadingRight'
  <2>1. CASE net = "done"
    <3>1. \A k \in Task : \E a \in Answers : out[k] = {a} /\ Good(k, a)
      BY <1>1, <2>1 DEF IInv, NetFollowsPhase, JobsRight
    <3>2. answer = <<>> /\ \A k \in Task : temp[k] = {}
      BY <1>1 DEF IInv, ReadingRight, InStructsWritten
    <3>3. Len(request.entries) \in Nat /\ \A k \in Task : k \in Nat
      BY TasksHaveEntries DEF IInv, TypeInv
    <3>. QED
      BY <1>1, <1>2, <2>1, <3>1, <3>2, <3>3 DEF ReadingRight
  <2>2. CASE net # "done"
    BY <1>1, <2>2 DEF ReadingRight
  <2>. QED
    BY <2>1, <2>2
<1>5. InStructsWritten' /\ NetFollowsPhase' /\ JobsRight'
  BY <1>1, <1>2 DEF IInv, InStructsWritten, NetFollowsPhase, JobsRight
<1>6. ReasonsGiven'
  BY <1>1, <1>2 DEF IInv, ReasonsGiven
<1>. QED
  BY <1>3, <1>4, <1>5, <1>6 DEF IInv

\* Every output struct that is read is there.
LEMMA ReadOutStructStep == ASSUME IInv, ReadOutStruct PROVE IInv'
<1>1. phase = "reading" /\ pos \in Task /\ pos \in Index /\ pos \in Nat
      /\ Len(request.entries) \in Nat /\ \A k \in Task : k \in Index /\ k \in Nat
  BY TasksHaveEntries DEF IInv, TypeInv, ReadOutStruct
<1>2. /\ Len(answer) = pos
      /\ \A k \in Task : temp[k] = {}
      /\ \A k \in Task : k < pos =>
           Good(k, answer[k + 1]) /\ in[k] = {} /\ out[k] = {}
      /\ \A k \in Task : ~ (k < pos) =>
           \E a \in Answers : out[k] = {a} /\ Good(k, a)
  BY <1>1 DEF IInv, ReadingRight
<1>3. PICK a \in Answers : out[pos] = {a} /\ Good(pos, a)
  BY <1>1, <1>2
<1>4. /\ answer' = Append(answer, a) /\ pos' = pos + 1
      /\ in' = [in EXCEPT ![pos] = {}] /\ out' = [out EXCEPT ![pos] = {}]
      /\ UNCHANGED <<request, phase, net, written, job, stored, temp, results,
                     before>>
  BY <1>3 DEF ReadOutStruct, Readable, StructsRemoved, workers
<1>5. /\ Task' = Task /\ \A l : Entry(l)' = Entry(l)
      /\ \A l, b : (Right(l, b)' <=> Right(l, b)) /\ (Good(l, b) => Good(l, b)')
  BY <1>4, RightStays
<1>6. answer \in Seq(Answers)
  BY DEF IInv, TypeInv
<1>7. TypeInv'
  BY <1>1, <1>3, <1>4, <1>5 DEF IInv, TypeInv
<1>8. ReadingRight'
  <2>1. Len(answer') = pos' /\ answer'[pos + 1] = a
    BY <1>1, <1>2, <1>4, <1>6
  <2>2. \A k \in Task : k < pos => answer'[k + 1] = answer[k + 1]
    BY <1>1, <1>2, <1>4, <1>6
  <2>3. pos + 1 <= Len(request.entries)
    BY <1>1 DEF Task
  <2>4. \A k \in Task : k < pos + 1 <=> k < pos \/ k = pos
    BY <1>1
  <2>5. \A k \in Task : in'[k] = IF k = pos THEN {} ELSE in[k]
    BY <1>1, <1>4 DEF IInv, TypeInv
  <2>6. \A k \in Task : out'[k] = IF k = pos THEN {} ELSE out[k]
    BY <1>1, <1>4 DEF IInv, TypeInv
  <2>7. \A k \in Task : k < pos + 1 =>
          Good(k, answer'[k + 1]) /\ in'[k] = {} /\ out'[k] = {}
    BY <1>2, <1>3, <2>1, <2>2, <2>4, <2>5, <2>6
  <2>8. \A k \in Task : ~ (k < pos + 1) =>
          \E b \in Answers : out'[k] = {b} /\ Good(k, b)
    BY <1>2, <2>4, <2>6
  <2>. QED
    BY <1>1, <1>2, <1>4, <1>5, <2>1, <2>3, <2>7, <2>8 DEF ReadingRight
<1>9. InStructsWritten' /\ NetFollowsPhase' /\ JobsRight'
  BY <1>1, <1>4, <1>5 DEF IInv, InStructsWritten, NetFollowsPhase, JobsRight
<1>10. ReasonsGiven'
  BY <1>1, <1>4, <1>5 DEF IInv, ReasonsGiven
<1>. QED
  BY <1>7, <1>8, <1>9, <1>10 DEF IInv

LEMMA ReturnAnswerStep == ASSUME IInv, ReturnAnswer PROVE IInv'
<1>1. /\ phase = "reading" /\ pos \notin Task /\ phase' = "answered"
      /\ UNCHANGED <<request, pos, answer, net, written, job, stored, temp, in,
                     out, results, before>>
  BY DEF ReturnAnswer, workers, files
<1>2. /\ Task' = Task /\ \A l : Entry(l)' = Entry(l)
      /\ \A l, b : (Right(l, b)' <=> Right(l, b)) /\ (Good(l, b) => Good(l, b)')
  BY <1>1, RightStays
<1>3. TypeInv'
  BY <1>1, <1>2 DEF IInv, TypeInv
<1>4. ReadingRight'
  BY <1>1, <1>2 DEF IInv, ReadingRight
<1>5. InStructsWritten' /\ NetFollowsPhase' /\ JobsRight'
  BY <1>1, <1>2 DEF IInv, InStructsWritten, NetFollowsPhase, JobsRight
<1>6. ReasonsGiven'
  BY <1>1, <1>2 DEF IInv, ReasonsGiven
<1>. QED
  BY <1>3, <1>4, <1>5, <1>6 DEF IInv

\* The steps in which the client gives up a call.
LEMMA RefusalSteps ==
  ASSUME IInv, RefuseArguments \/ RefuseInstallation \/ RefuseOptions \/ LaunchFails
  PROVE  IInv'
BY GiveUpStep
DEF RefuseArguments, RefuseInstallation, RefuseOptions, LaunchFails

LEMMA Inductive == ASSUME IInv, [Next]_vars PROVE IInv'
<1>1. CASE RefuseArguments \/ RefuseInstallation \/ RefuseOptions \/ LaunchFails
  BY <1>1, RefusalSteps
<1>2. CASE AcceptArguments
  BY <1>2, AcceptArgumentsStep
<1>3. CASE WriteTempStruct
  <2>1. CASE Writable
    BY <1>3, <2>1, WriteTempStructStep
  <2>2. CASE ~ Writable
    BY <1>3, <2>2, GiveUpStep DEF WriteTempStruct
  <2>. QED
    BY <2>1, <2>2
<1>4. CASE WriteInStruct
  BY <1>4, WriteInStructStep
<1>5. CASE Launch
  BY <1>5, LaunchStep
<1>6. ASSUME NEW k \in Task, BeginTask(k) PROVE IInv'
  BY <1>6, BeginTaskStep
<1>7. ASSUME NEW k \in Task, StoreResult(k) PROVE IInv'
  BY <1>7, StoreResultStep
<1>8. ASSUME NEW k \in Task, EndTask(k) PROVE IInv'
  BY <1>8, EndTaskStep
<1>9. ASSUME NEW k \in Task, TaskFails(k) PROVE IInv'
  BY <1>9, TaskFailsStep
<1>10. CASE ExtractFails
  BY <1>10, ExtractFailsStep
<1>11. CASE NetReports
  BY <1>11, NetReportsStep
<1>12. CASE Return
  BY <1>12, ReturnStep
<1>13. CASE ReadOutStruct
  BY <1>13, ReadOutStructStep
<1>14. CASE ReturnAnswer
  BY <1>14, ReturnAnswerStep
<1>15. CASE NewCall
  BY <1>15, NewCallStep
<1>16. CASE CutOff
  BY <1>16, CutOffStep
<1>17. CASE UNCHANGED vars
  <2>1. UNCHANGED <<request, phase, pos, answer, net, written, job, stored, temp,
                    in, out, results, before>>
    BY <1>17 DEF vars, workers, files
  <2>2. /\ Task' = Task /\ \A l : Entry(l)' = Entry(l)
        /\ \A l, b : (Right(l, b)' <=> Right(l, b)) /\ (Good(l, b) => Good(l, b)')
    BY <2>1, RightStays
  <2>. QED
    BY <2>1, <2>2
    DEF IInv, TypeInv, InStructsWritten, NetFollowsPhase, JobsRight, ReadingRight,
        ReasonsGiven
<1>. QED
  BY <1>1, <1>2, <1>3, <1>4, <1>5, <1>6, <1>7, <1>8, <1>9, <1>10, <1>11, <1>12,
     <1>13, <1>14, <1>15, <1>16, <1>17
  DEF Next, Step

\* The inductive invariant holds in every state of any sequence of calls.
THEOREM CallInvariant == Spec => []IInv
<1>1. Init => IInv
  BY Initially
<1>2. IInv /\ [Next]_vars => IInv'
  BY Inductive
<1>. QED
  BY <1>1, <1>2, PTL DEF Spec

\* A call is only ever answered with the output files its own tasks have written,
\* in the order of its entries, whatever earlier calls have left behind.
THEOREM AnswersAreOfTheirCall == Spec => []AnswerIsOfThisCall
<1>1. IInv => AnswerIsOfThisCall
  <2> SUFFICES ASSUME IInv, phase = "answered"
               PROVE  /\ Len(answer) = Len(request.entries)
                      /\ \A k \in Task : Good(k, answer[k + 1])
    BY DEF AnswerIsOfThisCall, Good, Right
  <2>1. Len(request.entries) \in Nat /\ \A k \in Task : k \in Nat
    BY TasksHaveEntries DEF IInv, TypeInv
  <2>2. pos \in Nat /\ pos \notin Task /\ pos <= Len(request.entries)
    BY DEF IInv, TypeInv, ReadingRight
  <2>3. pos = Len(request.entries) /\ \A k \in Task : k < pos
    BY <2>1, <2>2 DEF Task
  <2>. QED
    BY <2>3 DEF IInv, ReadingRight
<1>. QED
  BY <1>1, CallInvariant, PTL

\* A call that is answered has removed every file under the names of its tasks.
THEOREM AnsweredCallsCleanUp == Spec => []TempdirCleaned
<1>1. IInv => TempdirCleaned
  <2> SUFFICES ASSUME IInv, phase = "answered"
               PROVE  \A k \in Task : temp[k] = {} /\ in[k] = {} /\ out[k] = {}
    BY DEF TempdirCleaned
  <2>1. Len(request.entries) \in Nat /\ \A k \in Task : k \in Nat
    BY TasksHaveEntries DEF IInv, TypeInv
  <2>2. pos \in Nat /\ pos \notin Task /\ pos <= Len(request.entries)
    BY DEF IInv, TypeInv, ReadingRight
  <2>3. \A k \in Task : k < pos
    BY <2>1, <2>2 DEF Task
  <2>. QED
    BY <2>3 DEF IInv, ReadingRight
<1>. QED
  BY <1>1, CallInvariant, PTL

\* The entries a call asks for are those of its tasks.
LEMMA AskedAreEntries ==
  ASSUME IInv
  PROVE  /\ \A k \in Task : Entry(k) \in Promise!Asked
         /\ \A e \in Promise!Asked : \E k \in Task : e = Entry(k)
<1>1. request.entries \in Seq(Entries) /\ Len(request.entries) \in Nat
  BY TasksHaveEntries DEF IInv, TypeInv
<1>2. DOMAIN request.entries = 1 .. Len(request.entries)
  BY <1>1
<1>3. \A k \in Task : k + 1 \in 1 .. Len(request.entries)
  BY <1>1 DEF Task
<1>4. ASSUME NEW i \in 1 .. Len(request.entries)
      PROVE  i - 1 \in Task /\ request.entries[i] = Entry(i - 1)
  BY <1>1 DEF Task, Entry
<1>. QED
  BY <1>2, <1>3, <1>4 DEF Promise!Asked, Entry

\* A reason for giving up is one for rejecting the call.
LEMMA GivingUpRejects ==
  ASSUME IInv, phase \notin Ended, phase' = "failed",
         UNCHANGED <<request, results>>,
         request.flaw # "none" \/ \E k \in Task : Entry(k) \in Failing
  PROVE  Promise!Reject
<1>1. CallStatus = "open" /\ CallStatus' = "rejected"
  BY DEF CallStatus, Ended
<1>. QED
  BY <1>1, AskedAreEntries DEF Promise!Reject

\* Every step of a call is one that ResumableCall allows, or changes nothing it
\* speaks of.
LEMMA StepRefines ==
  ASSUME IInv, [Next]_vars PROVE [Promise!RNext]_(Promise!rvars)
<1> USE DEF Ended
<1>1. CASE RefuseArguments \/ RefuseInstallation \/ RefuseOptions \/ LaunchFails
  BY <1>1, GivingUpRejects
  DEF RefuseArguments, RefuseInstallation, RefuseOptions, LaunchFails, GiveUp,
      Promise!RNext, Promise!Work
<1>2. ASSUME UNCHANGED <<request, results>>, CallStatus' = CallStatus
      PROVE  UNCHANGED Promise!rvars
  BY <1>2 DEF Promise!rvars
<1>3. CASE AcceptArguments \/ WriteInStruct \/ Launch
  BY <1>2, <1>3
  DEF AcceptArguments, WriteInStruct, Launch, CallStatus
<1>4. CASE WriteTempStruct
  <2>1. CASE Writable
    BY <1>2, <1>4, <2>1 DEF WriteTempStruct, CallStatus
  <2>2. CASE ~ Writable
    BY <1>4, <2>2, GivingUpRejects
    DEF WriteTempStruct, Writable, GiveUp, Promise!RNext, Promise!Work
  <2>. QED
    BY <2>1, <2>2
<1>5. CASE ExtractFails \/ NetReports
        \/ \E k \in Task : BeginTask(k) \/ EndTask(k) \/ TaskFails(k)
  BY <1>2, <1>5
  DEF ExtractFails, NetReports, BeginTask, EndTask, TaskFails, CallStatus
<1>6. ASSUME NEW k \in Task, StoreResult(k)
      PROVE  Promise!Store \/ UNCHANGED Promise!rvars
  <2>1. PICK j \in job[k] : /\ j.entry \notin Failing
                            /\ results' = results \cup {j.entry}
    BY <1>6 DEF StoreResult
  <2>2. phase = "running" /\ UNCHANGED <<request, phase>>
    BY <1>6 DEF IInv, NetFollowsPhase, StoreResult
  <2>3. CallStatus = "open" /\ CallStatus' = "open"
    BY <2>2 DEF CallStatus
  <2>4. j.entry = Entry(k) /\ Entry(k) \in Promise!Asked
    BY <2>1, <2>2, AskedAreEntries DEF IInv, JobsRight, Right
  <2>5. Promise!Startable
    <3>1. request.entries # <<>>
      BY <1>6 DEF Task
    <3>. QED
      BY <2>2, <3>1 DEF IInv, ReasonsGiven, Promise!Startable
  <2>6. CASE j.entry \in results
    BY <1>2, <2>1, <2>2, <2>3, <2>6
  <2>7. CASE j.entry \notin results
    BY <2>1, <2>2, <2>3, <2>4, <2>5, <2>7 DEF Promise!Store
  <2>. QED
    BY <2>6, <2>7
<1>7. CASE Return
  <2>1. CASE net = "done"
    BY <1>2, <1>7, <2>1 DEF Return, HasValue, CallStatus
  <2>2. CASE net # "done"
    <3>1. net = "aborted" /\ phase = "running" /\ phase' = "failed"
          /\ UNCHANGED <<request, results>>
      BY <1>7, <2>2 DEF IInv, TypeInv, NetFollowsPhase, Return, HasValue
    <3>. QED
      BY <3>1, GivingUpRejects DEF IInv, ReasonsGiven, Promise!RNext, Promise!Work
  <2>. QED
    BY <2>1, <2>2
<1>8. CASE ReadOutStruct
  <2>1. pos \in Task /\ phase = "reading"
    BY <1>8 DEF ReadOutStruct
  <2>2. pos \in Nat /\ ~ (pos < pos)
    BY DEF IInv, TypeInv
  <2>3. Readable(out[pos])
    BY <2>1, <2>2 DEF IInv, ReadingRight, Readable
  <2>. QED
    BY <1>2, <1>8, <2>3 DEF ReadOutStruct, CallStatus
<1>9. CASE ReturnAnswer
  <2>1. /\ phase = "reading" /\ phase' = "answered" /\ pos \notin Task
        /\ UNCHANGED <<request, results>>
    BY <1>9 DEF ReturnAnswer
  <2>2. CallStatus = "open" /\ CallStatus' = "answered"
    BY <2>1 DEF CallStatus
  <2>3. Len(request.entries) \in Nat /\ pos \in Nat /\ pos <= Len(request.entries)
    BY <2>1, TasksHaveEntries DEF IInv, TypeInv, ReadingRight
  <2>4. \A k \in Task : k < pos
    BY <2>1, <2>3 DEF Task
  <2>5. \A k \in Task : Entry(k) \in results
    <3>1. \A k \in Task : Good(k, answer[k + 1])
      BY <2>1, <2>4 DEF IInv, ReadingRight
    <3>. QED
      BY <3>1 DEF Good, Right
  <2>6. Promise!Asked \subseteq results
    BY <2>5, AskedAreEntries
  <2>7. Promise!Startable
    <3>1. request.entries = <<>> => Promise!Asked = {}
      BY DEF Promise!Asked
    <3>. QED
      BY <2>1, <3>1 DEF IInv, ReasonsGiven, Promise!Startable
  <2>. QED
    BY <2>1, <2>2, <2>6, <2>7 DEF Promise!Answer, Promise!RNext, Promise!Work
<1>10. CASE NewCall
  <2>1. phase' = "checking" /\ phase \in Ended
    BY <1>10 DEF NewCall
  <2>2. CallStatus # "open" /\ CallStatus' = "open"
    BY <2>1 DEF CallStatus
  <2>. QED
    BY <1>10, <2>2 DEF NewCall, Promise!Ask, Promise!RNext
<1>11. CASE CutOff
  <2>1. CallStatus = "open" /\ CallStatus' = "closed"
    BY <1>11 DEF IInv, TypeInv, CutOff, CallStatus
  <2>. QED
    BY <1>11, <2>1 DEF CutOff, Promise!CutOff, Promise!RNext
<1>12. CASE UNCHANGED vars
  BY <1>2, <1>12 DEF vars, CallStatus
<1>. QED
  BY <1>1, <1>3, <1>4, <1>5, <1>6, <1>7, <1>8, <1>9, <1>10, <1>11, <1>12
  DEF Next, Step, Promise!RNext, Promise!Work

\* Calls keep what ResumableCall promises of their safety: results are added one
\* by one and never lost, an answer comes when they are all there, and a call is
\* given up for a flaw or a failing entry and nothing else.
THEOREM CallsKeepPromise ==
  Spec => Promise!RInit /\ [][Promise!RNext]_(Promise!rvars)
<1>1. Init => Promise!RInit
  BY DEF Init, Promise!RInit, CallStatus
<1>2. IInv /\ [Next]_vars => [Promise!RNext]_(Promise!rvars)
  BY StepRefines
<1>. QED
  BY <1>1, <1>2, CallInvariant, PTL DEF Spec
=============================================================================
