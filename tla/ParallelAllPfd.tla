--------------------------- MODULE ParallelAllPfd ---------------------------
(***************************************************************************)
(* The workflow over all problems of one call: the Petri net               *)
(* workflow/parallel_allpfd.xpnet.  The list of the problems, sorted by    *)
(* the size of their input, is emptied from its end: first the share that  *)
(* is handled with parallelism inside each problem (p_compute, a net of    *)
(* its own, see PfdCompute), then the rest, each in one serial call        *)
(* (s_compute).  The results are counted down and the net ends with the    *)
(* token "DONE".                                                           *)
(*                                                                         *)
(* p_compute and s_compute run for a long time and are split into a Begin  *)
(* and an End action; any number of them overlap.  Either may fail, for    *)
(* one of the problems in Failing: the exception ends the whole net.       *)
(*                                                                         *)
(* A place that holds one token or none is a variable for the token and    *)
(* one that says whether it is there.  Which of the equally large inputs   *)
(* comes first in the sorted list is left open.                            *)
(***************************************************************************)
EXTENDS ParallelShare, Sequences, FiniteSets

CONSTANTS
  MaxTasks,     \* bound on options.task_count
  Percentages,  \* what options.percentage may be
  Size,         \* the size of a problem's input
  Converted,    \* the sets of problems whose input is there as .ssi file
  Failing       \* the problems whose decomposition raises an error

ASSUME MaxTasksAssumption == MaxTasks \in Nat
ASSUME PercentagesAssumption == Percentages \subseteq Nat
ASSUME SizeAssumption == Size \in [0 .. MaxTasks - 1 -> Nat]
ASSUME ConvertedAssumption == Converted \subseteq SUBSET (0 .. MaxTasks - 1)
ASSUME FailingAssumption == Failing \subseteq 0 .. MaxTasks - 1
\* The product of the float and the number of tasks is in range: it converts to
\* an unsigned int, and counting the tasks does not wrap.
ASSUME ShareAssumption ==
  /\ MaxTasks < Word
  /\ \A p \in Percentages, n \in 0 .. MaxTasks : ParallelCount(p, n) \in Nat

VARIABLES
  taskCount, percentage, sortInput, ssi,   \* options, and the inputs found
  initiated,   \* the token of place initiated: 0, 1, or 2 for none
  extracting,  \* 1 while extract_control and extract_list hold their tokens
  parallel, serial, elist,
  counting,    \* 1 while the place control holds its token
  control,
  pTasks, pJobs, sTasks, sJobs, results,
  outStruct,   \* who has written the problem's output file: "parallel",
               \* "serial", or "none" when it is not there
  net          \* "running", "DONE" or "cancelled"

config  == <<taskCount, percentage, sortInput, ssi>>
extract == <<extracting, parallel, serial, elist>>
places  == <<pTasks, pJobs, sTasks, sJobs, results>>
vars    == <<config, initiated, extract, counting, control, places, outStruct,
             net>>

Task == 0 .. taskCount - 1

\* get_input_file_size: the size of the .ssi input file, -1 without one.
FileSize(t) == IF t \in ssi THEN Size[t] ELSE -1

\* pfd_sorted_input_by_size, up to the order of files of the same size.
SortedLists ==
  {s \in [1 .. taskCount -> Task] :
     \A i, j \in 1 .. taskCount :
       i < j => s[i] # s[j] /\ FileSize(s[i]) <= FileSize(s[j])}

\* Mutation: one more time than the share says.
ParallelRemainsAtZero == parallel >= 0

\* The condition of p_extract.
ParallelRemains == parallel > 0

\* Mutation: the share is not taken down.
ShareKept == parallel

\* p_extract: ecount.parallel -= 1
ShareOneLess == parallel - 1

\* Mutation: the serial share does not wait for the parallel one.
SerialTurnAtOnce == serial > 0

\* The condition of s_extract.
SerialTurn == parallel = 0 /\ serial > 0

\* Mutation: the task stays in the list.
DropNothing == elist' = elist

\* elist.pop_back()
DropLast == elist' = SubSeq(elist, 1, Len(elist) - 1)

\* Mutation: the condition of finish is off by one.
AlmostAllCollected == control <= 1

\* The condition of finish.
AllCollected == control = 0

\* Mutation: the count is taken down twice.
CountTwoDown == control - 2

\* The expression of collect.
CountDown == control - 1

\* Mutation: extraction goes on when the parallel share is used up only.
NothingToExtractSerialLeft == parallel = 0

\* The condition of done_extract.
NothingToExtract == parallel = 0 /\ serial = 0

-----------------------------------------------------------------------------

Init ==
  /\ taskCount \in 0 .. MaxTasks
  /\ percentage \in Percentages
  /\ sortInput \in {0, 1}
  /\ ssi \in Converted
  /\ initiated = 0
  /\ extracting = 0 /\ parallel = 0 /\ serial = 0 /\ elist = <<>>
  /\ counting = 0 /\ control = 0
  /\ pTasks = {} /\ pJobs = {} /\ sTasks = {} /\ sJobs = {} /\ results = {}
  /\ outStruct = [t \in 0 .. MaxTasks - 1 |-> "none"]
  /\ net = "running"

\* Transition initialize.
Initialize ==
  /\ net = "running"
  /\ initiated = 0
  /\ initiated' = 1
  /\ extracting' = 1
  /\ parallel' = ParallelCount(percentage, taskCount)
  /\ serial' = SerialCount(percentage, taskCount)
  /\ IF sortInput = 1
       THEN elist' \in SortedLists
       ELSE elist' = [i \in 1 .. taskCount |-> i - 1]
  /\ counting' = 1
  /\ control' = taskCount
  /\ UNCHANGED <<config, places, outStruct, net>>

\* Transition p_extract, which throws when the list is empty.
PExtract ==
  /\ net = "running"
  /\ extracting = 1
  /\ ParallelRemains
  /\ IF elist # <<>>
       THEN /\ pTasks' = pTasks \cup {elist[Len(elist)]}
            /\ DropLast
            /\ parallel' = ShareOneLess
            /\ UNCHANGED net
       ELSE net' = "cancelled" /\ UNCHANGED <<pTasks, elist, parallel>>
  /\ UNCHANGED <<config, initiated, extracting, serial, counting, control,
                 pJobs, sTasks, sJobs, results, outStruct>>

\* Transition s_extract, likewise.
SExtract ==
  /\ net = "running"
  /\ extracting = 1
  /\ SerialTurn
  /\ IF elist # <<>>
       THEN /\ sTasks' = sTasks \cup {elist[Len(elist)]}
            /\ DropLast
            /\ serial' = serial - 1
            /\ UNCHANGED net
       ELSE net' = "cancelled" /\ UNCHANGED <<sTasks, elist, serial>>
  /\ UNCHANGED <<config, initiated, extracting, parallel, counting, control,
                 pTasks, pJobs, sJobs, results, outStruct>>

\* Transition done_extract takes both tokens away.
DoneExtract ==
  /\ net = "running"
  /\ extracting = 1
  /\ NothingToExtract
  /\ extracting' = 0
  /\ elist' = <<>>
  /\ UNCHANGED <<config, initiated, parallel, serial, counting, control,
                 places, outStruct, net>>

\* Transition p_compute starts a net of its own for the problem.
BeginPCompute(t) ==
  /\ net = "running"
  /\ t \in pTasks
  /\ pTasks' = pTasks \ {t}
  /\ pJobs' = pJobs \cup {t}
  /\ UNCHANGED <<config, initiated, extract, counting, control, sTasks, sJobs,
                 results, outStruct, net>>

\* Transition p_compute: the problem's net has put its output token.
EndPCompute(t) ==
  /\ net = "running"
  /\ t \in pJobs
  /\ pJobs' = pJobs \ {t}
  /\ results' = results \cup {t}
  /\ outStruct' = [outStruct EXCEPT ![t] = "parallel"]
  /\ UNCHANGED <<config, initiated, extract, counting, control, pTasks, sTasks,
                 sJobs, net>>

\* Transition s_compute calls pfd_serial_compute_pfd.
BeginSCompute(t) ==
  /\ net = "running"
  /\ t \in sTasks
  /\ sTasks' = sTasks \ {t}
  /\ sJobs' = sJobs \cup {t}
  /\ UNCHANGED <<config, initiated, extract, counting, control, pTasks, pJobs,
                 results, outStruct, net>>

\* Transition s_compute: pfd_serial_compute_pfd has returned.
EndSCompute(t) ==
  /\ net = "running"
  /\ t \in sJobs
  /\ sJobs' = sJobs \ {t}
  /\ results' = results \cup {t}
  /\ outStruct' = [outStruct EXCEPT ![t] = "serial"]
  /\ UNCHANGED <<config, initiated, extract, counting, control, pTasks, pJobs,
                 sTasks, net>>

\* A computation raises an error, which cancels the net.
Fail(t) ==
  /\ net = "running"
  /\ t \in (pJobs \cup sJobs) \cap Failing
  /\ net' = "cancelled"
  /\ UNCHANGED <<config, initiated, extract, counting, control, places,
                 outStruct>>

\* Transition collect.
Collect(t) ==
  /\ net = "running"
  /\ t \in results
  /\ counting = 1
  /\ control > 0
  /\ results' = results \ {t}
  /\ control' = CountDown
  /\ UNCHANGED <<config, initiated, extract, counting, pTasks, pJobs, sTasks,
                 sJobs, outStruct, net>>

\* Transition finish takes the tokens of control, initiated and
\* global_options: nothing that reads the options can fire any more.
Finish ==
  /\ net = "running"
  /\ counting = 1
  /\ initiated # 2
  /\ AllCollected
  /\ counting' = 0
  /\ initiated' = 2
  /\ net' = "DONE"
  /\ UNCHANGED <<config, extract, control, places, outStruct>>

\* The call has its answer.
Stopped == net # "running" /\ UNCHANGED vars

Next ==
  \/ Initialize
  \/ PExtract
  \/ SExtract
  \/ DoneExtract
  \/ \E t \in Task : BeginPCompute(t)
  \/ \E t \in Task : EndPCompute(t)
  \/ \E t \in Task : BeginSCompute(t)
  \/ \E t \in Task : EndSCompute(t)
  \/ \E t \in Task : Fail(t)
  \/ \E t \in Task : Collect(t)
  \/ Finish
  \/ Stopped

\* The engine fires an enabled transition sooner or later, and every
\* computation comes back.
Fairness == WF_vars(Next)

Spec == Init /\ [][Next]_vars /\ Fairness

-----------------------------------------------------------------------------

\* Every place holds tokens of its type; the counters are never below zero,
\* where the unsigned ints of the code would wrap.
TypeOK ==
  /\ taskCount \in 0 .. MaxTasks
  /\ percentage \in Percentages
  /\ sortInput \in {0, 1}
  /\ ssi \in Converted
  /\ initiated \in 0 .. 2
  /\ extracting \in {0, 1} /\ counting \in {0, 1}
  /\ parallel \in Nat /\ serial \in Nat /\ control \in 0 .. taskCount
  /\ elist \in Seq(Task)
  /\ pTasks \subseteq Task /\ pJobs \subseteq Task
  /\ sTasks \subseteq Task /\ sJobs \subseteq Task
  /\ results \subseteq Task
  /\ outStruct \in [0 .. MaxTasks - 1 -> {"none", "parallel", "serial"}]
  /\ net \in {"running", "DONE", "cancelled"}

Listed    == {elist[i] : i \in 1 .. Len(elist)}
Written   == {t \in Task : outStruct[t] # "none"}
Underway  == pTasks \cup pJobs \cup sTasks \cup sJobs
ParallelSide == pTasks \cup pJobs \cup {t \in Task : outStruct[t] = "parallel"}
SerialSide   == sTasks \cup sJobs \cup {t \in Task : outStruct[t] = "serial"}

\* From initialize on every problem is in one place of the net and one only, in
\* the list at most once: none is computed twice or by two workers at a time.
EachTaskOnce ==
  initiated # 0 =>
    /\ Listed \cup Underway \cup Written = Task
    /\ Listed \cap (Underway \cup Written) = {}
    /\ Underway \cap Written = {}
    /\ pTasks \cap pJobs = {} /\ sTasks \cap sJobs = {}
    /\ ParallelSide \cap SerialSide = {}
    /\ \A i, j \in 1 .. Len(elist) : i # j => elist[i] # elist[j]
    /\ results \subseteq Written

\* The count is the number of problems whose result has not been collected, so
\* collect is never without a count and finish waits for all of them.
ControlExact ==
  counting = 1 => control = Cardinality((Task \ Written) \cup results)

\* "DONE" means that the output file of every problem has been written, that
\* no worker is at work and none can start, which the call relies on when it
\* reads and removes the files.
DoneMeansWritten ==
  net = "DONE" => Written = Task /\ Underway = {} /\ results = {}

\* Once the net has stopped without an error the list has been dealt out in the
\* two shares, the parallel one as large as initialize has set it.  (Above 100
\* percent the net may be done before p_extract finds the list empty.)
SharesDealt ==
  (net = "DONE" /\ percentage <= 100) =>
    /\ Cardinality(ParallelSide) = ParallelCount(percentage, taskCount)
    /\ Cardinality(SerialSide) = taskCount - ParallelCount(percentage, taskCount)

\* No problem handled serially, or yet to be handed out, has a larger input than
\* one handled with internal parallelism.
LargestFirst ==
  \A t \in ParallelSide, u \in SerialSide \cup Listed : Size[t] >= Size[u]

\* With sort_input and .ssi inputs the problems handled with internal
\* parallelism are the largest, whatever order the workers finish in.
LargestGoParallel == (sortInput = 1 /\ Task \subseteq ssi) => LargestFirst

\* Readme2.md: under size_strategy "the p/100 largest of all input functions
\* should be processed with parallelism per individual function", with either
\* input format.
LargestGoParallelInAnyFormat == sortInput = 1 => LargestFirst

\* The net is cancelled only by a failing decomposition or by a percentage
\* above 100, whose share is more than the list holds.
CancelledOnlyByFailure ==
  net = "cancelled" =>
    \/ (pJobs \cup sJobs) \cap Failing # {}
    \/ ParallelCount(percentage, taskCount) > taskCount

\* Nothing is left waiting: the call always gets an answer.
CallIsAnswered == <>(net # "running")

\* What the net promises, TaskFarm.
Farm == INSTANCE TaskFarm WITH
  tasks   <- Task,
  written <- Written,
  phase   <- CASE net = "running"   -> "working"
               [] net = "DONE"      -> "done"
               [] net = "cancelled" -> "aborted"

\* The net implements TaskFarm.
ImplementsFarm == Farm!Spec
=============================================================================
