------------------------------- MODULE PfdCall -------------------------------
(***************************************************************************)
(* Calls of parallel_pfd, one after the other, with the same temporary and *)
(* output directories: the client in Singular, which checks the arguments, *)
(* writes one input file per task, starts the workflow and reads one       *)
(* output file per task, and the workers, which read the former and write  *)
(* the latter.  Files are named by the position of a task in its call, so  *)
(* calls about different entries use the same names.                       *)
(*                                                                         *)
(* The workflow in between is TaskFarm, which ParallelAllPfd implements;   *)
(* PfdCompute has the files of a task's own computation.  A call may be    *)
(* cut off at any point, with all its processes.                           *)
(*                                                                         *)
(* A file is the set of its one content, and {} when it does not exist.    *)
(***************************************************************************)
EXTENDS Integers, Sequences

CONSTANTS
  Entries,   \* the entries of the matrix
  MaxTasks,  \* bound on the number of entries of a call
  Requests,  \* the calls: their entries, and what is wrong with them
  Failing    \* the entries whose decomposition raises an error

\* What may be wrong with a call: a missing argument or one of a wrong type,
\* an incomplete installation, an additional option that is no string, a
\* temporary directory that cannot be written to, the option --help, a nodefile
\* that cannot be read, a percentage above 100, which nothing checks.
Flaws == {"argument", "installation", "option", "tempdir", "help", "nodefile",
          "percentage"}

\* Class ArgumentState, down to what decides how a call goes.
Request == [entries : Seq(Entries), flaw : Flaws \cup {"none"}]

ASSUME MaxTasksAssumption == MaxTasks \in Nat
ASSUME RequestsAssumption ==
  /\ Requests # {}
  /\ Requests \subseteq Request
  /\ \A r \in Requests : Len(r.entries) <= MaxTasks
ASSUME FailingAssumption == Failing \subseteq Entries

\* get_in_struct_filename and get_out_struct_filename: a name for every position.
Index == 0 .. MaxTasks - 1

VARIABLES
  request,  \* the last call
  phase,    \* where the client is in it
  pos,      \* the loop variable i of the client
  answer,   \* out_list: the contents of the output files read
  net,      \* "none", "working", "done" or "aborted"
  written,  \* the tasks that have ended
  job,      \* what a worker has found out about a task: its entry and its word
  stored,   \* the tasks whose result file is there
  temp,     \* tempdir/<base>.i<k>_temp
  in,       \* tempdir/<base>.i<k>
  out,      \* tempdir/<base>.o<k>
  results,  \* the entries whose result file is in the output directory
  before    \* those it was there for when the call started (history)

files   == <<temp, in, out>>
workers == <<net, written, job, stored>>
vars    == <<request, phase, pos, answer, workers, files, results, before>>

Task == 0 .. Len(request.entries) - 1

Entry(k) == request.entries[k + 1]

\* The phases in which no call is under way.
Ended == {"idle", "answered", "failed", "cut"}

Farm == INSTANCE TaskFarm WITH tasks <- Task, phase <- net

Nowhere == [k \in Index |-> {}]

\* Mutation: the answer is read whenever the net has ended.
NetEnded == net # "working"

\* result.has_value(), which is so when put_and_run has returned the port
\* "output": an aborted net makes it throw.
HasValue == net = "done"

\* Mutation: the input file stays.
OutStructRemoved(k) == out' = [out EXCEPT ![k] = {}] /\ UNCHANGED in

\* The two calls of remove in sggspc_pfd.
StructsRemoved(k) ==
  /\ out' = [out EXCEPT ![k] = {}]
  /\ in' = [in EXCEPT ![k] = {}]

\* Mutation: an input file that is there already is kept.
InStructKept(k) == IF in[k] = {} THEN temp[k] ELSE in[k]

\* double_ssi_write_newstruct: the second writing is of what the first has left.
InStruct(k) == temp[k]

\* ssi_open_for_read and ssi_open_for_write throw otherwise.
Readable(file) == file # {}
Writable == request.flaw # "tempdir"

-----------------------------------------------------------------------------

Init ==
  /\ request \in Requests
  /\ phase = "idle"
  /\ pos = 0 /\ answer = <<>>
  /\ net = "none" /\ written = {} /\ job = Nowhere /\ stored = {}
  /\ temp = Nowhere /\ in = Nowhere /\ out = Nowhere
  /\ results = {} /\ before = {}

\* parallel_pfd builds the list of structs and calls sggspc_pfd.
NewCall ==
  /\ phase \in Ended
  /\ request' \in Requests
  /\ phase' = "checking"
  /\ pos' = 0 /\ answer' = <<>>
  /\ net' = "none" /\ written' = {} /\ job' = Nowhere /\ stored' = {}
  /\ before' = results
  /\ UNCHANGED <<files, results>>

\* Every way in which the client gives up: an exception is caught and printed,
\* and nothing that has been written is removed.
GiveUp ==
  /\ phase' = "failed"
  /\ UNCHANGED <<request, pos, answer, workers, files, results, before>>

\* The constructor of ArgumentState throws.
RefuseArguments == phase = "checking" /\ request.flaw = "argument" /\ GiveUp

\* The constructor of installation throws.
RefuseInstallation ==
  phase = "checking" /\ request.flaw = "installation" /\ GiveUp

\* gpis_launch_with_workflow throws before it has written anything.
RefuseOptions == phase = "checking" /\ request.flaw = "option" /\ GiveUp

\* The arguments are fine: the loop of write_in_structs_to_file starts.
AcceptArguments ==
  /\ phase = "checking"
  /\ request.flaw \notin {"argument", "installation", "option"}
  /\ phase' = "writing"
  /\ UNCHANGED <<request, pos, answer, workers, files, results, before>>

\* double_ssi_write_newstruct writes the _temp file first.
WriteTempStruct ==
  /\ phase = "writing"
  /\ pos \in Task
  /\ IF Writable
       THEN /\ temp' = [temp EXCEPT ![pos] = {Entry(pos)}]
            /\ phase' = "copying"
            /\ UNCHANGED <<request, pos, answer, workers, in, out, results,
                           before>>
       ELSE GiveUp

\* It reads that file, writes the input file and removes the _temp file.
WriteInStruct ==
  /\ phase = "copying"
  /\ in' = [in EXCEPT ![pos] = InStruct(pos)]
  /\ temp' = [temp EXCEPT ![pos] = {}]
  /\ pos' = pos + 1
  /\ phase' = "writing"
  /\ UNCHANGED <<request, answer, workers, out, results, before>>

\* gpis_launch_with_workflow returns without a value after the writing, when it
\* has been asked for help or when the runtime does not start.
LaunchFails ==
  /\ phase = "writing"
  /\ pos \notin Task
  /\ request.flaw \in {"help", "nodefile"}
  /\ GiveUp

\* get_values_on_ports, and put_and_run starts the workflow.
Launch ==
  /\ phase = "writing"
  /\ pos \notin Task
  /\ request.flaw \notin {"help", "nodefile"}
  /\ phase' = "running"
  /\ net' = "working"
  /\ UNCHANGED <<request, pos, answer, written, job, stored, files, results,
                 before>>

\* A worker loads the input struct of the task and looks for a result.  The
\* serial computation says the same whether there is one or not.
BeginTask(k) ==
  /\ net = "working"
  /\ k \in Task
  /\ job[k] = {}
  /\ \E e \in in[k], way \in {"parallel", "serial"} :
       /\ job' = [job EXCEPT ![k] =
            {[entry |-> e,
              word |-> IF e \in results /\ way = "parallel"
                         THEN "Already done!" ELSE "success!"]}]
       /\ stored' = IF e \in results THEN stored \cup {k} ELSE stored
  /\ UNCHANGED <<request, phase, pos, answer, net, written, files, results,
                 before>>

\* The decomposition is there and its result file is written.
StoreResult(k) ==
  /\ net = "working"
  /\ k \in Task \ stored
  /\ \E j \in job[k] :
       /\ j.entry \notin Failing
       /\ results' = results \cup {j.entry}
  /\ stored' = stored \cup {k}
  /\ UNCHANGED <<request, phase, pos, answer, net, written, job, files, before>>

\* The worker writes the output struct of the task.
EndTask(k) ==
  /\ k \in stored
  /\ out' = [out EXCEPT ![k] = job[k]]
  /\ UNCHANGED <<request, phase, pos, answer, job, stored, temp, in, results,
                 before>>
  /\ Farm!Write(k)

\* A command in the interpreter of a worker fails, which aborts the net: the
\* input cannot be read or the decomposition raises an error.
TaskFails(k) ==
  /\ k \in Task \ stored
  /\ IF Readable(in[k]) THEN \E j \in job[k] : j.entry \in Failing
                        ELSE job[k] = {}
  /\ UNCHANGED <<request, phase, pos, answer, job, stored, files, results,
                 before>>
  /\ Farm!Abort

\* p_extract finds the list empty, unless the net is done before.
ExtractFails ==
  /\ request.flaw = "percentage"
  /\ UNCHANGED <<request, phase, pos, answer, job, stored, files, results,
                 before>>
  /\ Farm!Abort

\* The workflow has collected the results of all tasks.
NetReports ==
  /\ UNCHANGED <<request, phase, pos, answer, job, stored, files, results,
                 before>>
  /\ Farm!Report

\* gpis_launch_with_workflow returns.  Without a value sggspc_pfd does so too.
Return ==
  /\ phase = "running"
  /\ net # "working"
  /\ phase' = IF HasValue THEN "reading" ELSE "failed"
  /\ pos' = 0
  /\ UNCHANGED <<request, answer, workers, files, results, before>>

\* sggspc_pfd reads the next output struct and removes the task's files.
ReadOutStruct ==
  /\ phase = "reading"
  /\ pos \in Task
  /\ IF Readable(out[pos])
       THEN /\ \E a \in out[pos] : answer' = Append(answer, a)
            /\ StructsRemoved(pos)
            /\ pos' = pos + 1
            /\ UNCHANGED <<request, phase, workers, temp, results, before>>
       ELSE GiveUp

\* sggspc_pfd returns the list.
ReturnAnswer ==
  /\ phase = "reading"
  /\ pos \notin Task
  /\ phase' = "answered"
  /\ UNCHANGED <<request, pos, answer, workers, files, results, before>>

\* The call is interrupted or crashes: what its processes know is gone, the
\* files are not.
CutOff ==
  /\ phase \notin Ended
  /\ phase' = "cut"
  /\ pos' = 0 /\ answer' = <<>>
  /\ net' = "none" /\ written' = {} /\ job' = Nowhere /\ stored' = {}
  /\ UNCHANGED <<request, files, results, before>>

\* What happens in a call by itself.
Step ==
  \/ RefuseArguments
  \/ RefuseInstallation
  \/ RefuseOptions
  \/ AcceptArguments
  \/ WriteTempStruct
  \/ WriteInStruct
  \/ LaunchFails
  \/ Launch
  \/ \E k \in Task : BeginTask(k)
  \/ \E k \in Task : StoreResult(k)
  \/ \E k \in Task : EndTask(k)
  \/ \E k \in Task : TaskFails(k)
  \/ ExtractFails
  \/ NetReports
  \/ Return
  \/ ReadOutStruct
  \/ ReturnAnswer

Next == Step \/ NewCall \/ CutOff

\* The client runs on, and the engine and the workers do (see ParallelAllPfd);
\* nobody has to make another call.
Fairness == WF_vars(Step)

Spec == Init /\ [][Next]_vars /\ Fairness

-----------------------------------------------------------------------------

\* The answer is about the entries of this call, in their order, whatever output
\* files earlier calls have left; their results are there, and a skipped entry
\* had its result before, or got it from another task of the call.
AnswerIsOfThisCall ==
  phase = "answered" =>
    /\ Len(answer) = Len(request.entries)
    /\ \A k \in Task : LET a == answer[k + 1] IN
         /\ a.entry = Entry(k)
         /\ a.entry \in results
         /\ a.word = "Already done!" =>
              \/ a.entry \in before
              \/ \E l \in Task \ {k} : Entry(l) = a.entry

\* A call that is answered leaves none of its files in tempdir, neither those it
\* has written nor those it has found under its names.
TempdirCleaned ==
  phase = "answered" =>
    \A k \in Task : temp[k] = {} /\ in[k] = {} /\ out[k] = {}

\* What calls promise, ResumableCall.
CallStatus ==
  CASE phase = "answered"         -> "answered"
    [] phase = "failed"           -> "rejected"
    [] phase \in {"idle", "cut"} -> "closed"
    [] OTHER                      -> "open"

Promise == INSTANCE ResumableCall WITH status <- CallStatus

\* Calls implement ResumableCall: no result is lost, an answer is given when all
\* results are there, a call is rejected only for a flaw or a failing entry, and
\* one that is not cut off ends.
ImplementsPromise == Promise!Spec
=============================================================================
