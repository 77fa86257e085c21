----------------------------- MODULE PfdCompute -----------------------------
(***************************************************************************)
(* One problem of a call, over any number of calls: the net                *)
(* workflow/pfd_compute.xpnet, which prepares the problem, takes its terms *)
(* through the four decomposition steps and writes the result, and the     *)
(* serial computation pfd_serial_compute_pfd, with the files they share.   *)
(* The splitting, decomposing and merging within a step is ForkComputeStep *)
(* and only its first, its middle and its last effect on the files of the  *)
(* step are told apart here.                                               *)
(*                                                                         *)
(* A call may be cut off at any point, by a crash or an error, and the     *)
(* user may start the next one with the same temporary directory: the      *)
(* files that are there then are old.  A file's content is the set of the  *)
(* marks of what went into it, and {} is a file that does not exist.  The  *)
(* marks are "old" and "new", for anything written by an earlier call or   *)
(* by this one, and in a time file the measurements <<measure, step>>      *)
(* whose durations it sums up.  Content is carried along when it is read,  *)
(* so an "old" mark shows that a file of an earlier call has been used.    *)
(* The result file is meant to be used by later calls, which find it with  *)
(* the mark "kept" instead.                                                *)
(*                                                                         *)
(* A handler that throws ends the call; the files it has changed by then   *)
(* are left as they were, a crash just before it.                          *)
(***************************************************************************)
EXTENDS Integers

CONSTANTS
  Actives,   \* the settings of options.steps_active
  Problems   \* the kinds of problem: "trivial", "ordinary" or "vanishing",
             \* one whose terms add up to nothing

Steps == 1 .. 4    \* the four decomposition steps, in order

Measures == {"init", "compute", "merge", "finish"}

ASSUME ActivesAssumption == Actives \subseteq [Steps -> {0, 1}]
ASSUME ProblemsAssumption ==
  Problems \subseteq {"trivial", "ordinary", "vanishing"}

Old == <<"old", 0>>
New == <<"new", 0>>
Kept == <<"kept", 0>>
Marks == {Old, New} \cup (Measures \X Steps)

VARIABLES
  problem, active,   \* what is to be computed
  mode,      \* "parallel" (pfd_compute) or "serial" in this call
  place,     \* the place the problem's token is on
  step,      \* the step it is before, in or after
  net,       \* "cancelled" once a handler has thrown
  \* In tempdir:
  input,     \* input_<id>.ssi
  terms,     \* terms_<k>_<id>.ssi: a list of unprocessed terms (todo) and a
             \* list of decomposed ones (dec); there = 0 when it does not exist
  dectemp,   \* terms_<k-1>_dectemp_<id>.ssi
  chunks,    \* terms_<k-1>_<id>_<c>.ssi, for the chunks c of step k
  partial,   \* terms_<k-1>_result_<id>_<c>.ssi
  chunkTime, \* compute_<step>_<id>_<c>.time and merge_<step>_<id>_<c>.time
  time,      \* <measure>_<step>_<id>.time
  stepTime,  \* <step>_<id>.time
  outStruct, \* the file the call reads its answer from
  \* In the output directory:
  result,    \* result_<name>.ssi
  formats,   \* the other output files that are asked for
  total      \* the time last logged as "total cpu" in resources_<name>.txt

call     == <<problem, active, mode>>
token    == <<place, step>>
stepData == <<input, terms, dectemp, chunks, partial>>
timing   == <<chunkTime, time, stepTime>>
output   == <<result, formats, total>>
vars     == <<call, token, net, stepData, timing, outStruct, output>>

NoTerms == [there |-> 0, todo |-> {}, dec |-> {}]

\* Mutation: the lists of the terms file are handed on as they are.
NotSwapped(f) == f

\* pfd_singular_hand_forward and pfd_singular_skip_step exchange the two lists:
\* what has been decomposed is what the next step is to process, and the other
\* way round.
Swapped(f) == [there |-> 1, todo |-> f.dec, dec |-> f.todo]

\* pass_on_to_compute prepares the logging of all four steps.
ZeroTimes == [m \in Measures \X Steps |-> {New}]

\* Mutation: the merging times of the chunks are not reset.
MergeTimesKept(k) == [chunkTime EXCEPT ![<<"merge", k>>] =
                        chunkTime[<<"merge", k>>] \cup {New}]

\* pfd_fork_init writes a merging time for every chunk.
FreshMergeTimes(k) == [chunkTime EXCEPT ![<<"merge", k>>] = {New}]

\* Mutation: only one of the four time files of the step is removed.
OneTimeRemoved(k) == [time EXCEPT ![<<"init", k>>] = {}]

\* log_step_component reads and removes the four time files of the step.
TimesRemoved(k) ==
  [m \in Measures \X Steps |-> IF m[2] = k THEN {} ELSE time[m]]

TimesThere(k) == \A m \in Measures : time[<<m, k>>] # {}

StepSum(k) == UNION {time[<<m, k>>] : m \in Measures}

\* Mutation: a list of terms that is there already is not written again.
FirstTermsIfMissing ==
  IF terms[0].there = 1 THEN terms[0]
  ELSE [there |-> 1, todo |-> {New}, dec |-> {}]

\* pfd_singular_prepare_input: all terms are to be processed, none has been.
FirstTerms == [there |-> 1, todo |-> {New}, dec |-> {}]

\* Mutation: one step too many.
StepFollowsLast == step <= 4

\* Mutation: one step too few.
StepFollowsTwo == step < 3

\* Each step but the last hands its terms forward.
StepFollows == step < 4

\* Mutation: the result file does not count.
NeverComputed == FALSE

\* pfd_singular_is_already_computed
AlreadyComputed == result # {}

\* The answer is written to the file the call reads.
Answer(answer) == outStruct' = answer

-----------------------------------------------------------------------------

\* What an earlier call may have left in tempdir: nothing, or any file.
LeftoverTerms == {NoTerms, [there |-> 1, todo |-> {Old}, dec |-> {Old}]}

Init ==
  /\ problem \in Problems
  /\ active \in Actives
  /\ mode \in {"parallel", "serial"}
  /\ place = "intask" /\ step = 1
  /\ net = "running"
  /\ \E leftover \in {{}, {Old}}, file \in LeftoverTerms :
       /\ leftover = {} <=> file = NoTerms
       /\ input = leftover
       /\ terms = [k \in 0 .. 4 |-> file]
       /\ dectemp = [k \in Steps |-> leftover]
       /\ chunks = [k \in Steps |-> leftover]
       /\ partial = [k \in Steps |-> leftover]
       /\ chunkTime = [m \in {"compute", "merge"} \X Steps |-> leftover]
       /\ time = [m \in Measures \X Steps |-> leftover]
       /\ stepTime = [k \in Steps |-> leftover]
       /\ outStruct = leftover
  /\ result = {} /\ formats = {} /\ total = {}

Running(m, p) == net = "running" /\ mode = m /\ place = p

Throw ==
  /\ net' = "cancelled"
  /\ UNCHANGED <<call, token, stepData, timing, outStruct, output>>

\* Transitions general_prepare and consume_non_compute, for a problem with a
\* result: nothing is computed.
AlreadyDone ==
  /\ Running("parallel", "intask")
  /\ AlreadyComputed
  /\ Answer({New})
  /\ place' = "out"
  /\ UNCHANGED <<call, step, net, stepData, timing, output>>

\* Transition general_prepare, for a problem whose numerator is 0 or whose
\* denominator is constant: the result file is written first.
PrepareTrivial ==
  /\ Running("parallel", "intask")
  /\ ~AlreadyComputed
  /\ problem = "trivial"
  /\ result' = {New}
  /\ place' = "trivial"
  /\ UNCHANGED <<call, step, net, stepData, timing, outStruct, formats, total>>

\* Transitions general_prepare and consume_non_compute, for a trivial problem.
FinishTrivial ==
  /\ Running("parallel", "trivial")
  /\ formats' = {New}
  /\ Answer({New})
  /\ place' = "out"
  /\ UNCHANGED <<call, step, net, stepData, timing, result, total>>

\* Transition general_prepare, for the other problems: pfd_prepare_input.
PrepareInput ==
  /\ Running("parallel", "intask")
  /\ ~AlreadyComputed
  /\ problem # "trivial"
  /\ input' = {New}
  /\ terms' = [terms EXCEPT ![0] = FirstTerms]
  /\ place' = "prepared"
  /\ UNCHANGED <<call, step, net, dectemp, chunks, partial, timing, outStruct,
                 output>>

\* Transition pass_on_to_compute.
PassOnToCompute ==
  /\ Running("parallel", "prepared")
  /\ time' = ZeroTimes
  /\ place' = "before" /\ step' = 1
  /\ UNCHANGED <<call, net, stepData, chunkTime, stepTime, outStruct, output>>

\* Transitions check_skip and skip_step: the terms are handed over as if they
\* had been decomposed.
SkipStep ==
  /\ Running("parallel", "before")
  /\ active[step] = 0
  /\ LET from == terms[step - 1] IN
       IF from.todo # {} /\ from.dec = {}
         THEN /\ terms' = [terms EXCEPT ![step] = Swapped(from),
                                        ![step - 1] = NoTerms]
              /\ place' = "after"
              /\ UNCHANGED <<call, step, net, input, dectemp, chunks, partial,
                             timing, outStruct, output>>
         ELSE Throw

\* Transitions check_skip and split_init: pfd_fork_init.
SplitInit ==
  /\ Running("parallel", "before")
  /\ active[step] = 1
  /\ LET from == terms[step - 1] IN
       IF from.todo # {} /\ time[<<"init", step>>] # {}
         THEN /\ chunks' = [chunks EXCEPT ![step] = from.todo]
              /\ dectemp' = [dectemp EXCEPT ![step] = {New}]
              /\ terms' = [terms EXCEPT ![step - 1] = NoTerms]
              /\ time' = [time EXCEPT ![<<"init", step>>] =
                                          @ \cup {<<"init", step>>}]
              /\ chunkTime' = FreshMergeTimes(step)
              /\ place' = "split"
              /\ UNCHANGED <<call, step, net, input, partial, stepTime,
                             outStruct, output>>
         ELSE Throw

\* The fork_compute and merge_decomposed transitions of the step, down to one
\* token: see ForkComputeStep.  The sum of a vanishing problem is an error in
\* the last merge, or an empty list when there is only one chunk.
Reduce ==
  /\ Running("parallel", "split")
  /\ IF input # {} /\ chunks[step] # {} /\ chunkTime[<<"merge", step>>] # {}
       THEN /\ partial' = [partial EXCEPT ![step] = chunks[step] \cup input]
            /\ chunks' = [chunks EXCEPT ![step] = {}]
            /\ chunkTime' =
                 [chunkTime EXCEPT ![<<"compute", step>>] =
                                       {New, <<"compute", step>>},
                                   ![<<"merge", step>>] =
                                       @ \cup {<<"merge", step>>}]
            /\ place' = "reduced"
            /\ UNCHANGED <<call, step, net, input, terms, dectemp, time,
                           stepTime, outStruct, output>>
       ELSE Throw

\* The merge of a vanishing problem's last two results raises an error.
ReduceToNothing ==
  /\ Running("parallel", "split")
  /\ problem = "vanishing"
  /\ Throw

\* Transition finish_step: pfd_fork_finish adds the times of the chunks to
\* those of the step, and the result to the list set aside.
FinishStep ==
  /\ Running("parallel", "reduced")
  /\ LET c == chunkTime[<<"compute", step>>]
         m == chunkTime[<<"merge", step>>]
     IN  IF /\ {} \notin {c, m, dectemp[step], partial[step]}
            /\ \A x \in {"compute", "merge", "finish"} : time[<<x, step>>] # {}
         THEN /\ time' = [time EXCEPT
                            ![<<"compute", step>>] = @ \cup c,
                            ![<<"merge", step>>] = @ \cup m,
                            ![<<"finish", step>>] = @ \cup {<<"finish", step>>}]
              /\ chunkTime' = [chunkTime EXCEPT ![<<"compute", step>>] = {},
                                                ![<<"merge", step>>] = {}]
              /\ terms' = [terms EXCEPT ![step] =
                   [there |-> 1, todo |-> {},
                    dec |-> IF problem = "vanishing" THEN {}
                            ELSE dectemp[step] \cup partial[step]]]
              /\ partial' = [partial EXCEPT ![step] = {}]
              /\ dectemp' = [dectemp EXCEPT ![step] = {}]
              /\ place' = "after"
              /\ UNCHANGED <<call, step, net, input, chunks, stepTime,
                             outStruct, output>>
         ELSE Throw

\* Transitions hand_nullstell_to_short, hand_short_to_algebraic and
\* hand_algebraic_to_numerator: pfd_hand_forward.
HandForward ==
  /\ Running("parallel", "after")
  /\ StepFollows
  /\ LET to == terms[step] IN
       IF to.todo = {} /\ to.dec # {} /\ TimesThere(step) /\ input # {}
         THEN /\ terms' = [terms EXCEPT ![step] = Swapped(to)]
              /\ time' = TimesRemoved(step)
              /\ stepTime' = [stepTime EXCEPT ![step] = StepSum(step)]
              /\ place' = "before" /\ step' = step + 1
              /\ UNCHANGED <<call, net, input, dectemp, chunks, partial,
                             chunkTime, outStruct, output>>
         ELSE Throw

\* Transition write_result: pfd_singular_write_result writes the result file
\* first.
WriteResult ==
  /\ Running("parallel", "after")
  /\ step = 4
  /\ IF terms[4].there = 1 /\ terms[4].todo = {} /\ input # {}
       THEN /\ result' = terms[4].dec \cup input
            /\ place' = "writing"
            /\ UNCHANGED <<call, step, net, stepData, timing, outStruct,
                           formats, total>>
       ELSE Throw

\* Transition write_result: the other formats, the answer and the times, then
\* the files in tempdir go.
FinishWriting ==
  /\ Running("parallel", "writing")
  /\ formats' = {New}
  /\ Answer({New})
  /\ IF TimesThere(4) /\ \A k \in 1 .. 3 : stepTime[k] # {}
       THEN /\ total' = UNION ({stepTime[k] : k \in 1 .. 3} \cup {StepSum(4)})
            /\ time' = TimesRemoved(4)
            /\ stepTime' = [k \in Steps |-> {}]
            /\ terms' = [terms EXCEPT ![4] = NoTerms]
            /\ input' = {}
            /\ place' = "out"
            /\ UNCHANGED net
       ELSE net' = "cancelled" /\ UNCHANGED <<place, total, time, stepTime,
                                              terms, input>>
  /\ UNCHANGED <<call, step, dectemp, chunks, partial, chunkTime, result>>

\* pfd_serial_compute_pfd with a result file: pfdSingleEntry returns at once.
SerialAlreadyDone ==
  /\ Running("serial", "intask")
  /\ AlreadyComputed
  /\ Answer({New})
  /\ place' = "out"
  /\ UNCHANGED <<call, step, net, stepData, timing, output>>

\* pfd_serial_compute_pfd: pfdSingleEntry computes the problem in memory and
\* writes the result file first.
SerialCompute ==
  /\ Running("serial", "intask")
  /\ ~AlreadyComputed
  /\ result' = {New}
  /\ place' = "serial_writing"
  /\ UNCHANGED <<call, step, net, stepData, timing, outStruct, formats, total>>

\* pfd_serial_compute_pfd: the other formats and the answer.
SerialFinish ==
  /\ Running("serial", "serial_writing")
  /\ formats' = {New}
  /\ Answer({New})
  /\ place' = "out"
  /\ UNCHANGED <<call, step, net, stepData, timing, result, total>>

Aged(content) == IF content = {} THEN {} ELSE {Old}

AgedTerms(f) == [there |-> f.there, todo |-> Aged(f.todo), dec |-> Aged(f.dec)]

\* The call ends, or is cut off at any point, and the user starts another one
\* with the same directories.
NextCall ==
  /\ mode' \in {"parallel", "serial"}
  /\ place' = "intask" /\ step' = 1
  /\ net' = "running"
  /\ input' = Aged(input)
  /\ terms' = [k \in 0 .. 4 |-> AgedTerms(terms[k])]
  /\ dectemp' = [k \in Steps |-> Aged(dectemp[k])]
  /\ chunks' = [k \in Steps |-> Aged(chunks[k])]
  /\ partial' = [k \in Steps |-> Aged(partial[k])]
  /\ chunkTime' = [m \in {"compute", "merge"} \X Steps |-> Aged(chunkTime[m])]
  /\ time' = [m \in Measures \X Steps |-> Aged(time[m])]
  /\ stepTime' = [k \in Steps |-> Aged(stepTime[k])]
  /\ outStruct' = Aged(outStruct)
  /\ result' = IF result = {} THEN {} ELSE result \cup {Kept}
  /\ UNCHANGED <<problem, active, formats, total>>

Handlers ==
  \/ AlreadyDone
  \/ PrepareTrivial
  \/ FinishTrivial
  \/ PrepareInput
  \/ PassOnToCompute
  \/ SkipStep
  \/ SplitInit
  \/ Reduce
  \/ ReduceToNothing
  \/ FinishStep
  \/ HandForward
  \/ WriteResult
  \/ FinishWriting
  \/ SerialAlreadyDone
  \/ SerialCompute
  \/ SerialFinish

Next == Handlers \/ NextCall

\* The engine fires an enabled transition sooner or later; nobody has to make
\* another call.
Fairness == WF_vars(Handlers)

Spec == Init /\ [][Next]_vars /\ Fairness

-----------------------------------------------------------------------------

TermsFile == [there : {0, 1}, todo : SUBSET {Old, New}, dec : SUBSET {Old, New}]

\* Every file holds marks of its kind.
TypeOK ==
  /\ problem \in Problems /\ active \in Actives
  /\ mode \in {"parallel", "serial"}
  /\ place \in {"intask", "trivial", "prepared", "before", "split", "reduced",
                "after", "writing", "serial_writing", "out"}
  /\ step \in Steps
  /\ net \in {"running", "cancelled"}
  /\ terms \in [0 .. 4 -> TermsFile]
  /\ {input, outStruct, formats} \subseteq SUBSET {Old, New}
  /\ result \subseteq {Old, New, Kept}
  /\ {dectemp, chunks, partial} \subseteq [Steps -> SUBSET {Old, New}]
  /\ chunkTime \in [{"compute", "merge"} \X Steps -> SUBSET Marks]
  /\ time \in [Measures \X Steps -> SUBSET Marks]
  /\ stepTime \in [Steps -> SUBSET Marks]
  /\ total \subseteq Marks

\* Nothing an earlier call has left in tempdir gets into the result or into the
\* answer of this one, wherever the earlier call was cut off.
NothingOldInResult ==
  /\ Old \notin result
  /\ place = "out" => outStruct = {New}

\* The time logged for the problem counts each part of each active step once:
\* nothing of an earlier call, nothing of a step that was skipped.
TotalCountsEachPart ==
  total # {} =>
    total = {New} \cup (Measures \X {k \in Steps : active[k] = 1})

\* The only thing that makes a handler throw is a problem that vanishes: every
\* file is there and has its terms in the right list, whatever steps are active
\* and whatever an earlier call has left.
ThrowsOnlyWhenVanishing ==
  net = "cancelled" => problem = "vanishing" /\ \E k \in Steps : active[k] = 1

\* A problem that has been computed leaves nothing of this call in tempdir but
\* its answer.
LeavesNothingNew ==
  place = "out" =>
    /\ New \notin input
    /\ \A k \in 0 .. 4 : New \notin terms[k].todo \cup terms[k].dec
    /\ \A k \in Steps :
         New \notin dectemp[k] \cup chunks[k] \cup partial[k] \cup stepTime[k]
    /\ \A m \in DOMAIN chunkTime : New \notin chunkTime[m]
    /\ \A m \in DOMAIN time : New \notin time[m]

\* A result is final: no later call computes it again or writes it over, "to
\* allow for restartability" (Readme2.md).
ResultIsFinal == [][(Kept \in result) => result' = result]_vars

\* A call that is not cut off gives its answer or an error.
AnswersUnlessCutOff ==
  (<>[][~NextCall]_vars) => <>[](place = "out" \/ net = "cancelled")

\* Readme2.md: after a run "the output directory contains for each individual
\* computation output files in the requested formats".
OutputInAllFormats == place = "out" => result # {} /\ formats # {}
=============================================================================
