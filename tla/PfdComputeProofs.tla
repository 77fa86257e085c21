-------------------------- MODULE PfdComputeProofs --------------------------
(***************************************************************************)
(* Theorems about PfdCompute, for every set of problems and every setting  *)
(* of the active steps, any number of calls and any cut between them.      *)
(*                                                                         *)
(* The inductive invariant says for every kind of file which ones hold     *)
(* something of this call, and what, wherever the token of the problem is. *)
(* All the others hold what an earlier call has left, if they exist.       *)
(***************************************************************************)
EXTENDS PfdCompute, TLAPS

\* The problem is under way in the net: pfd_prepare_input has begun it and
\* write_result has not cleaned up yet.
UnderWay == place \in {"prepared", "before", "split", "reduced", "after", "writing"}

\* pass_on_to_compute has been fired.
InSteps == UnderWay /\ place # "prepared"

Vanishes(k) == problem = "vanishing" /\ active[k] = 1

\* The time that a step that is done adds to the log.
StepTimes(k) == {New} \cup (IF active[k] = 1 THEN Measures \X {k} ELSE {})

\* What a time file of the current step holds.
TimeSoFar(m) ==
  IF \/ place \in {"split", "reduced"} /\ m = "init"
     \/ place \in {"after", "writing"} /\ active[step] = 1
    THEN {New, <<m, step>>} ELSE {New}

\* Where an answer or an error can come from.
PlacesMatch ==
  /\ place = "writing" => step = 4
  /\ place \in {"split", "reduced"} => active[step] = 1
  /\ place = "out" => outStruct = {New}

\* The result file has nothing in it of another call's temporary files; while
\* one is there that a later call has found, that call does nothing but answer.
ResultMatches ==
  /\ Old \notin result
  /\ Kept \in result => place \in {"intask", "out"}
  /\ place = "intask" /\ result # {} => Kept \in result

InputMatches == IF UnderWay THEN input = {New} ELSE New \notin input

\* The terms are in one terms file at a time.
TermsMatch ==
  /\ \A k \in 0 .. 4 :
       \/ New \notin terms[k].todo \cup terms[k].dec
       \/ place = "prepared" /\ k = 0
       \/ place = "before" /\ k = step - 1
       \/ place \in {"after", "writing"} /\ k = step
  /\ place = "prepared" => terms[0] = FirstTerms
  /\ place = "before" => terms[step - 1] = FirstTerms
  /\ place \in {"after", "writing"} =>
       /\ terms[step].there = 1
       /\ terms[step].todo = {}
       /\ \/ terms[step].dec = {New}
          \/ terms[step].dec = {} /\ Vanishes(step)

\* The lists of the step in between.
ListsMatch ==
  \A k \in Steps :
    /\ IF k = step /\ place \in {"split", "reduced"}
         THEN dectemp[k] = {New} ELSE New \notin dectemp[k]
    /\ IF k = step /\ place = "split"
         THEN chunks[k] = {New} ELSE New \notin chunks[k]
    /\ IF k = step /\ place = "reduced"
         THEN partial[k] = {New} ELSE New \notin partial[k]

ChunkTimesMatch ==
  \A k \in Steps :
    /\ IF k = step /\ place = "reduced"
         THEN chunkTime[<<"compute", k>>] = {New, <<"compute", k>>}
         ELSE New \notin chunkTime[<<"compute", k>>]
    /\ IF k = step /\ place \in {"split", "reduced"}
         THEN chunkTime[<<"merge", k>>] =
                IF place = "split" THEN {New} ELSE {New, <<"merge", k>>}
         ELSE New \notin chunkTime[<<"merge", k>>]

TimesMatch ==
  \A m \in Measures, k \in Steps :
    IF InSteps
      THEN time[<<m, k>>] =
             IF k < step THEN {} ELSE IF k = step THEN TimeSoFar(m) ELSE {New}
      ELSE New \notin time[<<m, k>>]

StepTimesMatch ==
  \A k \in Steps :
    IF InSteps /\ k < step THEN stepTime[k] = StepTimes(k)
                           ELSE New \notin stepTime[k]

\* The inductive invariant that carries the proofs.
IInv ==
  /\ TypeOK
  /\ PlacesMatch
  /\ ResultMatches
  /\ InputMatches
  /\ TermsMatch
  /\ ListsMatch
  /\ ChunkTimesMatch
  /\ TimesMatch
  /\ StepTimesMatch
  /\ TotalCountsEachPart
  /\ ThrowsOnlyWhenVanishing

-----------------------------------------------------------------------------
(***************************************************************************)
(* Type correctness.                                                       *)
(***************************************************************************)

\* The marks are told apart.
LEMMA MarksDiffer ==
  /\ Old # New /\ Kept # New /\ Kept # Old
  /\ New \notin Measures \X Steps /\ Old \notin Measures \X Steps
  /\ Old \in Marks /\ New \in Marks /\ Measures \X Steps \subseteq Marks
BY DEF Old, New, Kept, Marks, Measures, Steps

\* The setting of a step is 0 or 1.
LEMMA ActiveIsBit ==
  ASSUME TypeOK
  PROVE  \A k \in Steps : active[k] \in {0, 1}
BY ActivesAssumption DEF TypeOK

\* A file that is there when a call ends is an old one for the next.
LEMMA AgedIsOld ==
  ASSUME NEW c
  PROVE  Aged(c) \subseteq {Old} /\ New \notin Aged(c)
BY MarksDiffer DEF Aged

\* The time files of a step hold nothing but marks.
LEMMA StepSumType ==
  ASSUME TypeOK, NEW k \in Steps
  PROVE  StepSum(k) \in SUBSET Marks
<1>1. \A m \in Measures : time[<<m, k>>] \in SUBSET Marks
  BY DEF TypeOK
<1>2. ASSUME NEW x \in StepSum(k)
      PROVE  x \in Marks
  <2>1. PICK m \in Measures : x \in time[<<m, k>>]
    BY <1>2 DEF StepSum
  <2>2. QED
    BY <1>1, <2>1
<1>3. QED
  BY <1>2

\* Every step keeps every file in its type.
LEMMA TypeStep ==
  ASSUME TypeOK, [Next]_vars
  PROVE  TypeOK'
<1>0. /\ Old \in Marks /\ New \in Marks
      /\ \A m \in Measures, k \in Steps : <<m, k>> \in Marks
  BY MarksDiffer
<1>1. CASE AlreadyDone \/ FinishTrivial \/ SerialAlreadyDone \/ SerialFinish
  BY <1>1 DEF AlreadyDone, FinishTrivial, SerialAlreadyDone, SerialFinish,
              Answer, TypeOK, call, stepData, timing, output
<1>2. CASE PrepareTrivial \/ SerialCompute
  BY <1>2 DEF PrepareTrivial, SerialCompute, TypeOK, call, stepData, timing
<1>3. CASE PrepareInput
  <2>1. FirstTerms \in TermsFile
    BY DEF FirstTerms, TermsFile
  <2>2. QED
    BY <1>3, <2>1 DEF PrepareInput, TypeOK, call, timing, output
<1>4. CASE PassOnToCompute
  <2>1. ZeroTimes \in [Measures \X Steps -> SUBSET Marks]
    BY <1>0 DEF ZeroTimes
  <2>2. QED
    BY <1>4, <2>1 DEF PassOnToCompute, TypeOK, call, stepData, output, Steps
<1>5. CASE Throw
  BY <1>5 DEF Throw, TypeOK, call, token, stepData, timing, output
<1>6. CASE SkipStep /\ ~Throw
  <2>1. /\ terms' = [terms EXCEPT ![step] = Swapped(terms[step - 1]),
                                  ![step - 1] = NoTerms]
        /\ place' = "after"
        /\ UNCHANGED <<call, step, net, input, dectemp, chunks, partial, timing,
                       outStruct, output>>
    BY <1>6 DEF SkipStep
  <2>2. step - 1 \in 0 .. 4 /\ step \in 0 .. 4
    BY DEF TypeOK, Steps
  <2>3. Swapped(terms[step - 1]) \in TermsFile /\ NoTerms \in TermsFile
    BY <2>2 DEF TypeOK, Swapped, NoTerms, TermsFile
  <2>4. terms' \in [0 .. 4 -> TermsFile]
    BY <2>1, <2>2, <2>3 DEF TypeOK
  <2>5. QED
    BY <2>1, <2>4 DEF TypeOK, call, timing, output
<1>7. CASE SplitInit /\ ~Throw
  <2>1. /\ chunks' = [chunks EXCEPT ![step] = terms[step - 1].todo]
        /\ dectemp' = [dectemp EXCEPT ![step] = {New}]
        /\ terms' = [terms EXCEPT ![step - 1] = NoTerms]
        /\ time' = [time EXCEPT ![<<"init", step>>] = @ \cup {<<"init", step>>}]
        /\ chunkTime' = FreshMergeTimes(step)
        /\ place' = "split"
        /\ UNCHANGED <<call, step, net, input, partial, stepTime, outStruct,
                       output>>
    BY <1>7 DEF SplitInit
  <2>2. step \in Steps /\ step - 1 \in 0 .. 4
    BY DEF TypeOK, Steps
  <2>3. terms[step - 1].todo \subseteq {Old, New} /\ NoTerms \in TermsFile
    BY <2>2 DEF TypeOK, NoTerms, TermsFile
  <2>4. /\ chunks' \in [Steps -> SUBSET {Old, New}]
        /\ dectemp' \in [Steps -> SUBSET {Old, New}]
        /\ terms' \in [0 .. 4 -> TermsFile]
    BY <2>1, <2>2, <2>3 DEF TypeOK
  <2>5. <<"init", step>> \in Measures \X Steps /\ <<"init", step>> \in Marks
    BY <1>0, <2>2 DEF Measures
  <2>6. time' \in [Measures \X Steps -> SUBSET Marks]
    BY <2>1, <2>5 DEF TypeOK
  <2>7. chunkTime' \in [{"compute", "merge"} \X Steps -> SUBSET Marks]
    BY <1>0, <2>1, <2>2 DEF TypeOK, FreshMergeTimes
  <2>8. QED
    BY <2>1, <2>4, <2>6, <2>7 DEF TypeOK, call, output
<1>8. CASE Reduce /\ ~Throw
  <2>1. /\ partial' = [partial EXCEPT ![step] = chunks[step] \cup input]
        /\ chunks' = [chunks EXCEPT ![step] = {}]
        /\ chunkTime' =
             [chunkTime EXCEPT ![<<"compute", step>>] = {New, <<"compute", step>>},
                               ![<<"merge", step>>] = @ \cup {<<"merge", step>>}]
        /\ place' = "reduced"
        /\ UNCHANGED <<call, step, net, input, terms, dectemp, time, stepTime,
                       outStruct, output>>
    BY <1>8 DEF Reduce
  <2>2. /\ step \in Steps
        /\ <<"compute", step>> \in Marks /\ <<"merge", step>> \in Marks
    BY <1>0 DEF TypeOK, Measures
  <2>3. /\ partial' \in [Steps -> SUBSET {Old, New}]
        /\ chunks' \in [Steps -> SUBSET {Old, New}]
    BY <2>1, <2>2 DEF TypeOK
  <2>4. chunkTime' \in [{"compute", "merge"} \X Steps -> SUBSET Marks]
    BY <1>0, <2>1, <2>2 DEF TypeOK
  <2>5. QED
    BY <2>1, <2>3, <2>4 DEF TypeOK, call, output
<1>9. CASE FinishStep /\ ~Throw
  <2> DEFINE c == chunkTime[<<"compute", step>>]
             m == chunkTime[<<"merge", step>>]
             dec == IF problem = "vanishing" THEN {}
                    ELSE dectemp[step] \cup partial[step]
  <2>1. /\ time' = [time EXCEPT
                      ![<<"compute", step>>] = @ \cup c,
                      ![<<"merge", step>>] = @ \cup m,
                      ![<<"finish", step>>] = @ \cup {<<"finish", step>>}]
        /\ chunkTime' = [chunkTime EXCEPT ![<<"compute", step>>] = {},
                                          ![<<"merge", step>>] = {}]
        /\ terms' = [terms EXCEPT ![step] =
                       [there |-> 1, todo |-> {}, dec |-> dec]]
        /\ partial' = [partial EXCEPT ![step] = {}]
        /\ dectemp' = [dectemp EXCEPT ![step] = {}]
        /\ place' = "after"
        /\ UNCHANGED <<call, step, net, input, chunks, stepTime, outStruct,
                       output>>
    BY <1>9 DEF FinishStep
  <2>a. step \in Steps /\ step \in 0 .. 4
    BY DEF TypeOK, Steps
  <2>2. /\ step \in Steps /\ step \in 0 .. 4
        /\ <<"compute", step>> \in Marks /\ <<"merge", step>> \in Marks
        /\ <<"finish", step>> \in Marks
    BY <1>0, <2>a DEF Measures
  <2>3. c \in SUBSET Marks /\ m \in SUBSET Marks
    BY <2>2 DEF TypeOK
  <2>4. dec \in SUBSET {Old, New}
    BY <2>2 DEF TypeOK
  <2> HIDE DEF c, m, dec
  <2>5. [there |-> 1, todo |-> {}, dec |-> dec] \in TermsFile
    BY <2>4 DEF TermsFile
  <2>6. /\ partial' \in [Steps -> SUBSET {Old, New}]
        /\ dectemp' \in [Steps -> SUBSET {Old, New}]
        /\ terms' \in [0 .. 4 -> TermsFile]
    BY <2>1, <2>2, <2>5 DEF TypeOK
  <2>7. chunkTime' \in [{"compute", "merge"} \X Steps -> SUBSET Marks]
    BY <2>1, <2>2 DEF TypeOK
  <2>8. time' \in [Measures \X Steps -> SUBSET Marks]
    BY <2>1, <2>2, <2>3 DEF TypeOK, Measures
  <2>9. QED
    BY <2>1, <2>6, <2>7, <2>8 DEF TypeOK, call, output
<1>10. CASE HandForward /\ ~Throw
  <2>1. /\ terms' = [terms EXCEPT ![step] = Swapped(terms[step])]
        /\ time' = TimesRemoved(step)
        /\ stepTime' = [stepTime EXCEPT ![step] = StepSum(step)]
        /\ place' = "before" /\ step' = step + 1
        /\ UNCHANGED <<call, net, input, dectemp, chunks, partial, chunkTime,
                       outStruct, output>>
    BY <1>10 DEF HandForward
  <2>2. /\ step \in Steps /\ step \in 0 .. 4 /\ step' \in Steps
    BY <1>10, <2>1 DEF TypeOK, Steps, HandForward, StepFollows
  <2>3. Swapped(terms[step]) \in TermsFile
    BY <2>2 DEF TypeOK, Swapped, TermsFile
  <2>4. terms' \in [0 .. 4 -> TermsFile]
    BY <2>1, <2>2, <2>3 DEF TypeOK
  <2>5. time' \in [Measures \X Steps -> SUBSET Marks]
    BY <2>1 DEF TypeOK, TimesRemoved
  <2>6. StepSum(step) \in SUBSET Marks
    BY <2>2, StepSumType
  <2>7. stepTime' \in [Steps -> SUBSET Marks]
    BY <2>1, <2>2, <2>6 DEF TypeOK
  <2>8. QED
    BY <2>1, <2>2, <2>4, <2>5, <2>7 DEF TypeOK, call, output
<1>11. CASE WriteResult /\ ~Throw
  <2>1. /\ result' = terms[4].dec \cup input
        /\ place' = "writing"
        /\ UNCHANGED <<call, step, net, stepData, timing, outStruct, formats,
                       total>>
    BY <1>11 DEF WriteResult
  <2>2. result' \subseteq {Old, New, Kept}
    BY <2>1 DEF TypeOK, TermsFile
  <2>3. QED
    BY <2>1, <2>2 DEF TypeOK, call, stepData, timing
<1>12. CASE FinishWriting
  <2> DEFINE ok == TimesThere(4) /\ \A k \in 1 .. 3 : stepTime[k] # {}
  <2>1. /\ formats' = {New} /\ outStruct' = {New}
        /\ UNCHANGED <<call, step, dectemp, chunks, partial, chunkTime, result>>
    BY <1>12 DEF FinishWriting, Answer
  <2>2. CASE ok
    <3>1. /\ total' = UNION ({stepTime[k] : k \in 1 .. 3} \cup {StepSum(4)})
          /\ time' = TimesRemoved(4)
          /\ stepTime' = [k \in Steps |-> {}]
          /\ terms' = [terms EXCEPT ![4] = NoTerms]
          /\ input' = {} /\ place' = "out" /\ UNCHANGED net
      BY <1>12, <2>2 DEF FinishWriting
    <3>2. total' \subseteq Marks
      <4>1. StepSum(4) \in SUBSET Marks
        BY StepSumType DEF Steps
      <4>2. \A k \in 1 .. 3 : stepTime[k] \in SUBSET Marks
        BY DEF TypeOK, Steps
      <4>3. QED
        BY <3>1, <4>1, <4>2
    <3>3. /\ time' \in [Measures \X Steps -> SUBSET Marks]
          /\ stepTime' \in [Steps -> SUBSET Marks]
      BY <3>1 DEF TypeOK, TimesRemoved
    <3>4. terms' \in [0 .. 4 -> TermsFile]
      <4>1. NoTerms \in TermsFile
        BY DEF NoTerms, TermsFile
      <4>2. QED
        BY <3>1, <4>1 DEF TypeOK
    <3>5. QED
      BY <2>1, <3>1, <3>2, <3>3, <3>4 DEF TypeOK, call
  <2>3. CASE ~ok
    <3>1. net' = "cancelled" /\ UNCHANGED <<place, total, time, stepTime, terms,
                                           input>>
      BY <1>12, <2>3 DEF FinishWriting
    <3>2. QED
      BY <2>1, <3>1 DEF TypeOK, call
  <2>4. QED
    BY <2>2, <2>3
<1>13. CASE NextCall
  <2>1. \A c : Aged(c) \in SUBSET {Old, New} /\ Aged(c) \in SUBSET Marks
    BY <1>0, AgedIsOld
  <2>2. \A k \in 0 .. 4 : AgedTerms(terms[k]) \in TermsFile
    BY <2>1 DEF AgedTerms, TypeOK, TermsFile
  <2>3. terms' \in [0 .. 4 -> TermsFile]
    BY <1>13, <2>2 DEF NextCall
  <2>4. /\ {dectemp', chunks', partial'} \subseteq [Steps -> SUBSET {Old, New}]
        /\ {input', outStruct'} \subseteq SUBSET {Old, New}
    BY <1>13, <2>1 DEF NextCall
  <2>5. /\ chunkTime' \in [{"compute", "merge"} \X Steps -> SUBSET Marks]
        /\ time' \in [Measures \X Steps -> SUBSET Marks]
        /\ stepTime' \in [Steps -> SUBSET Marks]
    BY <1>13, <2>1 DEF NextCall
  <2>6. result' \subseteq {Old, New, Kept}
    BY <1>13 DEF NextCall, TypeOK
  <2>7. /\ mode' \in {"parallel", "serial"} /\ place' = "intask"
        /\ step' = 1 /\ net' = "running"
        /\ UNCHANGED <<problem, active, formats, total>>
    BY <1>13 DEF NextCall
  <2>8. QED
    BY <2>3, <2>4, <2>5, <2>6, <2>7 DEF TypeOK, Steps
<1>14. CASE UNCHANGED vars
  BY <1>14 DEF vars, TypeOK, call, token, stepData, timing, output
<1>15. QED
  BY <1>1, <1>2, <1>3, <1>4, <1>5, <1>6, <1>7, <1>8, <1>9, <1>10, <1>11, <1>12,
     <1>13, <1>14
     DEF Next, Handlers, ReduceToNothing

\* What an earlier call has left before the first one is of its type.
LEMMA InitType == Init => TypeOK
<1> SUFFICES ASSUME Init PROVE TypeOK
  OBVIOUS
<1>1. PICK leftover \in {{}, {Old}}, file \in LeftoverTerms :
        /\ input = leftover
        /\ terms = [k \in 0 .. 4 |-> file]
        /\ dectemp = [k \in Steps |-> leftover]
        /\ chunks = [k \in Steps |-> leftover]
        /\ partial = [k \in Steps |-> leftover]
        /\ chunkTime = [m \in {"compute", "merge"} \X Steps |-> leftover]
        /\ time = [m \in Measures \X Steps |-> leftover]
        /\ stepTime = [k \in Steps |-> leftover]
        /\ outStruct = leftover
  BY DEF Init
<1>2. /\ leftover \in SUBSET {Old, New} /\ leftover \in SUBSET Marks
      /\ file \in TermsFile
  BY MarksDiffer DEF LeftoverTerms, NoTerms, TermsFile
<1>3. /\ problem \in Problems /\ active \in Actives
      /\ mode \in {"parallel", "serial"} /\ place = "intask" /\ step = 1
      /\ net = "running" /\ result = {} /\ formats = {} /\ total = {}
  BY DEF Init
<1>4. QED
  BY <1>1, <1>2, <1>3 DEF TypeOK, Steps

-----------------------------------------------------------------------------
(***************************************************************************)
(* The inductive invariant.  One lemma per action of the net, and one for  *)
(* the actions that touch nothing in tempdir.                              *)
(***************************************************************************)

LEMMA InitIInv == Init => IInv
<1> SUFFICES ASSUME Init PROVE IInv
  OBVIOUS
<1>1. PICK leftover \in {{}, {Old}}, file \in LeftoverTerms :
        /\ input = leftover
        /\ terms = [k \in 0 .. 4 |-> file]
        /\ dectemp = [k \in Steps |-> leftover]
        /\ chunks = [k \in Steps |-> leftover]
        /\ partial = [k \in Steps |-> leftover]
        /\ chunkTime = [m \in {"compute", "merge"} \X Steps |-> leftover]
        /\ time = [m \in Measures \X Steps |-> leftover]
        /\ stepTime = [k \in Steps |-> leftover]
        /\ outStruct = leftover
  BY DEF Init
<1>2. New \notin leftover /\ New \notin file.todo \cup file.dec
  BY MarksDiffer DEF LeftoverTerms, NoTerms
<1>3. /\ place = "intask" /\ net = "running" /\ result = {} /\ total = {}
      /\ ~UnderWay /\ ~InSteps
  BY DEF Init, UnderWay, InSteps
<1>4. PlacesMatch /\ ResultMatches /\ InputMatches
  BY <1>1, <1>2, <1>3 DEF PlacesMatch, ResultMatches, InputMatches
<1>5. TermsMatch
  BY <1>1, <1>2, <1>3 DEF TermsMatch
<1>6. ListsMatch /\ ChunkTimesMatch
  BY <1>1, <1>2, <1>3 DEF ListsMatch, ChunkTimesMatch
<1>7. TimesMatch /\ StepTimesMatch
  BY <1>1, <1>2, <1>3 DEF TimesMatch, StepTimesMatch
<1>8. TotalCountsEachPart /\ ThrowsOnlyWhenVanishing
  BY <1>3 DEF TotalCountsEachPart, ThrowsOnlyWhenVanishing
<1>9. QED
  BY <1>4, <1>5, <1>6, <1>7, <1>8, InitType DEF IInv

\* The actions for a problem with a result, a trivial one and one computed by
\* pfd_serial_compute_pfd.
LEMMA OutsideTheNetIInv ==
  ASSUME IInv, TypeOK',
         \/ AlreadyDone \/ PrepareTrivial \/ FinishTrivial
         \/ SerialAlreadyDone \/ SerialCompute \/ SerialFinish
  PROVE  IInv'
<1>1. /\ UNCHANGED <<problem, active, step, net, total>>
      /\ UNCHANGED <<input, terms, dectemp, chunks, partial>>
      /\ UNCHANGED <<chunkTime, time, stepTime>>
      /\ place \in {"intask", "trivial", "serial_writing"}
      /\ place' \in {"trivial", "serial_writing", "out"}
  BY DEF AlreadyDone, PrepareTrivial, FinishTrivial, SerialAlreadyDone,
         SerialCompute, SerialFinish, Running, call, stepData, timing, output
<1>2. ~UnderWay /\ ~UnderWay' /\ ~InSteps /\ ~InSteps'
  BY <1>1 DEF UnderWay, InSteps
<1>3. PlacesMatch'
  <2>1. place' = "out" => outStruct' = {New}
    BY DEF AlreadyDone, PrepareTrivial, FinishTrivial, SerialAlreadyDone,
           SerialCompute, SerialFinish, Answer
  <2>2. QED
    BY <1>1, <2>1 DEF PlacesMatch
<1>4. ResultMatches'
  <2>1. \/ result' = result /\ place' = "out"
        \/ result' = {New}
    BY DEF AlreadyDone, PrepareTrivial, FinishTrivial, SerialAlreadyDone,
           SerialCompute, SerialFinish, output
  <2>2. QED
    BY <1>1, <2>1, MarksDiffer DEF IInv, ResultMatches
<1>5. InputMatches' /\ TermsMatch' /\ ListsMatch'
  BY <1>1, <1>2 DEF IInv, InputMatches, TermsMatch, ListsMatch
<1>6. ChunkTimesMatch' /\ TimesMatch' /\ StepTimesMatch'
  BY <1>1, <1>2 DEF IInv, ChunkTimesMatch, TimesMatch, StepTimesMatch
<1>7. TotalCountsEachPart' /\ ThrowsOnlyWhenVanishing'
  BY <1>1 DEF IInv, TotalCountsEachPart, ThrowsOnlyWhenVanishing
<1>8. QED
  BY <1>3, <1>4, <1>5, <1>6, <1>7 DEF IInv

\* The places of the problem and the files are as they were.
LEMMA UnchangedIInv ==
  ASSUME IInv, TypeOK', UNCHANGED <<problem, active, place, step, outStruct>>,
         UNCHANGED <<input, terms, dectemp, chunks, partial>>,
         UNCHANGED <<chunkTime, time, stepTime, result, total>>,
         ThrowsOnlyWhenVanishing'
  PROVE  IInv'
<1>1. UNCHANGED <<UnderWay, InSteps>>
  BY DEF UnderWay, InSteps
<1>2. \A k : UNCHANGED <<Vanishes(k), StepTimes(k)>>
  BY DEF Vanishes, StepTimes
<1>3. \A m : UNCHANGED TimeSoFar(m)
  BY DEF TimeSoFar
<1>4. PlacesMatch' /\ ResultMatches' /\ InputMatches' /\ TotalCountsEachPart'
  BY <1>1
     DEF IInv, PlacesMatch, ResultMatches, InputMatches, TotalCountsEachPart
<1>5. TermsMatch' /\ ListsMatch' /\ ChunkTimesMatch'
  BY <1>2 DEF IInv, TermsMatch, ListsMatch, ChunkTimesMatch
<1>6. TimesMatch' /\ StepTimesMatch'
  BY <1>1, <1>2, <1>3 DEF IInv, TimesMatch, StepTimesMatch
<1>7. QED
  BY <1>4, <1>5, <1>6 DEF IInv

\* A handler that throws because the problem vanishes.
LEMMA ThrowIInv ==
  ASSUME IInv, TypeOK', Throw, NEW k \in Steps, Vanishes(k)
  PROVE  IInv'
<1>1. ThrowsOnlyWhenVanishing'
  BY DEF Throw, Vanishes, ThrowsOnlyWhenVanishing, call
<1>2. QED
  BY <1>1, UnchangedIInv DEF Throw, call, token, stepData, timing, output

LEMMA PrepareInputIInv ==
  ASSUME IInv, TypeOK', PrepareInput
  PROVE  IInv'
<1>1. /\ UNCHANGED <<problem, active, step, net, total, result>>
      /\ UNCHANGED <<dectemp, chunks, partial, chunkTime, time, stepTime>>
      /\ place = "intask" /\ place' = "prepared"
      /\ input' = {New} /\ terms' = [terms EXCEPT ![0] = FirstTerms]
      /\ result = {}
  BY DEF PrepareInput, Running, AlreadyComputed, call, timing, output
<1>2. ~UnderWay /\ UnderWay' /\ ~InSteps /\ ~InSteps'
  BY <1>1 DEF UnderWay, InSteps
<1>3. PlacesMatch' /\ ResultMatches' /\ InputMatches'
  BY <1>1, <1>2 DEF PlacesMatch, ResultMatches, InputMatches
<1>4. TermsMatch'
  <2>1. terms'[0] = FirstTerms /\ \A k \in (0 .. 4) \ {0} : terms'[k] = terms[k]
    BY <1>1 DEF IInv, TypeOK
  <2>2. \A k \in 0 .. 4 : New \notin terms[k].todo \cup terms[k].dec
    BY <1>1 DEF IInv, TermsMatch
  <2>3. QED
    BY <1>1, <2>1, <2>2 DEF TermsMatch
<1>5. ListsMatch' /\ ChunkTimesMatch' /\ TimesMatch' /\ StepTimesMatch'
  BY <1>1, <1>2
     DEF IInv, ListsMatch, ChunkTimesMatch, TimesMatch, StepTimesMatch
<1>6. TotalCountsEachPart' /\ ThrowsOnlyWhenVanishing'
  BY <1>1 DEF IInv, TotalCountsEachPart, ThrowsOnlyWhenVanishing
<1>7. QED
  BY <1>3, <1>4, <1>5, <1>6 DEF IInv

LEMMA PassOnToComputeIInv ==
  ASSUME IInv, TypeOK', PassOnToCompute
  PROVE  IInv'
<1>1. /\ UNCHANGED <<problem, active, net, total, result>>
      /\ UNCHANGED <<input, terms, dectemp, chunks, partial>>
      /\ UNCHANGED <<chunkTime, stepTime>>
      /\ place = "prepared" /\ place' = "before" /\ step' = 1
      /\ time' = ZeroTimes
  BY DEF PassOnToCompute, Running, call, stepData, output
<1>2. UnderWay /\ UnderWay' /\ ~InSteps /\ InSteps'
  BY <1>1 DEF UnderWay, InSteps
<1>3. PlacesMatch' /\ ResultMatches' /\ InputMatches'
  BY <1>1, <1>2 DEF IInv, PlacesMatch, ResultMatches, InputMatches
<1>4. TermsMatch'
  BY <1>1 DEF IInv, TermsMatch
<1>5. ListsMatch' /\ ChunkTimesMatch'
  BY <1>1 DEF IInv, ListsMatch, ChunkTimesMatch
<1>6. TimesMatch'
  <2>1. \A m \in Measures, k \in Steps : time'[<<m, k>>] = {New}
    BY <1>1 DEF ZeroTimes
  <2>2. \A m \in Measures : TimeSoFar(m)' = {New}
    BY <1>1 DEF TimeSoFar
  <2>3. \A k \in Steps : ~(k < step')
    BY <1>1 DEF Steps
  <2>4. QED
    BY <1>2, <2>1, <2>2, <2>3 DEF TimesMatch
<1>7. StepTimesMatch'
  BY <1>1, <1>2 DEF IInv, StepTimesMatch, Steps
<1>8. TotalCountsEachPart' /\ ThrowsOnlyWhenVanishing'
  BY <1>1 DEF IInv, TotalCountsEachPart, ThrowsOnlyWhenVanishing
<1>9. QED
  BY <1>3, <1>4, <1>5, <1>6, <1>7, <1>8 DEF IInv

LEMMA SkipStepIInv ==
  ASSUME IInv, TypeOK', SkipStep
  PROVE  IInv'
<1>1. /\ place = "before" /\ active[step] = 0 /\ step \in Steps
      /\ step \in 0 .. 4 /\ step - 1 \in 0 .. 4 /\ step # step - 1
  BY DEF SkipStep, Running, IInv, TypeOK, Steps
<1>2. terms[step - 1] = FirstTerms
  BY <1>1 DEF IInv, TermsMatch
<1>3. /\ terms' = [terms EXCEPT ![step] = Swapped(FirstTerms),
                                ![step - 1] = NoTerms]
      /\ place' = "after"
      /\ UNCHANGED <<problem, active, step, net, input, dectemp, chunks, partial>>
      /\ UNCHANGED <<chunkTime, time, stepTime, result, total>>
  BY <1>2 DEF SkipStep, FirstTerms, call, timing, output
<1>4. UnderWay /\ UnderWay' /\ InSteps /\ InSteps'
  BY <1>1, <1>3 DEF UnderWay, InSteps
<1>5. PlacesMatch' /\ ResultMatches' /\ InputMatches'
  BY <1>1, <1>3, <1>4 DEF IInv, PlacesMatch, ResultMatches, InputMatches
<1>6. TermsMatch'
  <2>1. /\ terms'[step] = Swapped(FirstTerms) /\ terms'[step - 1] = NoTerms
        /\ \A k \in (0 .. 4) \ {step, step - 1} : terms'[k] = terms[k]
    BY <1>1, <1>3 DEF IInv, TypeOK
  <2>2. /\ terms'[step].there = 1 /\ terms'[step].todo = {}
        /\ terms'[step].dec = {New}
        /\ New \notin terms'[step - 1].todo \cup terms'[step - 1].dec
    BY <2>1 DEF Swapped, FirstTerms, NoTerms
  <2>3. \A k \in (0 .. 4) \ {step, step - 1} :
          New \notin terms[k].todo \cup terms[k].dec
    BY <1>1 DEF IInv, TermsMatch
  <2>4. QED
    BY <1>1, <1>3, <2>1, <2>2, <2>3 DEF TermsMatch
<1>7. ListsMatch' /\ ChunkTimesMatch'
  BY <1>1, <1>3 DEF IInv, ListsMatch, ChunkTimesMatch
<1>8. TimesMatch'
  <2>1. \A m \in Measures : TimeSoFar(m)' = TimeSoFar(m)
    BY <1>1, <1>3 DEF TimeSoFar
  <2>2. QED
    BY <1>3, <1>4, <2>1 DEF IInv, TimesMatch
<1>9. StepTimesMatch'
  BY <1>3, <1>4 DEF IInv, StepTimesMatch, StepTimes
<1>10. TotalCountsEachPart' /\ ThrowsOnlyWhenVanishing'
  BY <1>3 DEF IInv, TotalCountsEachPart, ThrowsOnlyWhenVanishing
<1>11. QED
  BY <1>5, <1>6, <1>7, <1>8, <1>9, <1>10 DEF IInv

LEMMA SplitInitIInv ==
  ASSUME IInv, TypeOK', SplitInit
  PROVE  IInv'
<1>1. /\ place = "before" /\ active[step] = 1 /\ step \in Steps
      /\ step - 1 \in 0 .. 4 /\ "init" \in Measures
  BY DEF SplitInit, Running, IInv, TypeOK, Steps, Measures
<1>2. terms[step - 1] = FirstTerms
  BY <1>1 DEF IInv, TermsMatch
<1>3. UnderWay /\ InSteps
  BY <1>1 DEF UnderWay, InSteps
<1>4. \A m \in Measures : time[<<m, step>>] = {New}
  <2>1. ~(step < step)
    BY <1>1 DEF Steps
  <2>2. \A m \in Measures : time[<<m, step>>] = TimeSoFar(m)
    BY <1>1, <1>3, <2>1 DEF IInv, TimesMatch
  <2>3. QED
    BY <1>1, <2>2 DEF TimeSoFar
<1>5. /\ chunks' = [chunks EXCEPT ![step] = {New}]
      /\ dectemp' = [dectemp EXCEPT ![step] = {New}]
      /\ terms' = [terms EXCEPT ![step - 1] = NoTerms]
      /\ time' = [time EXCEPT ![<<"init", step>>] = @ \cup {<<"init", step>>}]
      /\ chunkTime' = [chunkTime EXCEPT ![<<"merge", step>>] = {New}]
      /\ place' = "split"
      /\ UNCHANGED <<problem, active, step, net, input, partial, stepTime>>
      /\ UNCHANGED <<result, total>>
  BY <1>1, <1>2, <1>4
     DEF SplitInit, FirstTerms, FreshMergeTimes, call, output
<1>6. UnderWay' /\ InSteps'
  BY <1>5 DEF UnderWay, InSteps
<1>7. PlacesMatch' /\ ResultMatches' /\ InputMatches'
  BY <1>1, <1>3, <1>5, <1>6 DEF IInv, PlacesMatch, ResultMatches, InputMatches
<1>8. TermsMatch'
  <2>1. /\ terms'[step - 1] = NoTerms
        /\ \A k \in (0 .. 4) \ {step - 1} : terms'[k] = terms[k]
    BY <1>1, <1>5 DEF IInv, TypeOK
  <2>2. \A k \in (0 .. 4) \ {step - 1} :
          New \notin terms[k].todo \cup terms[k].dec
    BY <1>1 DEF IInv, TermsMatch
  <2>3. New \notin NoTerms.todo \cup NoTerms.dec
    BY DEF NoTerms
  <2>4. QED
    BY <1>5, <2>1, <2>2, <2>3 DEF TermsMatch
<1>9. ListsMatch'
  <2>1. /\ chunks'[step] = {New} /\ dectemp'[step] = {New}
        /\ \A k \in Steps \ {step} :
             chunks'[k] = chunks[k] /\ dectemp'[k] = dectemp[k]
    BY <1>1, <1>5 DEF IInv, TypeOK
  <2>2. QED
    BY <1>1, <1>5, <2>1 DEF IInv, ListsMatch
<1>10. ChunkTimesMatch'
  <2>1. /\ chunkTime'[<<"merge", step>>] = {New}
        /\ \A k \in Steps \ {step} :
             chunkTime'[<<"merge", k>>] = chunkTime[<<"merge", k>>]
        /\ \A k \in Steps :
             chunkTime'[<<"compute", k>>] = chunkTime[<<"compute", k>>]
    BY <1>1, <1>5 DEF IInv, TypeOK
  <2>2. QED
    BY <1>1, <1>5, <2>1 DEF IInv, ChunkTimesMatch
<1>11. TimesMatch'
  <2>1. /\ time'[<<"init", step>>] = {New, <<"init", step>>}
        /\ \A m \in Measures \ {"init"} : time'[<<m, step>>] = {New}
        /\ \A m \in Measures, k \in Steps \ {step} :
             time'[<<m, k>>] = time[<<m, k>>]
    BY <1>1, <1>4, <1>5 DEF IInv, TypeOK
  <2>2. \A m \in Measures : time'[<<m, step>>] = TimeSoFar(m)'
    BY <1>5, <2>1 DEF TimeSoFar
  <2>3. \A m \in Measures, k \in Steps \ {step} :
          time[<<m, k>>] = IF k < step THEN {} ELSE {New}
    BY <1>3 DEF IInv, TimesMatch
  <2>4. ~(step < step)
    BY <1>1 DEF Steps
  <2>5. QED
    BY <1>5, <1>6, <2>1, <2>2, <2>3, <2>4 DEF TimesMatch
<1>12. StepTimesMatch'
  BY <1>3, <1>5, <1>6 DEF IInv, StepTimesMatch, StepTimes
<1>13. TotalCountsEachPart' /\ ThrowsOnlyWhenVanishing'
  BY <1>5 DEF IInv, TotalCountsEachPart, ThrowsOnlyWhenVanishing
<1>14. QED
  BY <1>7, <1>8, <1>9, <1>10, <1>11, <1>12, <1>13 DEF IInv

LEMMA ReduceIInv ==
  ASSUME IInv, TypeOK', Reduce
  PROVE  IInv'
<1>1. place = "split" /\ step \in Steps
  BY DEF Reduce, Running, IInv, TypeOK
<1>2. UnderWay /\ InSteps
  BY <1>1 DEF UnderWay, InSteps
<1>3. /\ input = {New} /\ chunks[step] = {New}
      /\ chunkTime[<<"merge", step>>] = {New}
  BY <1>1, <1>2 DEF IInv, InputMatches, ListsMatch, ChunkTimesMatch
<1>4. /\ partial' = [partial EXCEPT ![step] = {New}]
      /\ chunks' = [chunks EXCEPT ![step] = {}]
      /\ chunkTime' =
           [chunkTime EXCEPT ![<<"compute", step>>] = {New, <<"compute", step>>},
                             ![<<"merge", step>>] = @ \cup {<<"merge", step>>}]
      /\ place' = "reduced"
      /\ UNCHANGED <<problem, active, step, net, input, terms, dectemp, time>>
      /\ UNCHANGED <<stepTime, result, total>>
  BY <1>3 DEF Reduce, call, output
<1>5. UnderWay' /\ InSteps'
  BY <1>4 DEF UnderWay, InSteps
<1>6. PlacesMatch' /\ ResultMatches' /\ InputMatches'
  BY <1>1, <1>2, <1>4, <1>5 DEF IInv, PlacesMatch, ResultMatches, InputMatches
<1>7. TermsMatch'
  BY <1>1, <1>4 DEF IInv, TermsMatch
<1>8. ListsMatch'
  <2>1. /\ chunks'[step] = {} /\ partial'[step] = {New}
        /\ \A k \in Steps \ {step} :
             chunks'[k] = chunks[k] /\ partial'[k] = partial[k]
    BY <1>1, <1>4 DEF IInv, TypeOK
  <2>2. QED
    BY <1>1, <1>4, <2>1 DEF IInv, ListsMatch
<1>9. ChunkTimesMatch'
  <2>1. /\ chunkTime'[<<"compute", step>>] = {New, <<"compute", step>>}
        /\ chunkTime'[<<"merge", step>>] = {New, <<"merge", step>>}
        /\ \A k \in Steps \ {step} :
             /\ chunkTime'[<<"compute", k>>] = chunkTime[<<"compute", k>>]
             /\ chunkTime'[<<"merge", k>>] = chunkTime[<<"merge", k>>]
    BY <1>1, <1>3, <1>4 DEF IInv, TypeOK
  <2>2. QED
    BY <1>1, <1>4, <2>1 DEF IInv, ChunkTimesMatch
<1>10. TimesMatch'
  <2>1. \A m \in Measures : TimeSoFar(m)' = TimeSoFar(m)
    BY <1>1, <1>4 DEF TimeSoFar
  <2>2. QED
    BY <1>2, <1>4, <1>5, <2>1 DEF IInv, TimesMatch
<1>11. StepTimesMatch'
  BY <1>2, <1>4, <1>5 DEF IInv, StepTimesMatch, StepTimes
<1>12. TotalCountsEachPart' /\ ThrowsOnlyWhenVanishing'
  BY <1>4 DEF IInv, TotalCountsEachPart, ThrowsOnlyWhenVanishing
<1>13. QED
  BY <1>6, <1>7, <1>8, <1>9, <1>10, <1>11, <1>12 DEF IInv

LEMMA ReduceToNothingIInv ==
  ASSUME IInv, TypeOK', ReduceToNothing
  PROVE  IInv'
<1>1. step \in Steps /\ Vanishes(step)
  BY DEF ReduceToNothing, Running, IInv, TypeOK, PlacesMatch, Vanishes
<1>2. QED
  BY <1>1, ThrowIInv DEF ReduceToNothing

LEMMA FinishStepIInv ==
  ASSUME IInv, TypeOK', FinishStep
  PROVE  IInv'
<1> DEFINE dec == IF problem = "vanishing" THEN {} ELSE {New}
<1>1. place = "reduced" /\ step \in Steps /\ step \in 0 .. 4 /\ active[step] = 1
  BY DEF FinishStep, Running, IInv, TypeOK, PlacesMatch, Steps
<1>2. UnderWay /\ InSteps
  BY <1>1 DEF UnderWay, InSteps
<1>3. /\ chunkTime[<<"compute", step>>] = {New, <<"compute", step>>}
      /\ chunkTime[<<"merge", step>>] = {New, <<"merge", step>>}
      /\ dectemp[step] = {New} /\ partial[step] = {New}
  BY <1>1 DEF IInv, ListsMatch, ChunkTimesMatch
<1>4. /\ time[<<"init", step>>] = {New, <<"init", step>>}
      /\ time[<<"compute", step>>] = {New}
      /\ time[<<"merge", step>>] = {New} /\ time[<<"finish", step>>] = {New}
  <2>1. ~(step < step)
    BY <1>1 DEF Steps
  <2>2. \A m \in Measures : time[<<m, step>>] = TimeSoFar(m)
    BY <1>1, <1>2, <2>1 DEF IInv, TimesMatch
  <2>3. QED
    BY <1>1, <2>2 DEF TimeSoFar, Measures
<1>5. /\ time' = [time EXCEPT
                    ![<<"compute", step>>] = @ \cup {New, <<"compute", step>>},
                    ![<<"merge", step>>] = @ \cup {New, <<"merge", step>>},
                    ![<<"finish", step>>] = @ \cup {<<"finish", step>>}]
      /\ chunkTime' = [chunkTime EXCEPT ![<<"compute", step>>] = {},
                                        ![<<"merge", step>>] = {}]
      /\ terms' = [terms EXCEPT ![step] =
                     [there |-> 1, todo |-> {}, dec |-> dec]]
      /\ partial' = [partial EXCEPT ![step] = {}]
      /\ dectemp' = [dectemp EXCEPT ![step] = {}]
      /\ place' = "after"
      /\ UNCHANGED <<problem, active, step, net, input, chunks, stepTime>>
      /\ UNCHANGED <<result, total>>
  BY <1>3, <1>4 DEF FinishStep, call, output
<1>6. UnderWay' /\ InSteps'
  BY <1>5 DEF UnderWay, InSteps
<1>7. PlacesMatch' /\ ResultMatches' /\ InputMatches'
  BY <1>1, <1>2, <1>5, <1>6 DEF IInv, PlacesMatch, ResultMatches, InputMatches
<1>8. TermsMatch'
  <2>1. /\ terms'[step] = [there |-> 1, todo |-> {}, dec |-> dec]
        /\ \A k \in (0 .. 4) \ {step} : terms'[k] = terms[k]
    BY <1>1, <1>5 DEF IInv, TypeOK
  <2>2. \A k \in (0 .. 4) \ {step} : New \notin terms[k].todo \cup terms[k].dec
    BY <1>1 DEF IInv, TermsMatch
  <2>3. \/ terms'[step].dec = {New}
        \/ terms'[step].dec = {} /\ Vanishes(step)'
    BY <1>1, <1>5, <2>1 DEF Vanishes
  <2>4. terms'[step].there = 1 /\ terms'[step].todo = {}
    BY <2>1
  <2>5. QED
    BY <1>5, <2>1, <2>2, <2>3, <2>4 DEF TermsMatch
<1>9. ListsMatch'
  <2>1. /\ dectemp'[step] = {} /\ partial'[step] = {}
        /\ \A k \in Steps \ {step} :
             dectemp'[k] = dectemp[k] /\ partial'[k] = partial[k]
    BY <1>1, <1>5 DEF IInv, TypeOK
  <2>2. QED
    BY <1>1, <1>5, <2>1 DEF IInv, ListsMatch
<1>10. ChunkTimesMatch'
  <2>1. /\ chunkTime'[<<"compute", step>>] = {}
        /\ chunkTime'[<<"merge", step>>] = {}
        /\ \A k \in Steps \ {step} :
             /\ chunkTime'[<<"compute", k>>] = chunkTime[<<"compute", k>>]
             /\ chunkTime'[<<"merge", k>>] = chunkTime[<<"merge", k>>]
    BY <1>1, <1>5 DEF IInv, TypeOK
  <2>2. QED
    BY <1>1, <1>5, <2>1 DEF IInv, ChunkTimesMatch
<1>11. TimesMatch'
  <2>1. /\ time'[<<"init", step>>] = {New, <<"init", step>>}
        /\ time'[<<"compute", step>>] = {New, <<"compute", step>>}
        /\ time'[<<"merge", step>>] = {New, <<"merge", step>>}
        /\ time'[<<"finish", step>>] = {New, <<"finish", step>>}
        /\ \A m \in Measures, k \in Steps \ {step} :
             time'[<<m, k>>] = time[<<m, k>>]
    <3>1. time \in [Measures \X Steps -> SUBSET Marks]
      BY DEF IInv, TypeOK
    <3>2. \A m \in {"init", "compute", "merge", "finish"} :
            <<m, step>> \in Measures \X Steps
      BY <1>1 DEF Measures
    <3>3. /\ time'[<<"init", step>>] = time[<<"init", step>>]
          /\ time'[<<"compute", step>>] =
               time[<<"compute", step>>] \cup {New, <<"compute", step>>}
          /\ time'[<<"merge", step>>] =
               time[<<"merge", step>>] \cup {New, <<"merge", step>>}
          /\ time'[<<"finish", step>>] =
               time[<<"finish", step>>] \cup {<<"finish", step>>}
      BY <1>5, <3>1, <3>2
    <3>4. \A m \in Measures, k \in Steps \ {step} :
            time'[<<m, k>>] = time[<<m, k>>]
      BY <1>5, <3>1
    <3>5. QED
      BY <1>4, <3>3, <3>4
  <2>2. \A m \in Measures : time'[<<m, step>>] = TimeSoFar(m)'
    BY <1>1, <1>5, <2>1 DEF TimeSoFar, Measures
  <2>3. \A m \in Measures, k \in Steps \ {step} :
          time[<<m, k>>] = IF k < step THEN {} ELSE {New}
    BY <1>2 DEF IInv, TimesMatch
  <2>4. ~(step < step)
    BY <1>1 DEF Steps
  <2>5. QED
    BY <1>5, <1>6, <2>1, <2>2, <2>3, <2>4 DEF TimesMatch
<1>12. StepTimesMatch'
  BY <1>2, <1>5, <1>6 DEF IInv, StepTimesMatch, StepTimes
<1>13. TotalCountsEachPart' /\ ThrowsOnlyWhenVanishing'
  BY <1>5 DEF IInv, TotalCountsEachPart, ThrowsOnlyWhenVanishing
<1>14. QED
  BY <1>7, <1>8, <1>9, <1>10, <1>11, <1>12, <1>13 DEF IInv

\* The four time files of a step that is done sum up to each of its parts once.
LEMMA StepSumIsStepTimes ==
  ASSUME IInv, place \in {"after", "writing"}
  PROVE  StepSum(step) = StepTimes(step) /\ TimesThere(step)
<1>1. step \in Steps /\ InSteps /\ active[step] \in {0, 1}
  BY ActiveIsBit DEF IInv, TypeOK, InSteps, UnderWay
<1>2. \A m \in Measures : time[<<m, step>>] = TimeSoFar(m)
  <2>1. ~(step < step)
    BY <1>1 DEF Steps
  <2>2. QED
    BY <1>1, <2>1 DEF IInv, TimesMatch
<1>3. TimesThere(step)
  BY <1>2 DEF TimesThere, TimeSoFar
<1>4. "init" \in Measures
  BY DEF Measures
<1>5. CASE active[step] = 1
  <2>1. \A m \in Measures : time[<<m, step>>] = {New, <<m, step>>}
    BY <1>2, <1>5 DEF TimeSoFar
  <2>2. StepTimes(step) = {New} \cup (Measures \X {step})
    BY <1>5 DEF StepTimes
  <2>3. \A x : x \in Measures \X {step} <=> \E m \in Measures : x = <<m, step>>
    OBVIOUS
  <2>4. \A x : x \in StepSum(step) <=> \E m \in Measures : x \in {New, <<m, step>>}
    BY <2>1 DEF StepSum
  <2>5. QED
    BY <1>3, <1>4, <2>2, <2>3, <2>4
<1>6. CASE active[step] = 0
  <2>0. active[step] # 1 /\ place \notin {"split", "reduced"}
    BY <1>6
  <2>1. \A m \in Measures : time[<<m, step>>] = {New}
    BY <1>2, <2>0 DEF TimeSoFar
  <2>2. StepTimes(step) = {New}
    BY <1>6 DEF StepTimes
  <2>3. \A x : x \in StepSum(step) <=> \E m \in Measures : x \in {New}
    BY <2>1 DEF StepSum
  <2>4. QED
    BY <1>3, <1>4, <2>2, <2>3
<1>7. QED
  BY <1>1, <1>5, <1>6

LEMMA HandForwardIInv ==
  ASSUME IInv, TypeOK', HandForward
  PROVE  IInv'
<1>1. /\ place = "after" /\ step \in Steps /\ step \in 0 .. 4 /\ step < 4
      /\ InSteps /\ UnderWay
  BY DEF HandForward, StepFollows, Running, IInv, TypeOK, Steps, UnderWay,
         InSteps
<1>2. /\ terms[step].todo = {} /\ TimesThere(step) /\ input # {}
      /\ StepSum(step) = StepTimes(step)
  BY <1>1, StepSumIsStepTimes DEF IInv, TermsMatch, InputMatches
<1>3. CASE terms[step].dec = {}
  <2>1. Vanishes(step)
    BY <1>1, <1>3 DEF IInv, TermsMatch
  <2>2. Throw
    BY <1>3 DEF HandForward
  <2>3. QED
    BY <1>1, <2>1, <2>2, ThrowIInv
<1>4. CASE terms[step].dec # {}
  <2>1. terms[step].dec = {New}
    BY <1>1, <1>4 DEF IInv, TermsMatch
  <2>2. /\ terms' = [terms EXCEPT ![step] = Swapped(terms[step])]
        /\ time' = TimesRemoved(step)
        /\ stepTime' = [stepTime EXCEPT ![step] = StepTimes(step)]
        /\ place' = "before" /\ step' = step + 1
        /\ UNCHANGED <<problem, active, net, input, dectemp, chunks, partial>>
        /\ UNCHANGED <<chunkTime, result, total>>
    BY <1>2, <1>4 DEF HandForward, call, output
  <2>3. /\ step' \in Steps /\ step' - 1 = step
        /\ \A k \in Steps : /\ k < step' <=> k < step \/ k = step
                            /\ k = step' => ~(k < step') /\ k # step
    BY <1>1, <2>2 DEF Steps
  <2>4. UnderWay' /\ InSteps'
    BY <2>2 DEF UnderWay, InSteps
  <2>5. PlacesMatch' /\ ResultMatches' /\ InputMatches'
    BY <1>1, <2>2, <2>4 DEF IInv, PlacesMatch, ResultMatches, InputMatches
  <2>6. TermsMatch'
    <3>1. /\ terms'[step] = Swapped(terms[step])
          /\ \A k \in (0 .. 4) \ {step} : terms'[k] = terms[k]
      BY <1>1, <2>2 DEF IInv, TypeOK
    <3>2. \A k \in (0 .. 4) \ {step} :
            New \notin terms[k].todo \cup terms[k].dec
      BY <1>1 DEF IInv, TermsMatch
    <3>3. terms'[step] = FirstTerms
      BY <1>2, <2>1, <3>1 DEF Swapped, FirstTerms
    <3>4. QED
      BY <2>2, <2>3, <3>1, <3>2, <3>3 DEF TermsMatch
  <2>7. ListsMatch' /\ ChunkTimesMatch'
    BY <1>1, <2>2 DEF IInv, ListsMatch, ChunkTimesMatch
  <2>8. TimesMatch'
    <3>1. \A m \in Measures, k \in Steps :
            time'[<<m, k>>] = IF k = step THEN {} ELSE time[<<m, k>>]
      BY <2>2 DEF TimesRemoved
    <3>2. \A m \in Measures, k \in Steps \ {step} :
            time[<<m, k>>] = IF k < step THEN {} ELSE {New}
      BY <1>1 DEF IInv, TimesMatch
    <3>3. \A m \in Measures : TimeSoFar(m)' = {New}
      BY <2>2 DEF TimeSoFar
    <3>4. QED
      BY <2>3, <2>4, <3>1, <3>2, <3>3 DEF TimesMatch
  <2>9. StepTimesMatch'
    <3>1. /\ stepTime'[step] = StepTimes(step)
          /\ \A k \in Steps \ {step} : stepTime'[k] = stepTime[k]
      BY <1>1, <2>2 DEF IInv, TypeOK
    <3>2. \A k : StepTimes(k)' = StepTimes(k)
      BY <2>2 DEF StepTimes
    <3>3. QED
      BY <1>1, <2>3, <2>4, <3>1, <3>2 DEF IInv, StepTimesMatch
  <2>10. TotalCountsEachPart' /\ ThrowsOnlyWhenVanishing'
    BY <2>2 DEF IInv, TotalCountsEachPart, ThrowsOnlyWhenVanishing
  <2>11. QED
    BY <2>5, <2>6, <2>7, <2>8, <2>9, <2>10 DEF IInv
<1>5. QED
  BY <1>3, <1>4

LEMMA WriteResultIInv ==
  ASSUME IInv, TypeOK', WriteResult
  PROVE  IInv'
<1>1. place = "after" /\ step = 4 /\ InSteps /\ UnderWay
  BY DEF WriteResult, Running, UnderWay, InSteps
<1>2. /\ terms[4].there = 1 /\ terms[4].todo = {} /\ input = {New}
      /\ terms[4].dec \in {{}, {New}}
  BY <1>1 DEF IInv, TermsMatch, InputMatches
<1>3. /\ result' = {New} /\ place' = "writing"
      /\ UNCHANGED <<problem, active, step, net, total>>
      /\ UNCHANGED <<input, terms, dectemp, chunks, partial>>
      /\ UNCHANGED <<chunkTime, time, stepTime>>
  BY <1>2 DEF WriteResult, call, stepData, timing
<1>4. UnderWay' /\ InSteps'
  BY <1>3 DEF UnderWay, InSteps
<1>5. PlacesMatch' /\ ResultMatches' /\ InputMatches'
  BY <1>1, <1>2, <1>3, <1>4, MarksDiffer
     DEF PlacesMatch, ResultMatches, InputMatches
<1>6. TermsMatch'
  BY <1>1, <1>3 DEF IInv, TermsMatch, Vanishes
<1>7. ListsMatch' /\ ChunkTimesMatch'
  BY <1>1, <1>3 DEF IInv, ListsMatch, ChunkTimesMatch
<1>8. TimesMatch'
  <2>1. \A m \in Measures : TimeSoFar(m)' = TimeSoFar(m)
    BY <1>1, <1>3 DEF TimeSoFar
  <2>2. QED
    BY <1>1, <1>3, <1>4, <2>1 DEF IInv, TimesMatch
<1>9. StepTimesMatch'
  BY <1>1, <1>3, <1>4 DEF IInv, StepTimesMatch, StepTimes
<1>10. TotalCountsEachPart' /\ ThrowsOnlyWhenVanishing'
  BY <1>3 DEF IInv, TotalCountsEachPart, ThrowsOnlyWhenVanishing
<1>11. QED
  BY <1>5, <1>6, <1>7, <1>8, <1>9, <1>10 DEF IInv

LEMMA FinishWritingIInv ==
  ASSUME IInv, TypeOK', FinishWriting
  PROVE  IInv'
<1>1. /\ place = "writing" /\ step = 4 /\ step \in Steps
      /\ InSteps /\ UnderWay
  BY DEF FinishWriting, Running, IInv, PlacesMatch, UnderWay, InSteps, Steps
<1>2. /\ \A k \in 1 .. 3 : stepTime[k] = StepTimes(k)
      /\ StepSum(4) = StepTimes(4) /\ TimesThere(4)
  <2>1. \A k \in 1 .. 3 : k \in Steps /\ k < step
    BY <1>1 DEF Steps
  <2>2. QED
    BY <1>1, <2>1, StepSumIsStepTimes DEF IInv, StepTimesMatch
<1>3. \A k \in 1 .. 3 : stepTime[k] # {}
  BY <1>2 DEF StepTimes
<1>4. /\ total' = UNION ({stepTime[k] : k \in 1 .. 3} \cup {StepSum(4)})
      /\ time' = TimesRemoved(4)
      /\ stepTime' = [k \in Steps |-> {}]
      /\ terms' = [terms EXCEPT ![4] = NoTerms]
      /\ input' = {} /\ place' = "out" /\ outStruct' = {New}
      /\ UNCHANGED <<problem, active, step, net, dectemp, chunks, partial>>
      /\ UNCHANGED <<chunkTime, result>>
  BY <1>2, <1>3 DEF FinishWriting, Answer, call
<1>5. ~UnderWay' /\ ~InSteps'
  BY <1>4 DEF UnderWay, InSteps
<1>6. PlacesMatch' /\ ResultMatches' /\ InputMatches'
  BY <1>1, <1>4, <1>5 DEF IInv, PlacesMatch, ResultMatches, InputMatches
<1>7. TermsMatch'
  <2>1. /\ terms'[4] = NoTerms
        /\ \A k \in (0 .. 4) \ {4} : terms'[k] = terms[k]
    BY <1>4 DEF IInv, TypeOK
  <2>2. \A k \in (0 .. 4) \ {4} : New \notin terms[k].todo \cup terms[k].dec
    BY <1>1 DEF IInv, TermsMatch
  <2>3. New \notin NoTerms.todo \cup NoTerms.dec
    BY DEF NoTerms
  <2>4. QED
    BY <1>4, <2>1, <2>2, <2>3 DEF TermsMatch
<1>8. ListsMatch' /\ ChunkTimesMatch'
  BY <1>1, <1>4 DEF IInv, ListsMatch, ChunkTimesMatch
<1>9. TimesMatch'
  <2>1. \A m \in Measures, k \in Steps :
          time'[<<m, k>>] = IF k = 4 THEN {} ELSE time[<<m, k>>]
    BY <1>4 DEF TimesRemoved
  <2>2. \A k \in Steps : k # 4 => k < step
    BY <1>1 DEF Steps
  <2>3. \A m \in Measures, k \in Steps : k # 4 => time[<<m, k>>] = {}
    BY <1>1, <2>2 DEF IInv, TimesMatch
  <2>4. QED
    BY <1>5, <2>1, <2>3 DEF TimesMatch
<1>10. StepTimesMatch'
  BY <1>4, <1>5 DEF StepTimesMatch
<1>11. TotalCountsEachPart'
  <2>1. \A x : x \in total' <=> \E k \in Steps : x \in StepTimes(k)
    <3>1. \A k : k \in Steps <=> k \in 1 .. 3 \/ k = 4
      BY DEF Steps
    <3>2. QED
      BY <1>2, <1>4, <3>1
  <2>2. \A x : \A k \in Steps :
          x \in StepTimes(k) <=>
            x = New \/ (active[k] = 1 /\ x \in Measures \X {k})
    BY DEF StepTimes
  <2>3. \A x : x \in Measures \X {k \in Steps : active[k] = 1} <=>
                \E k \in Steps : active[k] = 1 /\ x \in Measures \X {k}
    OBVIOUS
  <2>4. \A x : x \in total' <=>
                x \in {New} \cup (Measures \X {k \in Steps : active[k] = 1})
    BY <1>1, <2>1, <2>2, <2>3
  <2>5. total' = {New} \cup (Measures \X {k \in Steps : active[k] = 1})
    BY <2>4
  <2>6. QED
    BY <1>4, <2>5 DEF TotalCountsEachPart
<1>12. ThrowsOnlyWhenVanishing'
  BY <1>4 DEF IInv, ThrowsOnlyWhenVanishing
<1>13. QED
  BY <1>6, <1>7, <1>8, <1>9, <1>10, <1>11, <1>12 DEF IInv

LEMMA NextCallIInv ==
  ASSUME IInv, TypeOK', NextCall
  PROVE  IInv'
<1>1. /\ place' = "intask" /\ net' = "running"
      /\ result' = IF result = {} THEN {} ELSE result \cup {Kept}
      /\ UNCHANGED <<problem, active, total>>
      /\ ~UnderWay' /\ ~InSteps'
  BY DEF NextCall, UnderWay, InSteps
<1>2. \A c : New \notin Aged(c)
  BY AgedIsOld
<1>3. PlacesMatch' /\ InputMatches'
  BY <1>1, <1>2 DEF NextCall, PlacesMatch, InputMatches
<1>4. ResultMatches'
  BY <1>1, MarksDiffer DEF IInv, ResultMatches
<1>5. TermsMatch'
  <2>1. \A k \in 0 .. 4 : terms'[k] = AgedTerms(terms[k])
    BY DEF NextCall
  <2>2. \A k \in 0 .. 4 : New \notin terms'[k].todo \cup terms'[k].dec
    BY <1>2, <2>1 DEF AgedTerms
  <2>3. QED
    BY <1>1, <2>2 DEF TermsMatch
<1>6. ListsMatch' /\ ChunkTimesMatch'
  BY <1>1, <1>2 DEF NextCall, ListsMatch, ChunkTimesMatch
<1>7. TimesMatch' /\ StepTimesMatch'
  BY <1>1, <1>2 DEF NextCall, TimesMatch, StepTimesMatch
<1>8. TotalCountsEachPart' /\ ThrowsOnlyWhenVanishing'
  BY <1>1 DEF IInv, TotalCountsEachPart, ThrowsOnlyWhenVanishing
<1>9. QED
  BY <1>3, <1>4, <1>5, <1>6, <1>7, <1>8 DEF IInv

LEMMA StepIInv ==
  ASSUME IInv, [Next]_vars
  PROVE  IInv'
<1>1. TypeOK'
  BY TypeStep DEF IInv
<1>2. CASE \/ AlreadyDone \/ PrepareTrivial \/ FinishTrivial
           \/ SerialAlreadyDone \/ SerialCompute \/ SerialFinish
  BY <1>1, <1>2, OutsideTheNetIInv
<1>3. CASE PrepareInput \/ PassOnToCompute \/ SkipStep
  BY <1>1, <1>3, PrepareInputIInv, PassOnToComputeIInv, SkipStepIInv
<1>4. CASE SplitInit \/ Reduce \/ ReduceToNothing \/ FinishStep
  BY <1>1, <1>4, SplitInitIInv, ReduceIInv, ReduceToNothingIInv, FinishStepIInv
<1>5. CASE HandForward \/ WriteResult \/ FinishWriting
  BY <1>1, <1>5, HandForwardIInv, WriteResultIInv, FinishWritingIInv
<1>6. CASE NextCall
  BY <1>1, <1>6, NextCallIInv
<1>7. CASE UNCHANGED vars
  <2>1. ThrowsOnlyWhenVanishing'
    BY <1>7 DEF vars, call, IInv, ThrowsOnlyWhenVanishing
  <2>2. QED
    BY <1>1, <1>7, <2>1, UnchangedIInv
       DEF vars, call, token, stepData, timing, output
<1>8. QED
  BY <1>2, <1>3, <1>4, <1>5, <1>6, <1>7 DEF Next, Handlers

-----------------------------------------------------------------------------

\* The inductive invariant holds throughout any number of calls.
THEOREM Invariance == Spec => []IInv
BY InitIInv, StepIInv, PTL DEF Spec

\* Every file of the problem holds marks of its kind.
THEOREM TypeCorrect == Spec => []TypeOK
<1>1. IInv => TypeOK
  BY DEF IInv
<1>2. QED
  BY <1>1, Invariance, PTL

\* Whatever an earlier call has left in tempdir, and wherever it was cut off,
\* neither the result nor the answer of this call has anything of it.
THEOREM ResultIsFresh == Spec => []NothingOldInResult
<1>1. IInv => NothingOldInResult
  BY DEF IInv, ResultMatches, PlacesMatch, NothingOldInResult
<1>2. QED
  BY <1>1, Invariance, PTL

\* The time logged for a problem counts each part of each active step once.
THEOREM TotalIsExact == Spec => []TotalCountsEachPart
<1>1. IInv => TotalCountsEachPart
  BY DEF IInv
<1>2. QED
  BY <1>1, Invariance, PTL

\* Every handler finds its files, with the terms in the right list: only a
\* problem whose terms add up to nothing makes one throw.
THEOREM ThrowsOnlyForVanishing == Spec => []ThrowsOnlyWhenVanishing
<1>1. IInv => ThrowsOnlyWhenVanishing
  BY DEF IInv
<1>2. QED
  BY <1>1, Invariance, PTL

\* A problem that has been computed leaves none of its temporary files.
THEOREM NothingNewIsLeft == Spec => []LeavesNothingNew
<1>1. IInv => LeavesNothingNew
  <2> SUFFICES ASSUME IInv, place = "out" PROVE LeavesNothingNew
    BY DEF LeavesNothingNew
  <2>1. ~UnderWay /\ ~InSteps
    BY DEF UnderWay, InSteps
  <2>2. /\ New \notin input
        /\ \A k \in 0 .. 4 : New \notin terms[k].todo \cup terms[k].dec
    BY <2>1 DEF IInv, InputMatches, TermsMatch
  <2>3. \A k \in Steps :
          New \notin dectemp[k] \cup chunks[k] \cup partial[k] \cup stepTime[k]
    BY <2>1 DEF IInv, ListsMatch, StepTimesMatch
  <2>4. \A m \in DOMAIN chunkTime : New \notin chunkTime[m]
    <3>1. \A k \in Steps : /\ New \notin chunkTime[<<"compute", k>>]
                           /\ New \notin chunkTime[<<"merge", k>>]
      BY DEF IInv, ChunkTimesMatch
    <3>2. DOMAIN chunkTime = {"compute", "merge"} \X Steps
      BY DEF IInv, TypeOK
    <3>3. \A m \in {"compute", "merge"} \X Steps :
            \E k \in Steps : m \in {<<"compute", k>>, <<"merge", k>>}
      OBVIOUS
    <3>4. QED
      BY <3>1, <3>2, <3>3
  <2>5. \A m \in DOMAIN time : New \notin time[m]
    <3>1. DOMAIN time = Measures \X Steps
      BY DEF IInv, TypeOK
    <3>2. \A m \in Measures, k \in Steps : New \notin time[<<m, k>>]
      BY <2>1 DEF IInv, TimesMatch
    <3>3. QED
      BY <3>1, <3>2
  <2>6. QED
    BY <2>2, <2>3, <2>4, <2>5 DEF LeavesNothingNew
<1>2. QED
  BY <1>1, Invariance, PTL

\* A result that a later call has found is final.
THEOREM ResultsAreFinal == Spec => ResultIsFinal
<1>1. ASSUME IInv, [Next]_vars, Kept \in result
      PROVE  result' = result
  <2>1. /\ place \in {"intask", "out"} /\ AlreadyComputed
    BY <1>1 DEF IInv, ResultMatches, AlreadyComputed
  <2>2. CASE AlreadyDone \/ SerialAlreadyDone
    BY <2>2 DEF AlreadyDone, SerialAlreadyDone, output
  <2>3. CASE NextCall
    BY <1>1, <2>3 DEF NextCall
  <2>4. CASE Handlers /\ ~(AlreadyDone \/ SerialAlreadyDone)
    BY <2>1, <2>4
       DEF Handlers, Running, PrepareTrivial, FinishTrivial, PrepareInput,
           PassOnToCompute, SkipStep, SplitInit, Reduce, ReduceToNothing,
           FinishStep, HandForward, WriteResult, FinishWriting, SerialCompute,
           SerialFinish
  <2>5. CASE UNCHANGED vars
    BY <2>5 DEF vars, output
  <2>6. QED
    BY <1>1, <2>2, <2>3, <2>4, <2>5 DEF Next
<1>2. IInv /\ [Next]_vars => [(Kept \in result) => result' = result]_vars
  BY <1>1
<1>3. QED
  BY <1>2, Invariance, PTL DEF Spec, ResultIsFinal
=============================================================================
