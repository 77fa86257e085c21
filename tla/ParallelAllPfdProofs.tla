------------------------ MODULE ParallelAllPfdProofs ------------------------
(***************************************************************************)
(* Theorems about ParallelAllPfd, for any number of problems with inputs   *)
(* of any size, any percentages whose share can be represented, and any    *)
(* failing problems.                                                       *)
(***************************************************************************)
EXTENDS ParallelAllPfd, ParallelShareProofs, FiniteSetTheorems

-----------------------------------------------------------------------------
(***************************************************************************)
(* The inductive invariant.                                                *)
(***************************************************************************)

Share == ParallelCount(percentage, taskCount)

\* Nothing is there before initialize, and the tokens that control the net go
\* with its end.
TokensAgree ==
  /\ initiated = 0 => /\ extracting = 0 /\ Underway = {} /\ Written = {}
                      /\ results = {} /\ net = "running"
  /\ counting = 1 <=> initiated = 1
  /\ net = "DONE" <=> initiated = 2
  /\ extracting = 0 => elist = <<>>

\* While problems are extracted the list is as long as what is left of the two
\* shares, or too short for the parallel one by as much as at the start.
ListMatchesShares ==
  extracting = 1 =>
    IF Share <= taskCount THEN Len(elist) = parallel + serial
                          ELSE parallel = Len(elist) + (Share - taskCount)

\* With sort_input the list is in order, what has gone to the parallel side is
\* larger than the rest, and the serial side waits for the whole parallel share.
LargestTaken ==
  /\ extracting = 1 /\ SerialSide # {} => parallel = 0
  /\ sortInput = 1 =>
       /\ \A i, j \in 1 .. Len(elist) :
            i < j => FileSize(elist[i]) <= FileSize(elist[j])
       /\ \A t \in ParallelSide, u \in SerialSide \cup Listed :
            FileSize(u) <= FileSize(t)

IInv ==
  /\ TypeOK
  /\ TokensAgree
  /\ EachTaskOnce
  /\ ControlExact
  /\ DoneMeansWritten
  /\ ListMatchesShares
  /\ LargestTaken
  /\ CancelledOnlyByFailure

-----------------------------------------------------------------------------
(***************************************************************************)
(* Lemmas about the lists and the sets of problems.                        *)
(***************************************************************************)

\* The problems of a call are numbers, finitely many of them.
LEMMA TasksAreFinite ==
  ASSUME taskCount \in 0 .. MaxTasks
  PROVE  /\ taskCount \in Nat /\ Task \subseteq 0 .. MaxTasks - 1
         /\ IsFiniteSet(Task) /\ Cardinality(Task) = taskCount
<1>1. taskCount \in Nat /\ Task \subseteq 0 .. MaxTasks - 1
  BY MaxTasksAssumption DEF Task
<1>2. IsFiniteSet(Task) /\ Cardinality(Task) = taskCount
  BY <1>1, FS_Interval DEF Task
<1>. QED
  BY <1>1, <1>2

\* The shares that initialize sets are numbers, and add up to the number of
\* problems unless the parallel one is larger than that.
LEMMA SharesFit ==
  ASSUME taskCount \in 0 .. MaxTasks, percentage \in Percentages
  PROVE  /\ Share \in Nat
         /\ SerialCount(percentage, taskCount) \in Nat
         /\ Share <= taskCount =>
              Share + SerialCount(percentage, taskCount) = taskCount
<1>1. Share \in Nat
  BY ShareAssumption DEF Share
<1>2. SerialCount(percentage, taskCount) = (taskCount - Share) % Word
  BY DEF SerialCount, Share
<1>3. taskCount \in Nat /\ Word \in Nat \ {0} /\ taskCount < Word
  BY MaxTasksAssumption, WordAssumption, ShareAssumption
<1>4. (taskCount - Share) % Word \in Nat
  BY <1>1, <1>3
<1>5. ASSUME Share <= taskCount PROVE (taskCount - Share) % Word = taskCount - Share
  <2>1. taskCount - Share \in 0 .. Word - 1
    BY <1>1, <1>3, <1>5
  <2>. QED
    BY <1>3, <2>1
<1>. QED
  BY <1>1, <1>2, <1>3, <1>4, <1>5

\* A sorted list holds every problem once.
LEMMA SortedListsHoldAll ==
  ASSUME taskCount \in 0 .. MaxTasks, NEW s \in SortedLists
  PROVE  /\ s \in Seq(Task) /\ Len(s) = taskCount
         /\ {s[i] : i \in 1 .. taskCount} = Task
         /\ \A i, j \in 1 .. taskCount : i # j => s[i] # s[j]
         /\ \A i, j \in 1 .. taskCount :
              i < j => FileSize(s[i]) <= FileSize(s[j])
<1>1. taskCount \in Nat /\ IsFiniteSet(Task) /\ Cardinality(Task) = taskCount
  BY TasksAreFinite
<1>2. /\ s \in [1 .. taskCount -> Task]
      /\ \A i, j \in 1 .. taskCount :
           i < j => s[i] # s[j] /\ FileSize(s[i]) <= FileSize(s[j])
  BY DEF SortedLists
<1>3. s \in Seq(Task) /\ Len(s) = taskCount
  BY <1>1, <1>2
<1>4. \A i, j \in 1 .. taskCount : i # j => s[i] # s[j]
  BY <1>1, <1>2
<1>5. {s[i] : i \in 1 .. taskCount} = Task
  <2>1. IsFiniteSet(1 .. taskCount) /\ Cardinality(1 .. taskCount) = taskCount
    BY <1>1, FS_Interval
  <2>2. s \in Injection(1 .. taskCount, Task)
    BY <1>2, <1>4 DEF Injection, IsInjective
  <2>3. s \in Surjection(1 .. taskCount, Task)
    BY <1>1, <2>1, <2>2, FS_Injection
  <2>. QED
    BY <1>2, <2>3 DEF Surjection
<1>. QED
  BY <1>2, <1>3, <1>4, <1>5

\* Without sorting the list holds the problems in their order.
LEMMA PlainListHoldsAll ==
  ASSUME taskCount \in 0 .. MaxTasks,
         NEW s, s = [i \in 1 .. taskCount |-> i - 1]
  PROVE  /\ s \in Seq(Task) /\ Len(s) = taskCount
         /\ {s[i] : i \in 1 .. taskCount} = Task
         /\ \A i, j \in 1 .. taskCount : i # j => s[i] # s[j]
<1>1. taskCount \in Nat
  BY TasksAreFinite
<1>2. s \in [1 .. taskCount -> Task]
  BY <1>1 DEF Task
<1>3. s \in Seq(Task) /\ Len(s) = taskCount
  BY <1>1, <1>2
<1>4. \A t \in Task : t + 1 \in 1 .. taskCount /\ s[t + 1] = t
  BY <1>1 DEF Task
<1>5. \A t \in Task : \E i \in 1 .. taskCount : s[i] = t
  BY <1>4
<1>6. {s[i] : i \in 1 .. taskCount} = Task
  BY <1>2, <1>5
<1>. QED
  BY <1>1, <1>3, <1>6

LEMMA FrontOfList ==
  ASSUME NEW S, NEW s \in Seq(S), s # <<>>
  PROVE  LET r == SubSeq(s, 1, Len(s) - 1)
         IN  /\ r \in Seq(S) /\ Len(r) = Len(s) - 1
             /\ \A i \in 1 .. Len(r) : r[i] = s[i]
<1>1. Len(s) \in Nat \ {0} /\ s \in [1 .. Len(s) -> S]
  OBVIOUS
<1>. QED
  BY <1>1

\* Taking the last problem from a list without doubles.
LEMMA LastDropped ==
  ASSUME elist \in Seq(Task), elist # <<>>, DropLast,
         \A i, j \in 1 .. Len(elist) : i # j => elist[i] # elist[j]
  PROVE  LET t == elist[Len(elist)]
         IN  /\ Len(elist) \in Nat \ {0} /\ t \in Task
             /\ elist' \in Seq(Task) /\ Len(elist') = Len(elist) - 1
             /\ \A i \in 1 .. Len(elist') : elist'[i] = elist[i]
             /\ Listed = Listed' \cup {t} /\ t \notin Listed'
<1> DEFINE t == elist[Len(elist)]
<1>1. Len(elist) \in Nat \ {0} /\ t \in Task
  OBVIOUS
<1>2. /\ elist' \in Seq(Task) /\ Len(elist') = Len(elist) - 1
      /\ \A i \in 1 .. Len(elist') : elist'[i] = elist[i]
  BY FrontOfList DEF DropLast
<1>3. \A i \in 1 .. Len(elist) : i \in 1 .. Len(elist') \/ i = Len(elist)
  BY <1>1, <1>2
<1>4. Listed = Listed' \cup {t}
  BY <1>1, <1>2, <1>3 DEF Listed
<1>5. t \notin Listed'
  BY <1>1, <1>2 DEF Listed
<1>. QED
  BY <1>1, <1>2, <1>4, <1>5

\* While the options stay, the problems and the sizes of their inputs do.
LEMMA OptionsStay ==
  ASSUME UNCHANGED config
  PROVE  /\ UNCHANGED <<taskCount, percentage, sortInput, ssi>>
         /\ Task' = Task /\ Share' = Share
         /\ \A t : FileSize(t)' = FileSize(t)
BY DEF config, Task, Share, FileSize

LEMMA SizesAreNumbers ==
  ASSUME taskCount \in 0 .. MaxTasks
  PROVE  \A t \in Task : FileSize(t) \in Int
BY SizeAssumption, TasksAreFinite DEF FileSize

-----------------------------------------------------------------------------
(***************************************************************************)
(* Type correctness.                                                       *)
(***************************************************************************)

LEMMA InitType == Init => TypeOK
<1> SUFFICES ASSUME Init PROVE TypeOK
  OBVIOUS
<1>1. elist \in Seq(Task)
  BY DEF Init
<1>2. control \in 0 .. taskCount
  BY MaxTasksAssumption DEF Init
<1>. QED
  BY <1>1, <1>2 DEF Init, TypeOK

LEMMA TypeStep == ASSUME TypeOK, [Next]_vars PROVE TypeOK'
<1> USE DEF TypeOK, config, extract, places
<1>1. CASE UNCHANGED config
  <2>0. Task' = Task /\ taskCount \in Nat
    BY <1>1, OptionsStay, TasksAreFinite
  <2>1. CASE Initialize
    <3>1. elist' \in Seq(Task)
      BY <2>1, SortedListsHoldAll, PlainListHoldsAll DEF Initialize
    <3>2. parallel' \in Nat /\ serial' \in Nat
      BY <2>1, SharesFit DEF Initialize, Share
    <3>3. control' \in 0 .. taskCount
      BY <2>0, <2>1 DEF Initialize
    <3>. QED
      BY <2>0, <2>1, <3>1, <3>2, <3>3 DEF Initialize
  <2>2. CASE PExtract
    <3>1. CASE elist # <<>>
      BY <2>0, <2>2, <3>1, FrontOfList
      DEF PExtract, DropLast, ParallelRemains, ShareOneLess
    <3>2. CASE elist = <<>>
      BY <2>0, <2>2, <3>2 DEF PExtract
    <3>. QED
      BY <3>1, <3>2
  <2>3. CASE SExtract
    <3>1. CASE elist # <<>>
      BY <2>0, <2>3, <3>1, FrontOfList DEF SExtract, DropLast, SerialTurn
    <3>2. CASE elist = <<>>
      BY <2>0, <2>3, <3>2 DEF SExtract
    <3>. QED
      BY <3>1, <3>2
  <2>4. CASE DoneExtract
    BY <2>0, <2>4 DEF DoneExtract
  <2>5. CASE \E t \in Task : BeginPCompute(t) \/ BeginSCompute(t)
    BY <2>0, <2>5 DEF BeginPCompute, BeginSCompute
  <2>6. CASE \E t \in Task : EndPCompute(t) \/ EndSCompute(t)
    BY <2>0, <2>6 DEF EndPCompute, EndSCompute
  <2>7. CASE \E t \in Task : Fail(t)
    BY <2>0, <2>7 DEF Fail
  <2>8. CASE \E t \in Task : Collect(t)
    BY <2>0, <2>8 DEF Collect, CountDown
  <2>9. CASE Finish
    BY <2>0, <2>9 DEF Finish
  <2>10. CASE UNCHANGED vars
    BY <2>0, <2>10 DEF vars
  <2>. QED
    BY <2>1, <2>2, <2>3, <2>4, <2>5, <2>6, <2>7, <2>8, <2>9, <2>10
    DEF Next, Stopped
<1>2. UNCHANGED config
  BY DEF Next, vars, Initialize, PExtract, SExtract, DoneExtract, BeginPCompute,
         EndPCompute, BeginSCompute, EndSCompute, Fail, Collect, Finish, Stopped
<1>. QED
  BY <1>1, <1>2

\* The counters never wrap, and every place holds problems of the call.
THEOREM TypeCorrect == Spec => []TypeOK
<1>. QED
  BY InitType, TypeStep, PTL DEF Spec

-----------------------------------------------------------------------------
(***************************************************************************)
(* One lemma for every kind of step.                                       *)
(***************************************************************************)

LEMMA InitIInv == Init => IInv
<1> SUFFICES ASSUME Init PROVE IInv
  OBVIOUS
<1>1. TypeOK
  BY InitType
<1>2. Written = {} /\ Underway = {}
  BY <1>1, TasksAreFinite DEF Init, TypeOK, Written, Underway
<1>3. TokensAgree /\ EachTaskOnce /\ ControlExact /\ DoneMeansWritten
      /\ CancelledOnlyByFailure /\ ListMatchesShares
  BY <1>2 DEF Init, TokensAgree, EachTaskOnce, ControlExact, DoneMeansWritten,
              CancelledOnlyByFailure, ListMatchesShares
<1>4. LargestTaken
  BY <1>1, TasksAreFinite
  DEF Init, TypeOK, LargestTaken, ParallelSide, SerialSide, Listed
<1>. QED
  BY <1>1, <1>3, <1>4 DEF IInv

\* initialize lists every problem, and counts them.
LEMMA InitializeIInv == ASSUME IInv, TypeOK', Initialize PROVE IInv'
<1>1. /\ initiated = 0 /\ initiated' = 1 /\ extracting' = 1 /\ counting' = 1
      /\ control' = taskCount /\ net = "running" /\ net' = "running"
      /\ parallel' = Share /\ serial' = SerialCount(percentage, taskCount)
      /\ UNCHANGED <<config, pTasks, pJobs, sTasks, sJobs, results, outStruct>>
  BY DEF Initialize, places, Share
<1>2. /\ Task' = Task /\ Share' = Share /\ \A t : FileSize(t)' = FileSize(t)
      /\ UNCHANGED <<taskCount, percentage, sortInput, ssi>>
  BY <1>1, OptionsStay
<1>3. /\ taskCount \in Nat /\ IsFiniteSet(Task) /\ Cardinality(Task) = taskCount
  BY TasksAreFinite DEF IInv, TypeOK
<1>4. Underway = {} /\ Written = {} /\ results = {}
  BY <1>1 DEF IInv, TokensAgree
<1>5. Underway' = {} /\ Written' = {} /\ results' = {}
  BY <1>1, <1>2, <1>4 DEF Underway, Written
<1>6. ParallelSide' = {} /\ SerialSide' = {}
  BY <1>5, <1>2 DEF ParallelSide, SerialSide, Underway, Written
<1>7. /\ Len(elist') = taskCount /\ {elist'[i] : i \in 1 .. taskCount} = Task
      /\ \A i, j \in 1 .. taskCount : i # j => elist'[i] # elist'[j]
      /\ sortInput = 1 => \A i, j \in 1 .. taskCount :
           i < j => FileSize(elist'[i]) <= FileSize(elist'[j])
  <2>1. CASE sortInput = 1
    BY <2>1, SortedListsHoldAll DEF Initialize, IInv, TypeOK
  <2>2. CASE sortInput # 1
    BY <2>2, PlainListHoldsAll DEF Initialize, IInv, TypeOK
  <2>. QED
    BY <2>1, <2>2
<1>8. Listed' = Task
  BY <1>7 DEF Listed
<1>9. TokensAgree'
  BY <1>1 DEF TokensAgree
<1>10. EachTaskOnce'
  BY <1>1, <1>2, <1>5, <1>6, <1>7, <1>8
  DEF EachTaskOnce, Underway
<1>11. ControlExact'
  <2>1. (Task \ {}) \cup {} = Task
    OBVIOUS
  <2>. QED
    BY <1>1, <1>2, <1>3, <1>5, <2>1 DEF ControlExact
<1>12. DoneMeansWritten' /\ CancelledOnlyByFailure'
  BY <1>1 DEF DoneMeansWritten, CancelledOnlyByFailure
<1>13. ListMatchesShares'
  BY <1>1, <1>2, <1>3, <1>7, SharesFit DEF IInv, TypeOK, ListMatchesShares
<1>14. LargestTaken'
  BY <1>2, <1>6, <1>7 DEF LargestTaken
<1>. QED
  BY <1>9, <1>10, <1>11, <1>12, <1>13, <1>14 DEF IInv

\* p_extract hands out the last problem of the list, the largest that is left.
LEMMA PExtractIInv == ASSUME IInv, TypeOK', PExtract, elist # <<>> PROVE IInv'
<1> DEFINE t == elist[Len(elist)]
<1>1. /\ net = "running" /\ net' = "running" /\ extracting = 1 /\ extracting' = 1
      /\ parallel > 0 /\ parallel' = parallel - 1 /\ DropLast
      /\ pTasks' = pTasks \cup {t}
      /\ UNCHANGED <<config, initiated, serial, counting, control, pJobs, sTasks,
                     sJobs, results, outStruct>>
  BY DEF PExtract, ParallelRemains, ShareOneLess
<1>2. /\ Task' = Task /\ Share' = Share /\ \A u : FileSize(u)' = FileSize(u)
      /\ UNCHANGED <<taskCount, percentage, sortInput, ssi>>
  BY <1>1, OptionsStay
<1>3. initiated # 0
  BY <1>1 DEF IInv, TokensAgree
<1>4. /\ taskCount \in 0 .. MaxTasks /\ percentage \in Percentages
      /\ elist \in Seq(Task) /\ parallel \in Nat /\ serial \in Nat
  BY DEF IInv, TypeOK
<1>5. /\ Listed \cup Underway \cup Written = Task
      /\ Listed \cap (Underway \cup Written) = {}
      /\ Underway \cap Written = {}
      /\ pTasks \cap pJobs = {} /\ sTasks \cap sJobs = {}
      /\ ParallelSide \cap SerialSide = {}
      /\ \A i, j \in 1 .. Len(elist) : i # j => elist[i] # elist[j]
      /\ results \subseteq Written
  BY <1>3 DEF IInv, EachTaskOnce
<1>6. /\ Len(elist) \in Nat \ {0} /\ t \in Task
      /\ elist' \in Seq(Task) /\ Len(elist') = Len(elist) - 1
      /\ \A i \in 1 .. Len(elist') : elist'[i] = elist[i]
      /\ Listed = Listed' \cup {t} /\ t \notin Listed'
  BY <1>1, <1>4, <1>5, LastDropped
<1> HIDE DEF t
<1>7. /\ Underway' = Underway \cup {t} /\ Written' = Written
      /\ ParallelSide' = ParallelSide \cup {t} /\ SerialSide' = SerialSide
  BY <1>1, <1>2 DEF Underway, Written, ParallelSide, SerialSide
<1>8. t \notin Underway /\ t \notin Written /\ t \notin SerialSide
  BY <1>5, <1>6 DEF Underway, Written, SerialSide
<1>9. TokensAgree'
  BY <1>1, <1>3 DEF IInv, TokensAgree
<1>10. EachTaskOnce'
  <2>1. \A i, j \in 1 .. Len(elist') : i # j => elist'[i] # elist'[j]
    BY <1>5, <1>6
  <2>2. pTasks' \cap pJobs = {}
    BY <1>1, <1>5, <1>8 DEF Underway
  <2>. QED
    BY <1>1, <1>2, <1>5, <1>6, <1>7, <1>8, <2>1, <2>2 DEF EachTaskOnce
<1>11. ControlExact'
  BY <1>1, <1>2, <1>7 DEF IInv, ControlExact
<1>12. DoneMeansWritten' /\ CancelledOnlyByFailure'
  BY <1>1 DEF DoneMeansWritten, CancelledOnlyByFailure
<1>13. ListMatchesShares'
  BY <1>1, <1>2, <1>4, <1>6, SharesFit DEF IInv, ListMatchesShares
<1>14. LargestTaken'
  <2>1. SerialSide = {}
    BY <1>1 DEF IInv, LargestTaken
  <2>2. ASSUME sortInput = 1
        PROVE  /\ \A i, j \in 1 .. Len(elist') :
                    i < j => FileSize(elist'[i]) <= FileSize(elist'[j])
               /\ \A u \in ParallelSide', v \in Listed' :
                    FileSize(v) <= FileSize(u)
    <3>1. /\ \A i, j \in 1 .. Len(elist) :
               i < j => FileSize(elist[i]) <= FileSize(elist[j])
          /\ \A u \in ParallelSide, v \in SerialSide \cup Listed :
               FileSize(v) <= FileSize(u)
      BY <2>2 DEF IInv, LargestTaken
    <3>2. \A i \in 1 .. Len(elist') : i \in 1 .. Len(elist) /\ i < Len(elist)
      BY <1>6
    <3>3. \A v \in Listed' : \E i \in 1 .. Len(elist') : v = elist[i]
      BY <1>6 DEF Listed
    <3>4. \A v \in Listed' : FileSize(v) <= FileSize(t)
      BY <1>6, <3>1, <3>2, <3>3 DEF t
    <3>. QED
      BY <1>6, <1>7, <3>1, <3>2, <3>4
  <2>. QED
    BY <1>2, <1>7, <2>1, <2>2 DEF LargestTaken
<1>. QED
  BY <1>9, <1>10, <1>11, <1>12, <1>13, <1>14 DEF IInv

\* s_extract hands out the last problem of the list to the serial side.
LEMMA SExtractIInv == ASSUME IInv, TypeOK', SExtract, elist # <<>> PROVE IInv'
<1> DEFINE t == elist[Len(elist)]
<1>1. /\ net = "running" /\ net' = "running" /\ extracting = 1 /\ extracting' = 1
      /\ parallel = 0 /\ serial > 0 /\ serial' = serial - 1 /\ DropLast
      /\ sTasks' = sTasks \cup {t}
      /\ UNCHANGED <<config, initiated, parallel, counting, control, pTasks, pJobs,
                     sJobs, results, outStruct>>
  BY DEF SExtract, SerialTurn
<1>2. /\ Task' = Task /\ Share' = Share /\ \A u : FileSize(u)' = FileSize(u)
      /\ UNCHANGED <<taskCount, percentage, sortInput, ssi>>
  BY <1>1, OptionsStay
<1>3. initiated # 0
  BY <1>1 DEF IInv, TokensAgree
<1>4. /\ taskCount \in 0 .. MaxTasks /\ percentage \in Percentages
      /\ elist \in Seq(Task) /\ parallel \in Nat /\ serial \in Nat
  BY DEF IInv, TypeOK
<1>5. /\ Listed \cup Underway \cup Written = Task
      /\ Listed \cap (Underway \cup Written) = {}
      /\ Underway \cap Written = {}
      /\ pTasks \cap pJobs = {} /\ sTasks \cap sJobs = {}
      /\ ParallelSide \cap SerialSide = {}
      /\ \A i, j \in 1 .. Len(elist) : i # j => elist[i] # elist[j]
      /\ results \subseteq Written
  BY <1>3 DEF IInv, EachTaskOnce
<1>6. /\ Len(elist) \in Nat \ {0} /\ t \in Task
      /\ elist' \in Seq(Task) /\ Len(elist') = Len(elist) - 1
      /\ \A i \in 1 .. Len(elist') : elist'[i] = elist[i]
      /\ Listed = Listed' \cup {t} /\ t \notin Listed'
  BY <1>1, <1>4, <1>5, LastDropped
<1> HIDE DEF t
<1>7. /\ Underway' = Underway \cup {t} /\ Written' = Written
      /\ ParallelSide' = ParallelSide /\ SerialSide' = SerialSide \cup {t}
  BY <1>1, <1>2 DEF Underway, Written, ParallelSide, SerialSide
<1>8. t \notin Underway /\ t \notin Written /\ t \notin ParallelSide
  BY <1>5, <1>6 DEF Underway, Written, ParallelSide
<1>9. TokensAgree'
  BY <1>1, <1>3 DEF IInv, TokensAgree
<1>10. EachTaskOnce'
  <2>1. \A i, j \in 1 .. Len(elist') : i # j => elist'[i] # elist'[j]
    BY <1>5, <1>6
  <2>2. sTasks' \cap sJobs = {}
    BY <1>1, <1>5, <1>8 DEF Underway
  <2>. QED
    BY <1>1, <1>2, <1>5, <1>6, <1>7, <1>8, <2>1, <2>2 DEF EachTaskOnce
<1>11. ControlExact'
  BY <1>1, <1>2, <1>7 DEF IInv, ControlExact
<1>12. DoneMeansWritten' /\ CancelledOnlyByFailure'
  BY <1>1 DEF DoneMeansWritten, CancelledOnlyByFailure
<1>13. ListMatchesShares'
  BY <1>1, <1>2, <1>4, <1>6, SharesFit DEF IInv, ListMatchesShares
<1>14. LargestTaken'
  <2>1. ASSUME sortInput = 1
        PROVE  /\ \A i, j \in 1 .. Len(elist') :
                    i < j => FileSize(elist'[i]) <= FileSize(elist'[j])
               /\ \A u \in ParallelSide', v \in SerialSide' \cup Listed' :
                    FileSize(v) <= FileSize(u)
    <3>1. \A i \in 1 .. Len(elist') : i \in 1 .. Len(elist)
      BY <1>6
    <3>. QED
      BY <1>6, <1>7, <2>1, <3>1 DEF IInv, LargestTaken
  <2>. QED
    BY <1>1, <1>2, <2>1 DEF LargestTaken
<1>. QED
  BY <1>9, <1>10, <1>11, <1>12, <1>13, <1>14 DEF IInv

\* An extraction from an empty list: the parallel share is larger than the list
\* has been.
LEMMA ListTooShort ==
  ASSUME IInv, PExtract \/ SExtract, elist = <<>>
  PROVE  /\ net' = "cancelled" /\ Share > taskCount /\ initiated # 0
         /\ UNCHANGED <<config, initiated, extract, counting, control, places,
                        outStruct>>
<1>1. /\ extracting = 1
      /\ parallel > 0 \/ (parallel = 0 /\ serial > 0)
  BY DEF PExtract, SExtract, ParallelRemains, SerialTurn
<1>2. Len(elist) = 0 /\ parallel \in Nat /\ serial \in Nat /\ Share \in Nat
      /\ taskCount \in Nat
  BY SharesFit, TasksAreFinite DEF IInv, TypeOK
<1>3. ~ (Share <= taskCount) /\ initiated # 0
  BY <1>1, <1>2 DEF IInv, ListMatchesShares, TokensAgree
<1>. QED
  BY <1>2, <1>3 DEF PExtract, SExtract, extract, places

\* Ending the net with an error changes nothing else.
LEMMA CancelIInv ==
  ASSUME IInv, TypeOK', net = "running", net' = "cancelled", initiated # 0,
         UNCHANGED <<config, initiated, extract, counting, control, places,
                     outStruct>>,
         (pJobs \cup sJobs) \cap Failing # {} \/ Share > taskCount
  PROVE  IInv'
<1>1. /\ Task' = Task /\ Share' = Share /\ \A u : FileSize(u)' = FileSize(u)
      /\ UNCHANGED <<taskCount, percentage, sortInput, ssi>>
  BY OptionsStay
<1>2. UNCHANGED <<extracting, parallel, serial, elist, pTasks, pJobs, sTasks,
                  sJobs, results>>
  BY DEF extract, places
<1>3. UNCHANGED <<Listed, Underway, Written, ParallelSide, SerialSide>>
  BY <1>1, <1>2 DEF Listed, Underway, Written, ParallelSide, SerialSide
<1>4. EachTaskOnce' /\ ControlExact'
  BY <1>1, <1>2, <1>3 DEF IInv, EachTaskOnce, ControlExact
<1>5. ListMatchesShares' /\ LargestTaken'
  BY <1>1, <1>2, <1>3 DEF IInv, ListMatchesShares, LargestTaken, FileSize
<1>6. TokensAgree'
  BY <1>2, <1>3 DEF IInv, TokensAgree
<1>7. DoneMeansWritten' /\ CancelledOnlyByFailure'
  BY <1>1, <1>2 DEF DoneMeansWritten, CancelledOnlyByFailure, Share
<1>. QED
  BY <1>4, <1>5, <1>6, <1>7 DEF IInv

\* When both shares are used up so is the list.
LEMMA DoneExtractIInv == ASSUME IInv, TypeOK', DoneExtract PROVE IInv'
<1>1. /\ net = "running" /\ net' = "running" /\ extracting = 1 /\ extracting' = 0
      /\ parallel = 0 /\ serial = 0 /\ elist' = <<>>
      /\ UNCHANGED <<config, initiated, parallel, serial, counting, control,
                     pTasks, pJobs, sTasks, sJobs, results, outStruct>>
  BY DEF DoneExtract, NothingToExtract, places
<1>2. elist = <<>>
  <2>1. /\ elist \in Seq(Task) /\ Len(elist) \in Nat /\ Share \in Nat
        /\ taskCount \in Nat
    BY SharesFit, TasksAreFinite DEF IInv, TypeOK
  <2>2. Len(elist) = 0
    BY <1>1, <2>1 DEF IInv, ListMatchesShares
  <2>. QED
    BY <2>1, <2>2
<1>3. /\ Task' = Task /\ Share' = Share /\ \A u : FileSize(u)' = FileSize(u)
      /\ UNCHANGED <<taskCount, percentage, sortInput, ssi>>
  BY <1>1, OptionsStay
<1>4. UNCHANGED <<Listed, Underway, Written, ParallelSide, SerialSide>>
  BY <1>1, <1>2, <1>3 DEF Listed, Underway, Written, ParallelSide, SerialSide
<1>5. EachTaskOnce' /\ ControlExact' /\ ListMatchesShares' /\ LargestTaken'
  BY <1>1, <1>2, <1>3, <1>4
  DEF IInv, EachTaskOnce, ControlExact, ListMatchesShares, LargestTaken
<1>6. TokensAgree'
  BY <1>1, <1>4 DEF IInv, TokensAgree
<1>7. DoneMeansWritten' /\ CancelledOnlyByFailure'
  BY <1>1 DEF DoneMeansWritten, CancelledOnlyByFailure
<1>. QED
  BY <1>5, <1>6, <1>7 DEF IInv

\* A problem moves on between the places of its side, or becomes a result.
LEMMA MoveIInv ==
  ASSUME IInv, TypeOK', net = "running", Underway # {},
         UNCHANGED <<config, initiated, extract, counting, control, net>>,
         Underway' \cup Written' = Underway \cup Written,
         Underway' \cap Written' = {},
         pTasks' \cap pJobs' = {}, sTasks' \cap sJobs' = {},
         ParallelSide' = ParallelSide, SerialSide' = SerialSide,
         results' \subseteq Written',
         (Task \ Written') \cup results' = (Task \ Written) \cup results
  PROVE  IInv'
<1>1. /\ Task' = Task /\ Share' = Share /\ \A u : FileSize(u)' = FileSize(u)
      /\ UNCHANGED <<taskCount, percentage, sortInput, ssi>>
  BY OptionsStay
<1>2. UNCHANGED <<extracting, parallel, serial, elist, Listed>>
  BY DEF extract, Listed
<1>3. initiated # 0
  BY DEF IInv, TokensAgree
<1>4. EachTaskOnce'
  <2>1. /\ Listed \cup Underway \cup Written = Task
        /\ Listed \cap (Underway \cup Written) = {}
        /\ ParallelSide \cap SerialSide = {}
        /\ \A i, j \in 1 .. Len(elist) : i # j => elist[i] # elist[j]
    BY <1>3 DEF IInv, EachTaskOnce
  <2>2. /\ Listed \cup Underway' \cup Written' = Task
        /\ Listed \cap (Underway' \cup Written') = {}
    BY <2>1
  <2>. QED
    BY <1>1, <1>2, <2>1, <2>2 DEF EachTaskOnce
<1>5. ControlExact'
  BY <1>1 DEF IInv, ControlExact
<1>6. ListMatchesShares' /\ LargestTaken'
  BY <1>1, <1>2 DEF IInv, ListMatchesShares, LargestTaken, FileSize
<1>7. TokensAgree'
  BY <1>2, <1>3 DEF IInv, TokensAgree
<1>8. DoneMeansWritten' /\ CancelledOnlyByFailure'
  BY DEF DoneMeansWritten, CancelledOnlyByFailure
<1>. QED
  BY <1>4, <1>5, <1>6, <1>7, <1>8 DEF IInv

\* The problems that are under way have not been written, and stay on their side.
LEMMA UnderwayFacts ==
  ASSUME IInv, Underway # {}
  PROVE  /\ Underway \cap Written = {} /\ Underway \subseteq Task
         /\ pTasks \cap pJobs = {} /\ sTasks \cap sJobs = {}
         /\ ParallelSide \cap SerialSide = {} /\ results \subseteq Written
BY DEF IInv, TokensAgree, EachTaskOnce

LEMMA BeginPComputeIInv ==
  ASSUME IInv, TypeOK', NEW t \in Task, BeginPCompute(t) PROVE IInv'
<1>1. /\ net = "running" /\ t \in pTasks
      /\ pTasks' = pTasks \ {t} /\ pJobs' = pJobs \cup {t}
      /\ UNCHANGED <<config, initiated, extract, counting, control, sTasks, sJobs,
                     results, outStruct, net>>
  BY DEF BeginPCompute
<1>2. t \in Underway
  BY <1>1 DEF Underway
<1>3. Task' = Task
  BY <1>1, OptionsStay
<1>4. /\ Underway' = Underway /\ Written' = Written
      /\ ParallelSide' = ParallelSide /\ SerialSide' = SerialSide
  BY <1>1, <1>3 DEF Underway, Written, ParallelSide, SerialSide
<1>5. pTasks' \cap pJobs' = {} /\ sTasks' \cap sJobs' = {}
  BY <1>1, <1>2, UnderwayFacts
<1>. QED
  BY <1>1, <1>2, <1>4, <1>5, UnderwayFacts, MoveIInv

LEMMA BeginSComputeIInv ==
  ASSUME IInv, TypeOK', NEW t \in Task, BeginSCompute(t) PROVE IInv'
<1>1. /\ net = "running" /\ t \in sTasks
      /\ sTasks' = sTasks \ {t} /\ sJobs' = sJobs \cup {t}
      /\ UNCHANGED <<config, initiated, extract, counting, control, pTasks, pJobs,
                     results, outStruct, net>>
  BY DEF BeginSCompute
<1>2. t \in Underway
  BY <1>1 DEF Underway
<1>3. Task' = Task
  BY <1>1, OptionsStay
<1>4. /\ Underway' = Underway /\ Written' = Written
      /\ ParallelSide' = ParallelSide /\ SerialSide' = SerialSide
  BY <1>1, <1>3 DEF Underway, Written, ParallelSide, SerialSide
<1>5. pTasks' \cap pJobs' = {} /\ sTasks' \cap sJobs' = {}
  BY <1>1, <1>2, UnderwayFacts
<1>. QED
  BY <1>1, <1>2, <1>4, <1>5, UnderwayFacts, MoveIInv

LEMMA EndPComputeIInv ==
  ASSUME IInv, TypeOK', NEW t \in Task, EndPCompute(t) PROVE IInv'
<1>1. /\ net = "running" /\ t \in pJobs /\ pJobs' = pJobs \ {t}
      /\ results' = results \cup {t}
      /\ outStruct' = [outStruct EXCEPT ![t] = "parallel"]
      /\ UNCHANGED <<config, initiated, extract, counting, control, pTasks, sTasks,
                     sJobs, net>>
  BY DEF EndPCompute
<1>2. t \in Underway /\ t \in ParallelSide
  BY <1>1 DEF Underway, ParallelSide
<1>3. Task' = Task /\ \A u \in Task : u \in 0 .. MaxTasks - 1
  BY <1>1, OptionsStay, TasksAreFinite DEF IInv, TypeOK
<1>4. /\ outStruct[t] = "none" /\ t \notin pTasks
      /\ t \notin sTasks /\ t \notin sJobs
  BY <1>1, <1>2, UnderwayFacts DEF Written, SerialSide
<1>5. \A u \in Task :
        outStruct'[u] = IF u = t THEN "parallel" ELSE outStruct[u]
  BY <1>1, <1>3 DEF IInv, TypeOK
<1>6. Written' = Written \cup {t}
  BY <1>3, <1>5 DEF Written
<1>7. Underway' = Underway \ {t}
  BY <1>1, <1>4 DEF Underway
<1>8. ParallelSide' = ParallelSide
  BY <1>1, <1>3, <1>5 DEF ParallelSide
<1>9. SerialSide' = SerialSide
  BY <1>1, <1>3, <1>4, <1>5 DEF SerialSide
<1>10. Underway' \cup Written' = Underway \cup Written /\ Underway' \cap Written' = {}
  BY <1>2, <1>6, <1>7, UnderwayFacts
<1>11. results' \subseteq Written' /\
       (Task \ Written') \cup results' = (Task \ Written) \cup results
  BY <1>1, <1>2, <1>6, UnderwayFacts
<1>12. pTasks' \cap pJobs' = {} /\ sTasks' \cap sJobs' = {}
  BY <1>1, <1>2, UnderwayFacts
<1>. QED
  BY <1>1, <1>2, <1>8, <1>9, <1>10, <1>11, <1>12, MoveIInv

LEMMA EndSComputeIInv ==
  ASSUME IInv, TypeOK', NEW t \in Task, EndSCompute(t) PROVE IInv'
<1>1. /\ net = "running" /\ t \in sJobs /\ sJobs' = sJobs \ {t}
      /\ results' = results \cup {t}
      /\ outStruct' = [outStruct EXCEPT ![t] = "serial"]
      /\ UNCHANGED <<config, initiated, extract, counting, control, pTasks, pJobs,
                     sTasks, net>>
  BY DEF EndSCompute
<1>2. t \in Underway /\ t \in SerialSide
  BY <1>1 DEF Underway, SerialSide
<1>3. Task' = Task /\ \A u \in Task : u \in 0 .. MaxTasks - 1
  BY <1>1, OptionsStay, TasksAreFinite DEF IInv, TypeOK
<1>4. /\ outStruct[t] = "none" /\ t \notin sTasks
      /\ t \notin pTasks /\ t \notin pJobs
  BY <1>1, <1>2, UnderwayFacts DEF Written, ParallelSide
<1>5. \A u \in Task :
        outStruct'[u] = IF u = t THEN "serial" ELSE outStruct[u]
  BY <1>1, <1>3 DEF IInv, TypeOK
<1>6. Written' = Written \cup {t}
  BY <1>3, <1>5 DEF Written
<1>7. Underway' = Underway \ {t}
  BY <1>1, <1>4 DEF Underway
<1>8. SerialSide' = SerialSide
  BY <1>1, <1>3, <1>5 DEF SerialSide
<1>9. ParallelSide' = ParallelSide
  BY <1>1, <1>3, <1>4, <1>5 DEF ParallelSide
<1>10. Underway' \cup Written' = Underway \cup Written /\ Underway' \cap Written' = {}
  BY <1>2, <1>6, <1>7, UnderwayFacts
<1>11. results' \subseteq Written' /\
       (Task \ Written') \cup results' = (Task \ Written) \cup results
  BY <1>1, <1>2, <1>6, UnderwayFacts
<1>12. pTasks' \cap pJobs' = {} /\ sTasks' \cap sJobs' = {}
  BY <1>1, <1>2, UnderwayFacts
<1>. QED
  BY <1>1, <1>2, <1>8, <1>9, <1>10, <1>11, <1>12, MoveIInv

\* collect counts a result down and takes it away.
LEMMA CollectIInv ==
  ASSUME IInv, TypeOK', NEW t \in Task, Collect(t) PROVE IInv'
<1>1. /\ net = "running" /\ t \in results /\ counting = 1
      /\ results' = results \ {t} /\ control' = control - 1
      /\ UNCHANGED <<config, initiated, extracting, parallel, serial, elist,
                     counting, pTasks, pJobs, sTasks, sJobs, outStruct, net>>
  BY DEF Collect, CountDown, extract
<1>2. /\ Task' = Task /\ Share' = Share /\ \A u : FileSize(u)' = FileSize(u)
      /\ UNCHANGED <<taskCount, percentage, sortInput, ssi>>
  BY <1>1, OptionsStay
<1>3. UNCHANGED <<Listed, Underway, Written, ParallelSide, SerialSide>>
  BY <1>1, <1>2 DEF Listed, Underway, Written, ParallelSide, SerialSide
<1>4. initiated = 1
  BY <1>1 DEF IInv, TokensAgree
<1>5. EachTaskOnce'
  BY <1>1, <1>2, <1>3, <1>4 DEF IInv, EachTaskOnce
<1>6. ControlExact'
  <2>1. results \subseteq Written /\ Written \subseteq Task
    BY <1>4 DEF IInv, EachTaskOnce, Written
  <2>2. (Task \ Written) \cup results' = ((Task \ Written) \cup results) \ {t}
    BY <1>1, <2>1
  <2>3. IsFiniteSet((Task \ Written) \cup results)
    BY <2>1, TasksAreFinite, FS_Subset DEF IInv, TypeOK
  <2>4. Cardinality((Task \ Written) \cup results')
          = Cardinality((Task \ Written) \cup results) - 1
    BY <1>1, <2>2, <2>3, FS_RemoveElement
  <2>. QED
    BY <1>1, <1>2, <1>3, <2>4 DEF IInv, ControlExact
<1>7. ListMatchesShares' /\ LargestTaken'
  BY <1>1, <1>2, <1>3 DEF IInv, ListMatchesShares, LargestTaken, FileSize
<1>8. TokensAgree'
  BY <1>1, <1>3, <1>4 DEF IInv, TokensAgree
<1>9. DoneMeansWritten' /\ CancelledOnlyByFailure'
  BY <1>1 DEF DoneMeansWritten, CancelledOnlyByFailure
<1>. QED
  BY <1>5, <1>6, <1>7, <1>8, <1>9 DEF IInv

\* Nothing is left to be counted: every problem has been written and collected.
LEMMA NothingLeft ==
  ASSUME IInv, counting = 1, AllCollected
  PROVE  Written = Task /\ Underway = {} /\ results = {}
<1>1. initiated # 0
  BY DEF IInv, TokensAgree
<1>2. results \subseteq Written /\ Written \subseteq Task
      /\ Underway \cap Written = {} /\ Underway \subseteq Task
  BY <1>1 DEF IInv, EachTaskOnce, Written
<1>3. IsFiniteSet((Task \ Written) \cup results)
  BY <1>2, TasksAreFinite, FS_Subset DEF IInv, TypeOK
<1>4. (Task \ Written) \cup results = {}
  BY <1>3, FS_EmptySet DEF IInv, ControlExact, AllCollected
<1>. QED
  BY <1>2, <1>4

LEMMA FinishIInv == ASSUME IInv, TypeOK', Finish PROVE IInv'
<1>1. /\ net = "running" /\ counting = 1 /\ AllCollected
      /\ counting' = 0 /\ initiated' = 2 /\ net' = "DONE"
      /\ UNCHANGED <<config, extracting, parallel, serial, elist, control, pTasks,
                     pJobs, sTasks, sJobs, results, outStruct>>
  BY DEF Finish, extract, places
<1>2. /\ Task' = Task /\ Share' = Share /\ \A u : FileSize(u)' = FileSize(u)
      /\ UNCHANGED <<taskCount, percentage, sortInput, ssi>>
  BY <1>1, OptionsStay
<1>3. UNCHANGED <<Listed, Underway, Written, ParallelSide, SerialSide>>
  BY <1>1, <1>2 DEF Listed, Underway, Written, ParallelSide, SerialSide
<1>4. initiated = 1
  BY <1>1 DEF IInv, TokensAgree
<1>5. EachTaskOnce'
  BY <1>1, <1>2, <1>3, <1>4 DEF IInv, EachTaskOnce
<1>6. ListMatchesShares' /\ LargestTaken'
  BY <1>1, <1>2, <1>3 DEF IInv, ListMatchesShares, LargestTaken, FileSize
<1>7. TokensAgree' /\ ControlExact' /\ CancelledOnlyByFailure'
  BY <1>1 DEF IInv, TokensAgree, ControlExact, CancelledOnlyByFailure
<1>8. DoneMeansWritten'
  BY <1>1, <1>2, <1>3, NothingLeft DEF DoneMeansWritten
<1>. QED
  BY <1>5, <1>6, <1>7, <1>8 DEF IInv

-----------------------------------------------------------------------------
(***************************************************************************)
(* The theorems.                                                           *)
(***************************************************************************)

LEMMA StepIInv == ASSUME IInv, [Next]_vars PROVE IInv'
<1>0. TypeOK'
  BY TypeStep DEF IInv
<1>1. CASE Initialize
  BY <1>0, <1>1, InitializeIInv
<1>2. CASE PExtract
  <2>1. CASE elist # <<>>
    BY <1>0, <1>2, <2>1, PExtractIInv
  <2>2. CASE elist = <<>>
    <3>1. net = "running"
      BY <1>2 DEF PExtract
    <3>. QED
      BY <1>0, <1>2, <2>2, <3>1, ListTooShort, CancelIInv
  <2>. QED
    BY <2>1, <2>2
<1>3. CASE SExtract
  <2>1. CASE elist # <<>>
    BY <1>0, <1>3, <2>1, SExtractIInv
  <2>2. CASE elist = <<>>
    <3>1. net = "running"
      BY <1>3 DEF SExtract
    <3>. QED
      BY <1>0, <1>3, <2>2, <3>1, ListTooShort, CancelIInv
  <2>. QED
    BY <2>1, <2>2
<1>4. CASE DoneExtract
  BY <1>0, <1>4, DoneExtractIInv
<1>5. ASSUME NEW t \in Task, BeginPCompute(t) PROVE IInv'
  BY <1>0, <1>5, BeginPComputeIInv
<1>6. ASSUME NEW t \in Task, EndPCompute(t) PROVE IInv'
  BY <1>0, <1>6, EndPComputeIInv
<1>7. ASSUME NEW t \in Task, BeginSCompute(t) PROVE IInv'
  BY <1>0, <1>7, BeginSComputeIInv
<1>8. ASSUME NEW t \in Task, EndSCompute(t) PROVE IInv'
  BY <1>0, <1>8, EndSComputeIInv
<1>9. ASSUME NEW t \in Task, Fail(t) PROVE IInv'
  <2>1. Underway # {}
    BY <1>9 DEF Fail, Underway
  <2>2. initiated # 0
    BY <2>1 DEF IInv, TokensAgree
  <2>. QED
    BY <1>0, <1>9, <2>2, CancelIInv DEF Fail
<1>10. ASSUME NEW t \in Task, Collect(t) PROVE IInv'
  BY <1>0, <1>10, CollectIInv
<1>11. CASE Finish
  BY <1>0, <1>11, FinishIInv
<1>12. CASE UNCHANGED vars
  <2>1. /\ UNCHANGED <<taskCount, percentage, sortInput, ssi, initiated, extracting,
                       parallel, serial, elist, counting, control, pTasks, pJobs,
                       sTasks, sJobs, results, outStruct, net>>
    BY <1>12 DEF vars, config, extract, places
  <2>2. Task' = Task /\ Share' = Share
    BY <2>1 DEF Task, Share
  <2>3. UNCHANGED <<Listed, Underway, Written, ParallelSide, SerialSide>>
    BY <2>1, <2>2 DEF Listed, Underway, Written, ParallelSide, SerialSide
  <2>4. EachTaskOnce' /\ ControlExact' /\ DoneMeansWritten' /\ TokensAgree'
    BY <2>1, <2>2, <2>3
    DEF IInv, EachTaskOnce, ControlExact, DoneMeansWritten, TokensAgree
  <2>5. ListMatchesShares' /\ LargestTaken' /\ CancelledOnlyByFailure'
    BY <2>1, <2>2, <2>3
    DEF IInv, ListMatchesShares, LargestTaken, FileSize, CancelledOnlyByFailure
  <2>. QED
    BY <1>0, <2>4, <2>5 DEF IInv
<1>. QED
  BY <1>1, <1>2, <1>3, <1>4, <1>5, <1>6, <1>7, <1>8, <1>9, <1>10, <1>11, <1>12
  DEF Next, Stopped

\* IInv holds whatever the order in which the net takes its steps.
THEOREM Invariance == Spec => []IInv
<1>. QED
  BY InitIInv, StepIInv, PTL DEF Spec

\* No problem is lost, computed twice, or computed on both sides.
THEOREM TasksComputedOnce == Spec => []EachTaskOnce
<1>1. IInv => EachTaskOnce
  BY DEF IInv
<1>. QED
  BY <1>1, Invariance, PTL

\* The count of place control is the number of results that are still to come.
THEOREM CountIsExact == Spec => []ControlExact
<1>1. IInv => ControlExact
  BY DEF IInv
<1>. QED
  BY <1>1, Invariance, PTL

\* The call is told that the net is done when all output files are written and
\* no worker is at work.
THEOREM DoneIsDone == Spec => []DoneMeansWritten
<1>1. IInv => DoneMeansWritten
  BY DEF IInv
<1>. QED
  BY <1>1, Invariance, PTL

\* Whatever the sizes and the share, the parallel side gets the largest inputs
\* when all of them are there to be sorted.
THEOREM ParallelGetsLargest == Spec => []LargestGoParallel
<1>1. IInv => LargestGoParallel
  <2> SUFFICES ASSUME IInv, sortInput = 1, Task \subseteq ssi,
                      NEW t \in ParallelSide, NEW u \in SerialSide \cup Listed
               PROVE  Size[t] >= Size[u]
    BY DEF LargestGoParallel, LargestFirst
  <2>1. t \in Task /\ u \in Task
    BY DEF IInv, TypeOK, ParallelSide, SerialSide, Listed
  <2>2. FileSize(u) <= FileSize(t)
    BY DEF IInv, LargestTaken
  <2>3. FileSize(t) = Size[t] /\ FileSize(u) = Size[u]
    BY <2>1 DEF FileSize
  <2>4. Size[t] \in Nat /\ Size[u] \in Nat
    BY <2>1, TasksAreFinite, SizeAssumption DEF IInv, TypeOK
  <2>. QED
    BY <2>2, <2>3, <2>4
<1>. QED
  BY <1>1, Invariance, PTL

\* The net never ends itself with an error over a list of the right length.
THEOREM CancelledForAReason == Spec => []CancelledOnlyByFailure
<1>1. IInv => CancelledOnlyByFailure
  BY DEF IInv
<1>. QED
  BY <1>1, Invariance, PTL

\* Every step of the net is one that TaskFarm allows, or is not seen there.
LEMMA StepIsOfFarm ==
  ASSUME IInv, [Next]_vars PROVE [Farm!FNext]_(Farm!fvars)
<1>1. ASSUME UNCHANGED <<taskCount, outStruct, net>> PROVE UNCHANGED Farm!fvars
  BY <1>1 DEF Farm!fvars, Written, Task
<1>2. CASE Initialize \/ DoneExtract
        \/ \E t \in Task : BeginPCompute(t) \/ BeginSCompute(t) \/ Collect(t)
  BY <1>1, <1>2
  DEF Initialize, DoneExtract, BeginPCompute, BeginSCompute, Collect, config
<1>3. ASSUME UNCHANGED <<taskCount, outStruct>>, net = "running",
             net' = "cancelled"
      PROVE  Farm!Abort
  BY <1>3 DEF Farm!Abort, Written, Task
<1>4. CASE PExtract \/ SExtract
  BY <1>1, <1>3, <1>4 DEF PExtract, SExtract, config, Farm!FNext
<1>5. CASE \E t \in Task : Fail(t)
  BY <1>3, <1>5 DEF Fail, config, Farm!FNext
<1>6. ASSUME NEW t \in Task, EndPCompute(t) \/ EndSCompute(t)
      PROVE  Farm!Write(t)
  <2>1. /\ net = "running" /\ net' = "running" /\ taskCount' = taskCount
        /\ t \in Underway
        /\ \E side \in {"parallel", "serial"} :
             outStruct' = [outStruct EXCEPT ![t] = side]
    BY <1>6 DEF EndPCompute, EndSCompute, Underway, config
  <2>2. t \notin Written
    BY <2>1, UnderwayFacts
  <2>3. \A u \in Task : u \in DOMAIN outStruct
    BY TasksAreFinite DEF IInv, TypeOK
  <2>4. Task' = Task
    BY <2>1 DEF Task
  <2>5. Written' = Written \cup {t}
    BY <2>1, <2>3, <2>4 DEF Written
  <2>. QED
    BY <2>1, <2>2, <2>4, <2>5 DEF Farm!Write
<1>7. CASE Finish
  <2>1. /\ net = "running" /\ net' = "DONE" /\ counting = 1 /\ AllCollected
        /\ UNCHANGED <<taskCount, outStruct>>
    BY <1>7 DEF Finish, config
  <2>2. Written = Task /\ Written' = Written /\ Task' = Task
    BY <2>1, NothingLeft DEF Written, Task
  <2>. QED
    BY <2>1, <2>2 DEF Farm!Report, Farm!FNext
<1>8. CASE UNCHANGED vars
  BY <1>1, <1>8 DEF vars, config
<1>. QED
  BY <1>2, <1>4, <1>5, <1>6, <1>7, <1>8 DEF Next, Stopped, Farm!FNext

\* The net over all problems implements TaskFarm, the workflow that PfdCall
\* builds upon.
THEOREM NetImplementsFarm == Spec => ImplementsFarm
<1>1. Init => Farm!FInit
  <2>1. Init => net = "running" /\ Written = {}
    BY InitIInv DEF Init, IInv, TokensAgree
  <2>. QED
    BY <2>1 DEF Farm!FInit
<1>2. IInv /\ [Next]_vars => [Farm!FNext]_(Farm!fvars)
  BY StepIsOfFarm
<1>. QED
  BY <1>1, <1>2, Invariance, PTL DEF Spec, ImplementsFarm, Farm!Spec

-----------------------------------------------------------------------------
(***************************************************************************)
(* The shares.                                                             *)
(***************************************************************************)

\* What p_extract has handed out and what it has still to hand out make up the
\* share that initialize has set.
SharesGiven ==
  /\ initiated = 0 => ParallelSide = {}
  /\ initiated # 0 => Cardinality(ParallelSide) + parallel = Share
  /\ extracting = 0 /\ initiated # 0 => parallel = 0

\* Only p_extract changes the parallel side.
LEMMA SharesStep ==
  ASSUME IInv, IInv', SharesGiven, [Next]_vars PROVE SharesGiven'
<1>0. /\ taskCount \in 0 .. MaxTasks /\ percentage \in Percentages
      /\ parallel \in Nat
  BY DEF IInv, TypeOK
<1>1. ASSUME UNCHANGED <<config, initiated, parallel>>, ParallelSide' = ParallelSide,
             extracting' = extracting \/ parallel = 0
      PROVE  SharesGiven'
  BY <1>1, OptionsStay DEF SharesGiven
<1>2. ASSUME UNCHANGED <<config, pTasks, pJobs, outStruct>>
      PROVE  ParallelSide' = ParallelSide
  BY <1>2, OptionsStay DEF ParallelSide
<1>3. CASE Initialize
  <2>1. /\ initiated = 0 /\ initiated' = 1 /\ extracting' = 1 /\ parallel' = Share
        /\ UNCHANGED <<config, pTasks, pJobs, outStruct>>
    BY <1>3 DEF Initialize, places, Share
  <2>2. ParallelSide' = {} /\ Share' = Share
    BY <1>2, <2>1, OptionsStay DEF SharesGiven
  <2>3. Cardinality({}) = 0 /\ Share \in Nat
    BY <1>0, FS_EmptySet, SharesFit
  <2>. QED
    BY <2>1, <2>2, <2>3 DEF SharesGiven
<1>4. CASE PExtract /\ elist # <<>>
  <2> DEFINE t == elist[Len(elist)]
  <2>1. /\ extracting = 1 /\ parallel' = parallel - 1
        /\ pTasks' = pTasks \cup {t}
        /\ UNCHANGED <<config, initiated, extracting, pJobs, outStruct>>
    BY <1>4 DEF PExtract, ShareOneLess
  <2>2. initiated # 0
    BY <2>1 DEF IInv, TokensAgree
  <2>3. t \in Listed /\ t \in Task
    <3>1. elist \in Seq(Task)
      BY DEF IInv, TypeOK
    <3>. QED
      BY <1>4, <3>1 DEF Listed
  <2> HIDE DEF t
  <2>4. ParallelSide' = ParallelSide \cup {t} /\ Share' = Share
    BY <2>1, OptionsStay DEF ParallelSide
  <2>5. t \notin ParallelSide
    BY <2>2, <2>3 DEF IInv, EachTaskOnce, ParallelSide, Underway, Written
  <2>6. IsFiniteSet(ParallelSide)
    BY <1>0, TasksAreFinite, FS_Subset DEF IInv, TypeOK, ParallelSide
  <2>7. Cardinality(ParallelSide') = Cardinality(ParallelSide) + 1
        /\ Cardinality(ParallelSide) \in Nat
    BY <2>4, <2>5, <2>6, FS_AddElement, FS_CardinalityType
  <2>. QED
    BY <1>0, <2>1, <2>2, <2>4, <2>7 DEF SharesGiven
<1>5. CASE (PExtract \/ SExtract) /\ elist = <<>>
  BY <1>1, <1>2, <1>5, ListTooShort DEF extract, places
<1>6. CASE SExtract /\ elist # <<>>
  BY <1>1, <1>2, <1>6 DEF SExtract
<1>7. CASE DoneExtract
  BY <1>1, <1>2, <1>7 DEF DoneExtract, NothingToExtract, places
<1>8. ASSUME NEW t \in Task, BeginPCompute(t) PROVE SharesGiven'
  <2>1. ParallelSide' = ParallelSide
    BY <1>8, OptionsStay DEF BeginPCompute, ParallelSide
  <2>. QED
    BY <1>1, <1>8, <2>1 DEF BeginPCompute, extract
<1>9. ASSUME NEW t \in Task, EndPCompute(t) PROVE SharesGiven'
  <2>1. /\ t \in pJobs /\ pJobs' = pJobs \ {t}
        /\ outStruct' = [outStruct EXCEPT ![t] = "parallel"]
        /\ UNCHANGED <<config, initiated, extract, pTasks>>
    BY <1>9 DEF EndPCompute
  <2>2. Task' = Task /\ \A u \in Task : u \in 0 .. MaxTasks - 1
    BY <1>0, <2>1, OptionsStay, TasksAreFinite
  <2>3. \A u \in Task :
          outStruct'[u] = IF u = t THEN "parallel" ELSE outStruct[u]
    BY <2>1, <2>2 DEF IInv, TypeOK
  <2>4. ParallelSide' = ParallelSide
    BY <2>1, <2>2, <2>3 DEF ParallelSide
  <2>. QED
    BY <1>1, <2>1, <2>4 DEF extract
<1>10. ASSUME NEW t \in Task, BeginSCompute(t) \/ Collect(t) \/ Fail(t)
       PROVE  SharesGiven'
  BY <1>1, <1>2, <1>10 DEF BeginSCompute, Collect, Fail, extract, places
<1>11. ASSUME NEW t \in Task, EndSCompute(t) PROVE SharesGiven'
  <2>1. /\ t \in sJobs
        /\ outStruct' = [outStruct EXCEPT ![t] = "serial"]
        /\ UNCHANGED <<config, initiated, extract, pTasks, pJobs>>
    BY <1>11 DEF EndSCompute
  <2>2. Task' = Task /\ \A u \in Task : u \in 0 .. MaxTasks - 1
    BY <1>0, <2>1, OptionsStay, TasksAreFinite
  <2>3. \A u \in Task :
          outStruct'[u] = IF u = t THEN "serial" ELSE outStruct[u]
    BY <2>1, <2>2 DEF IInv, TypeOK
  <2>4. t \notin ParallelSide
    BY <2>1, UnderwayFacts DEF Underway, SerialSide
  <2>5. ParallelSide' = ParallelSide
    BY <2>1, <2>2, <2>3, <2>4 DEF ParallelSide
  <2>. QED
    BY <1>1, <2>1, <2>5 DEF extract
<1>12. CASE Finish
  <2>1. /\ initiated # 0 /\ initiated' = 2 /\ ParallelSide' = ParallelSide
        /\ UNCHANGED <<config, extracting, parallel>>
    BY <1>2, <1>12 DEF Finish, IInv, TokensAgree, extract, places
  <2>. QED
    BY <2>1, OptionsStay DEF SharesGiven
<1>13. CASE UNCHANGED vars
  BY <1>1, <1>2, <1>13 DEF vars, extract, places
<1>. QED
  BY <1>3, <1>4, <1>5, <1>6, <1>7, <1>8, <1>9, <1>10, <1>11, <1>12, <1>13
  DEF Next, Stopped

\* The parallel side has its share when the net is done.
LEMMA DoneWithShares ==
  ASSUME IInv, SharesGiven, net = "DONE", Share <= taskCount
  PROVE  /\ Cardinality(ParallelSide) = Share
         /\ Cardinality(SerialSide) = taskCount - Share
<1>1. /\ taskCount \in Nat /\ IsFiniteSet(Task) /\ Cardinality(Task) = taskCount
      /\ Task \subseteq 0 .. MaxTasks - 1
  BY TasksAreFinite DEF IInv, TypeOK
<1>2. initiated # 0 /\ Written = Task
  BY DEF IInv, TokensAgree, DoneMeansWritten
<1>3. Listed = {} /\ ParallelSide \cap SerialSide = {}
  BY <1>2 DEF IInv, EachTaskOnce
<1>4. parallel = 0
  <2>1. elist \in Seq(Task) /\ parallel \in Nat /\ serial \in Nat
    BY DEF IInv, TypeOK
  <2>2. Len(elist) = 0
    <3>1. \A i \in 1 .. Len(elist) : elist[i] \in Listed
      BY DEF Listed
    <3>2. Len(elist) \in Nat /\ 1 .. Len(elist) = {}
      BY <1>3, <2>1, <3>1
    <3>. QED
      BY <3>2
  <2>. QED
    BY <1>2, <2>1, <2>2 DEF IInv, ListMatchesShares, SharesGiven, TypeOK
<1>5. ParallelSide \cup SerialSide = Task
  <2>1. ParallelSide \subseteq Task /\ SerialSide \subseteq Task
    BY DEF IInv, TypeOK, ParallelSide, SerialSide
  <2>2. \A t \in Task : outStruct[t] = "parallel" \/ outStruct[t] = "serial"
    BY <1>1, <1>2 DEF IInv, TypeOK, Written
  <2>. QED
    BY <2>1, <2>2 DEF ParallelSide, SerialSide
<1>6. Cardinality(ParallelSide) = Share
  <2>1. IsFiniteSet(ParallelSide)
    BY <1>1, <1>5, FS_Subset
  <2>. QED
    BY <1>2, <1>4, <2>1, FS_CardinalityType DEF SharesGiven
<1>7. SerialSide = Task \ ParallelSide
  BY <1>3, <1>5
<1>8. Cardinality(Task \ ParallelSide)
        = Cardinality(Task) - Cardinality(Task \cap ParallelSide)
  BY <1>1, FS_Difference
<1>9. Task \cap ParallelSide = ParallelSide
  BY <1>5
<1>. QED
  BY <1>1, <1>6, <1>7, <1>8, <1>9

\* Up to the first number of problems without a float of its own, a documented
\* percentage has a share that the list can give.
LEMMA ShareIsInList ==
  ASSUME IInv, MaxTasks < 2^24, percentage <= 100 PROVE Share <= taskCount
<1>1. taskCount \in Nat /\ taskCount < Power[24] /\ percentage \in 0 .. 100
  BY MaxTasksAssumption, PercentagesAssumption, PowerValues DEF IInv, TypeOK
<1>. QED
  BY <1>1, ShareIsAtMostAll DEF Share

\* Whatever the order of the steps, a net that is done has handled exactly the
\* share of the percentage in parallel and all others serially.
THEOREM SharesAreDealt ==
  ASSUME MaxTasks < 2^24 PROVE Spec => []SharesDealt
<1>1. Init => SharesGiven
  BY InitType, TasksAreFinite DEF Init, SharesGiven, ParallelSide, TypeOK
<1>2. IInv /\ IInv' /\ SharesGiven /\ [Next]_vars => SharesGiven'
  BY SharesStep
<1>3. IInv /\ SharesGiven => SharesDealt
  BY ShareIsInList, DoneWithShares DEF SharesDealt, Share
<1>. QED
  BY <1>1, <1>2, <1>3, Invariance, PTL DEF Spec

\* With a documented percentage only a failing decomposition ends the net with
\* an error: the list never is too short for the shares.
THEOREM OnlyFailuresCancel ==
  ASSUME MaxTasks < 2^24
  PROVE  Spec => [](net = "cancelled" /\ percentage <= 100
                      => (pJobs \cup sJobs) \cap Failing # {})
<1>1. ASSUME IInv, net = "cancelled", percentage <= 100
      PROVE  (pJobs \cup sJobs) \cap Failing # {}
  <2>1. Share \in Nat /\ taskCount \in Nat
    BY <1>1, SharesFit, TasksAreFinite DEF IInv, TypeOK
  <2>2. ~ (Share > taskCount)
    BY <1>1, <2>1, ShareIsInList
  <2>. QED
    BY <1>1, <2>2 DEF IInv, CancelledOnlyByFailure, Share
<1>2. IInv => (net = "cancelled" /\ percentage <= 100
                 => (pJobs \cup sJobs) \cap Failing # {})
  BY <1>1
<1>. QED
  BY <1>2, Invariance, PTL
=============================================================================
