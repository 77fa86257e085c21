----------------------- MODULE MCParallelShareProofs ------------------------
(***************************************************************************)
(* The claims about the shares, for as many tasks as an unsigned int and   *)
(* the accuracy of a float allow.                                          *)
(***************************************************************************)
EXTENDS MCParallelShare, ParallelShareProofs

Arguments ==
  /\ parallelism \in {"waitAll", "intertwined", "size_strategy"}
  /\ percentage \in 0 .. 100
  /\ count \in 0 .. MaxCount

\* The arguments are chosen once.
LEMMA ArgumentsStay == Spec => []Arguments
<1>1. Init => Arguments
  BY DEF Init, Arguments
<1>2. Arguments /\ [Next]_vars => Arguments'
  BY DEF Arguments, Next, vars
<1>. QED
  BY <1>1, <1>2, PTL DEF Spec

LEMMA AskedInRange ==
  ASSUME Arguments
  PROVE  /\ Asked \in 0 .. 100 /\ count \in Nat /\ count <= MaxCount
         /\ parallelism = "waitAll" => Asked = 0
         /\ parallelism = "intertwined" => Asked = 100
BY MaxCountAssumption DEF Arguments, Asked, Percentage

\* The serial share is what the parallel one leaves.
LEMMA SerialIsTheRest ==
  ASSUME Arguments, MaxCount < 2^24
  PROVE  /\ Parallel \in 0 .. count /\ Serial = count - Parallel
         /\ Asked = 0 => Parallel = 0
         /\ Asked = 100 => Parallel = count
<1>1. count < Power[24] /\ count \in Nat /\ count < Word
  BY AskedInRange, PowerValues, MaxCountAssumption, WordAssumption
<1>2. /\ Parallel \in 0 .. count
      /\ Asked = 0 => Parallel = 0
      /\ Asked = 100 => Parallel = count
  BY <1>1, AskedInRange, ShareIsAtMostAll DEF Parallel
<1>3. (count - Parallel) % Word = count - Parallel
  <2>1. count - Parallel \in 0 .. Word - 1
    BY <1>1, <1>2, WordAssumption
  <2>. QED
    BY <2>1, WordAssumption
<1>. QED
  BY <1>2, <1>3 DEF Serial, SerialCount, Parallel

\* Up to 65536 tasks no percentage hands out more than p/100 of them, or one
\* less than that, and the two shares are all tasks.
THEOREM SharesAlwaysAddUp ==
  ASSUME MaxCount <= 2^16 PROVE Spec => []SharesAddUp
<1>1. Arguments => SharesAddUp
  <2> SUFFICES ASSUME Arguments PROVE SharesAddUp
    OBVIOUS
  <2>1. MaxCount < 2^24 /\ count <= Power[16]
    BY AskedInRange, PowerValues, MaxCountAssumption
  <2>2. /\ Parallel <= (Asked * count) \div 100
        /\ Parallel >= (Asked * count) \div 100 - 1
    BY <2>1, AskedInRange, ShareIsNearProportion DEF Parallel
  <2>3. Parallel + Serial = count
    BY <2>1, AskedInRange, SerialIsTheRest
  <2>. QED
    BY <2>2, <2>3 DEF SharesAddUp
<1>. QED
  BY <1>1, ArgumentsStay, PTL

\* Up to the first number without a float of its own the two strategies that
\* override the percentage hand out no task and every task.
THEOREM StrategiesAlwaysExact ==
  ASSUME MaxCount < 2^24 PROVE Spec => []StrategiesAreExact
<1>1. Arguments => StrategiesAreExact
  BY AskedInRange, SerialIsTheRest DEF StrategiesAreExact
<1>. QED
  BY <1>1, ArgumentsStay, PTL
=============================================================================
