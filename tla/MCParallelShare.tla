--------------------------- MODULE MCParallelShare ---------------------------
(***************************************************************************)
(* ParallelShare over all documented percentages and up to MaxCount tasks: *)
(* a state is a choice of the arguments.                                   *)
(***************************************************************************)
EXTENDS ParallelShare

CONSTANT MaxCount   \* bound on the number of tasks
ASSUME MaxCountAssumption == MaxCount \in Nat /\ MaxCount < Word

VARIABLES parallelism, percentage, count
vars == <<parallelism, percentage, count>>

Init ==
  /\ parallelism \in {"waitAll", "intertwined", "size_strategy"}
  /\ percentage \in 0 .. 100
  /\ count \in 0 .. MaxCount

Next == UNCHANGED vars

Spec == Init /\ [][Next]_vars

Asked    == Percentage(parallelism, percentage)
Parallel == ParallelCount(Asked, count)
Serial   == SerialCount(Asked, count)

\* The float arithmetic never hands out more parallel tasks than p/100 of all,
\* loses at most one, and the serial share makes up for it: the two shares
\* empty the list exactly.
SharesAddUp ==
  /\ Parallel <= (Asked * count) \div 100
  /\ Parallel >= (Asked * count) \div 100 - 1
  /\ Parallel + Serial = count

\* waitAll has no internal parallelism on individual functions, intertwined
\* has it on every one, whatever percentage is configured.
StrategiesAreExact ==
  /\ parallelism = "waitAll" => Serial = count
  /\ parallelism = "intertwined" => Parallel = count

\* Readme2.md: under size_strategy "the p/100 largest of all input functions
\* should be processed with parallelism per individual function", at least where
\* p/100 of all is a whole number.
ShareIsAsDocumented ==
  (Asked * count) % 100 = 0 => Parallel = (Asked * count) \div 100
=============================================================================
