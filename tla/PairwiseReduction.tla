------------------------- MODULE PairwiseReduction -------------------------
(***************************************************************************)
(* What one decomposition step promises, with neither chunk files nor      *)
(* places: the input terms are partitioned into blocks, two blocks at a    *)
(* time become one, and when one block is left it is handed on.  A step    *)
(* that is switched off hands the input on as it is.  Joining two blocks   *)
(* that cancel ends the computation.                                       *)
(***************************************************************************)
EXTENDS Integers, FiniteSets

CONSTANTS SplitMax, Cancelling

VARIABLES input, blocks, out, phase

reductionVars == <<input, blocks, out, phase>>

IsPartition(P, S) ==
  /\ {} \notin P
  /\ UNION P = S
  /\ \A A, B \in P : A # B => A \cap B = {}

RInit == blocks = {} /\ out = {} /\ phase = "waiting"

HandOnAsIs ==
  /\ phase = "waiting"
  /\ phase' = "done"
  /\ out' = input
  /\ UNCHANGED <<input, blocks>>

Split ==
  /\ phase = "waiting"
  /\ phase' = "reducing"
  /\ IsPartition(blocks', input)
  /\ Cardinality(blocks') <= SplitMax
  /\ UNCHANGED <<input, out>>

Join ==
  /\ phase = "reducing"
  /\ \E A, B \in blocks :
       /\ A # B
       /\ A \cup B \notin Cancelling
       /\ blocks' = (blocks \ {A, B}) \cup {A \cup B}
  /\ UNCHANGED <<input, out, phase>>

Cancel ==
  /\ phase = "reducing"
  /\ \E A, B \in blocks : A # B /\ A \cup B \in Cancelling
  /\ phase' = "aborted"
  /\ blocks' = {}
  /\ UNCHANGED <<input, out>>

Finish ==
  /\ phase = "reducing"
  /\ blocks = {input}
  /\ phase' = "done"
  /\ out' = input
  /\ blocks' = {}
  /\ UNCHANGED input

RNext == HandOnAsIs \/ Split \/ Join \/ Cancel \/ Finish

Spec == RInit /\ [][RNext]_reductionVars
=============================================================================
