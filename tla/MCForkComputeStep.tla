------------------------- MODULE MCForkComputeStep -------------------------
(***************************************************************************)
(* Instances of ForkComputeStep for TLC.                                   *)
(***************************************************************************)
EXTENDS ForkComputeStep

\* Terms 0 and 1 decompose into the same fractions with opposite signs.
\* With six terms and five chunks term 0 is in a chunk with another, and every merge
\* goes through.
TwoCancel == {{0, 1}}
=============================================================================
