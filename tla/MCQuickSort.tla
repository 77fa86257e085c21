---------------------------- MODULE MCQuickSort ----------------------------
(***************************************************************************)
(* Instances of QuickSort for TLC.                                         *)
(***************************************************************************)
EXTENDS QuickSort

\* No file, an empty one, and larger ones.
SomeSizes == {-1, 0, 1, 2}
=============================================================================
