------------------------------ MODULE MCPfdCall ------------------------------
(***************************************************************************)
(* Instances of PfdCall for TLC.                                           *)
(***************************************************************************)
EXTENDS PfdCall

CONSTANTS e1, e2, bad

Sound(entries) == [entries |-> entries, flaw |-> "none"]

\* Calls about other entries, or the same ones in another order, with fewer
\* tasks, with none, with the same entry twice, with a failing one first or
\* last, one with each flaw, and one with no entry and no place to write to.
MCRequests ==
  {Sound(<<>>), Sound(<<bad>>), Sound(<<e2>>), Sound(<<e1, e2>>),
   Sound(<<e2, e2>>), Sound(<<e1, bad>>), Sound(<<bad, e1>>)}
  \cup {[entries |-> <<e2>>, flaw |-> f] : f \in Flaws}
  \cup {[entries |-> <<>>, flaw |-> "tempdir"]}
=============================================================================
