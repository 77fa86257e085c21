---------------------------- MODULE MCPfdCompute ----------------------------
(***************************************************************************)
(* Instances of PfdCompute for TLC.                                        *)
(***************************************************************************)
EXTENDS PfdCompute

\* An active step after an active one, after a skipped one, and first; a
\* skipped step after either; the last step active and skipped.
SomeSettings ==
  {[k \in Steps |-> IF k = 3 THEN 0 ELSE 1],
   [k \in Steps |-> IF k = 3 THEN 1 ELSE 0],
   [k \in Steps |-> 0]}

AllSteps == {[k \in Steps |-> 1]}
=============================================================================
