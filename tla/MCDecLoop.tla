----------------------------- MODULE MCDecLoop -----------------------------
(***************************************************************************)
(* An instance of DecLoop for TLC.  The first factor has a common zero     *)
(* with the second and the second with the third, the first and the third  *)
(* have none, nor have all three: a certificate of all three leaves terms  *)
(* that are done and terms that need a second pass.                        *)
(***************************************************************************)
EXTENDS DecLoop

SomeFactors == <<4, 6, 9>>

PlusMinusOne == {1, -1}
=============================================================================
