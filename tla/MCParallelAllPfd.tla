-------------------------- MODULE MCParallelAllPfd --------------------------
(***************************************************************************)
(* Instances of ParallelAllPfd for TLC.                                    *)
(***************************************************************************)
EXTENDS ParallelAllPfd

\* Two inputs of the same size, the largest not at an end of the list.
MCSize == [t \in 0 .. MaxTasks - 1 |-> IF t = 1 THEN 3 ELSE IF t = 0 THEN 2 ELSE 1]

\* Every input is there as an .ssi file.
AllConverted == {0 .. MaxTasks - 1}

\* The first call over .txt inputs: none has been converted.
NoneConverted == {{}}
=============================================================================
