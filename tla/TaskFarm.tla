------------------------------ MODULE TaskFarm ------------------------------
(***************************************************************************)
(* What a run over a list of problems promises: the output of each problem *)
(* is written once, the run is reported as done when every output is       *)
(* there, and nothing is written after that.  A run may be aborted as long *)
(* as it has not been reported.                                            *)
(***************************************************************************)

VARIABLES
  tasks,     \* the problems
  written,   \* those whose output has been written
  phase      \* "working", "done" or "aborted"

fvars == <<tasks, written, phase>>

FInit == written = {} /\ phase = "working"

Write(t) ==
  /\ phase = "working"
  /\ t \in tasks \ written
  /\ written' = written \cup {t}
  /\ UNCHANGED <<tasks, phase>>

Report ==
  /\ phase = "working"
  /\ written = tasks
  /\ phase' = "done"
  /\ UNCHANGED <<tasks, written>>

Abort ==
  /\ phase = "working"
  /\ phase' = "aborted"
  /\ UNCHANGED <<tasks, written>>

FNext == (\E t \in tasks : Write(t)) \/ Report \/ Abort

Spec == FInit /\ [][FNext]_fvars
=============================================================================
