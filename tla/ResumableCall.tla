---------------------------- MODULE ResumableCall ----------------------------
(***************************************************************************)
(* What calls that share their directories promise: a call is answered     *)
(* when the results of all its entries are there, and rejected only for a  *)
(* reason; results are never lost, so a call that is cut off, or rejected  *)
(* for one of its entries, is resumed by the next one where it was.        *)
(***************************************************************************)
EXTENDS Sequences

CONSTANTS
  Requests,  \* what a call may ask for: its entries, and a flaw or "none"
  Failing    \* the entries whose decomposition raises an error

VARIABLES
  request,   \* what the last call has asked for
  results,   \* the entries whose result is there
  status     \* "open", "answered", "rejected" or "closed"

rvars == <<request, results, status>>

\* The entries of the last call.
Asked == {request.entries[k] : k \in DOMAIN request.entries}

\* A percentage above 100 may be noticed too late, or not at all, and the
\* temporary directory only matters when there is something to write.
Startable ==
  \/ request.flaw \in {"none", "percentage"}
  \/ request.flaw = "tempdir" /\ Asked = {}

RInit ==
  /\ request \in Requests
  /\ results = {}
  /\ status = "closed"

Ask ==
  /\ status # "open"
  /\ request' \in Requests
  /\ status' = "open"
  /\ UNCHANGED results

Store ==
  /\ status = "open"
  /\ Startable
  /\ \E e \in Asked \ (results \cup Failing) : results' = results \cup {e}
  /\ UNCHANGED <<request, status>>

Answer ==
  /\ status = "open"
  /\ Startable
  /\ Asked \subseteq results
  /\ status' = "answered"
  /\ UNCHANGED <<request, results>>

Reject ==
  /\ status = "open"
  /\ request.flaw # "none" \/ Asked \cap Failing # {}
  /\ status' = "rejected"
  /\ UNCHANGED <<request, results>>

CutOff ==
  /\ status = "open"
  /\ status' = "closed"
  /\ UNCHANGED <<request, results>>

Work == Store \/ Answer \/ Reject

RNext == Ask \/ Work \/ CutOff

\* A call that stays open is worked on; nobody has to make another one.
Spec == RInit /\ [][RNext]_rvars /\ WF_rvars(Work)
=============================================================================
