------------------------ MODULE MCScheduledDelivery ------------------------
(***************************************************************************)
(* ScheduledDelivery for TLC.  Row ids are numbers, because the selection  *)
(* is ordered by them; executions are model values.  No symmetry is        *)
(* declared: the run checks liveness.                                      *)
(***************************************************************************)
EXTENDS ScheduledDelivery

CONSTANTS second,    \* the row that joins the first one
          companion  \* the execution that runs beside another

\* Two scenes in one run.  Until the second row is created, two executions meet
\* at the first, with all that deletions and recoveries do to it.  Afterwards
\* one execution has two rows to choose from, of which the batch takes one.
Competing ==
  /\ pc[companion] = "idle"
  /\ deletion = {} /\ draft[second] = "none"
  /\ \A p \in Posts : removal[p] = "idle" /\ reopened[p] = 0 /\ ~row[p].cancelled
Scene == row[second].status = "absent" \/ Competing

ScenesSpec == Init /\ [][Next /\ Scene']_vars
FairScenesSpec == ScenesSpec /\ Fairness
=============================================================================
