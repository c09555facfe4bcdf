---------------------- MODULE MCDecisionAuthorization ----------------------
(***************************************************************************)
(* DecisionAuthorization for TLC.  `plan' authorizes the canary tool once, *)
(* `other' none of the tools that are called here.                         *)
(***************************************************************************)
EXTENDS DecisionAuthorization

CONSTANTS plan, other

OneCanary == [d \in Decisions |->
  [t \in Tools |-> IF d = plan /\ t = CanaryTool THEN 1 ELSE 0]]

\* Two scenes in one run.  Tool calls and the cron race over `plan' alone, and an
\* answer of the owner is half-way while one of the calls is under way, or none;
\* or no call has used `plan' and the cron lists it beside `other', which the
\* owner may approve once, before or after `plan', and resolve otherwise.  Neither
\* scene holds the cron back, whose steps are the fair ones.
Racing ==
  /\ decision[other] = "absent"
  /\ (\A c \in Calls : pc[c] # "idle") => \A o \in Owners : request[o] = NoRequest
Listed ==
  /\ approvals[other] <= 1
  /\ \A c \in Calls : pc[c] = "idle"
  /\ \A t \in Tools : calls[plan][t] = 0
Scene == Racing \/ Listed

ScenesSpec == Init /\ [][Next /\ Scene']_vars
FairScenesSpec == ScenesSpec /\ Fairness
=============================================================================
