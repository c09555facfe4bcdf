------------------------- MODULE MCHardeningIncidents -------------------------
(***************************************************************************)
(* HardeningIncidents for TLC.  `timeout' and `refused' are two failures   *)
(* of one route and one request; `blocked' is a failure of the client that *)
(* the provider caused.                                                    *)
(***************************************************************************)
EXTENDS HardeningIncidents, TLC

CONSTANTS timeout, refused

\* Every failure has a signature of its own.
OwnSignature == [f \in Failures |-> f]
SharedRoute == [f \in Failures |-> IF f \in {timeout, refused} THEN "server" ELSE f]
SharedRequest == [f \in Failures |-> IF f \in {timeout, refused} THEN "request" ELSE NoRequest]

Nothing == {{}}
AllAtOnce == {Kinds}

Symmetry == Permutations(Calls) \cup Permutations(Incidents)

-----------------------------------------------------------------------------
\* Incidents of different failures that have been recorded and taken as far as
\* their live verification by earlier calls.
LateRow(f, t, r) == [failure |-> f, target |-> t, blocking |-> TRUE, state |-> LiveVerified,
                     evidence |-> Required(LiveVerified), rule |-> r, closedBy |-> "nobody"]
LateFailure == CHOOSE f \in [Incidents -> Failures] : \A i, j \in Incidents : i # j => f[i] # f[j]
LateInit ==
  /\ \E t \in [Incidents -> MaybeIncident], r \in [Incidents -> PromotedRules] :
       /\ \A i \in Incidents : t[i] # NoIncident => t[i] # i /\ LateFailure[i] \in Client
       /\ incident = [i \in Incidents |-> LateRow(LateFailure[i], t[i], r[i])]
  /\ journal = [i \in Incidents |-> {<<s - 1, s>> : s \in Detected..LiveVerified}]
  /\ job = [c \in Callers |-> NoJob]
  /\ crashes = 0
  /\ unseen = [i \in Incidents |-> {}]
  /\ lost = {}
LateSpec == LateInit /\ [][Next]_vars
LateFairSpec == LateSpec /\ Fairness
=============================================================================
