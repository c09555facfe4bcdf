-------------------------- MODULE PublicationPermit --------------------------
(***************************************************************************)
(* What the delivery of scheduled posts promises about the outside world,  *)
(* without its rows, executions and queues: a post is published only by    *)
(* using up a permit, and only an approval (scheduling the post, or an     *)
(* operator who explicitly reschedules an uncertain attempt) grants one.   *)
(* A permit may be withdrawn or lost: delivery is at most once.            *)
(***************************************************************************)
EXTENDS Naturals

CONSTANT Posts

VARIABLES
  granted,    \* [Posts -> Nat]: approvals given so far
  permits,    \* [Posts -> Nat]: approvals not yet used, withdrawn or lost
  published   \* [Posts -> Nat]: times the post appeared on Threads

permitVars == <<granted, permits, published>>

Init ==
  /\ granted = [p \in Posts |-> 0]
  /\ permits = [p \in Posts |-> 0]
  /\ published = [p \in Posts |-> 0]

Grant(S) ==
  /\ granted' = [p \in Posts |-> IF p \in S THEN granted[p] + 1 ELSE granted[p]]
  /\ permits' = [p \in Posts |-> IF p \in S THEN permits[p] + 1 ELSE permits[p]]
  /\ published' = published

Withdraw(S) ==
  /\ \A p \in S : permits[p] > 0
  /\ permits' = [p \in Posts |-> IF p \in S THEN permits[p] - 1 ELSE permits[p]]
  /\ UNCHANGED <<granted, published>>

Publish(p) ==
  /\ permits[p] > 0
  /\ permits' = [permits EXCEPT ![p] = @ - 1]
  /\ published' = [published EXCEPT ![p] = @ + 1]
  /\ granted' = granted

Next ==
  \/ \E S \in SUBSET Posts : Grant(S) \/ Withdraw(S)
  \/ \E p \in Posts : Publish(p)

Spec == Init /\ [][Next]_permitVars
=============================================================================
