---------------------- MODULE ScheduledDelivery_proofs ----------------------
(***************************************************************************)
(* Proofs about ScheduledDelivery, for any number of posts and executions  *)
(* and any bounds.                                                         *)
(***************************************************************************)
EXTENDS ScheduledDelivery, FiniteSetTheorems, TLAPS

\* An execution that holds a row knows which one.
CurrentOK == \A w \in Workers : pc[w] \in {"checked"} \cup Attempting => current[w] \in Posts

TypeInv == TypeOK /\ CurrentOK

\* The conditional DELETE leaves rows of the table's type.
LEMMA DropApprovedType ==
  ASSUME row \in [Posts -> Row], NEW S, DropApproved(S)
  PROVE  row' \in [Posts -> Row]
<1>1. ASSUME NEW p \in Posts PROVE row'[p] \in Row
  <2>1. row[p] \in Row
    OBVIOUS
  <2>2. [row[p] EXCEPT !.status = "deleted"] \in Row
    BY <2>1 DEF Row, Statuses
  <2> QED BY <2>1, <2>2 DEF DropApproved
<1> QED BY <1>1 DEF DropApproved

\* The variables and the values they range over: every execution, row, draft
\* and counter stays in the set TypeOK gives it.
THEOREM TypeCorrect == Spec => []TypeInv
<1> USE DEF TypeInv, TypeOK, CurrentOK, Step, Attempting, NoPost
<1>1. Init => TypeInv
  BY BoundsAssumption
     DEF Init, Row, Statuses, Errors, Stamps, Times, DraftStatus, RemovalStep, NoId
<1>2. TypeInv /\ [Next]_vars => TypeInv'
  <2>0. SUFFICES ASSUME TypeInv, [Next]_vars PROVE TypeInv'
    OBVIOUS
  <2>row. row \in [Posts -> Row]
    BY <2>0
  <2> USE DEF rowVars, removalVars, workerVars, providerVars, Goto, NextRow, NoId
  <2>1. ASSUME NEW p \in Posts, NEW t \in Times, Create(p, t) PROVE TypeInv'
    <3>1. row' = [row EXCEPT ![p].status = "approved", ![p].time = t]
      BY <2>1 DEF Create
    <3>2. row' \in [Posts -> Row]
      <4>1. [row[p] EXCEPT !.status = "approved", !.time = t] \in Row
        BY <2>row DEF Row, Statuses
      <4>2. row' = [row EXCEPT ![p] = [row[p] EXCEPT !.status = "approved", !.time = t]]
        BY <3>1
      <4> QED BY <4>1, <4>2, <2>row
    <3>3. UNCHANGED <<now, draft, deletion, removal, pc, batch, current, answer,
                      commits, reopened>>
      BY <2>1 DEF Create
    <3>4. QED
      BY <2>0, <3>2, <3>3
  <2>2. ASSUME NEW p \in Posts, LinkDraft(p) PROVE TypeInv'
    <3>1. row' \in [Posts -> Row]
      BY <2>2, <2>row DEF LinkDraft, Row, Errors
    <3>2. draft' \in [Posts -> DraftStatus]
      BY <2>0, <2>2 DEF LinkDraft, DraftStatus
    <3>3. UNCHANGED <<now, deletion, removal, pc, batch, current, answer, commits, reopened>>
      BY <2>2 DEF LinkDraft
    <3>4. QED
      BY <2>0, <3>1, <3>2, <3>3
  <2>3. ASSUME NEW p \in Posts, NEW t \in Times, Edit(p, t) PROVE TypeInv'
    <3>1. row' \in [Posts -> Row]
      BY <2>3, <2>row DEF Edit, Row, Statuses, Errors, Stamps
    <3>2. QED
      BY <2>0, <2>3, <3>1 DEF Edit
  <2>4. ASSUME NEW p \in Posts, DeleteCheck(p) PROVE TypeInv'
    BY <2>0, <2>4 DEF DeleteCheck, RemovalStep
  <2>5. ASSUME NEW p \in Posts, DeleteCommit(p) PROVE TypeInv'
    <3>1. row' \in [Posts -> Row]
      BY <2>5, <2>row, DropApprovedType DEF DeleteCommit
    <3>2. QED
      BY <2>0, <2>5, <3>1 DEF DeleteCommit, RemovalStep
  <2>6. ASSUME NEW p \in Posts, DeleteUnlink(p) PROVE TypeInv'
    BY <2>0, <2>6 DEF DeleteUnlink, UnlinkDrafts, DraftStatus, RemovalStep
  <2>7. ASSUME NEW S \in SUBSET Posts, RetireCheck(S) PROVE TypeInv'
    BY <2>0, <2>7 DEF RetireCheck, RemovalStep
  <2>8. CASE RetireCommit
    <3>1. row' \in [Posts -> Row]
      BY <2>8, <2>row, DropApprovedType DEF RetireCommit
    <3>2. draft' \in [Posts -> DraftStatus]
      BY <2>0, <2>8 DEF RetireCommit, UnlinkDrafts, DraftStatus
    <3>3. QED
      BY <2>0, <2>8, <3>1, <3>2 DEF RetireCommit, RemovalStep
  <2>9. ASSUME NEW S \in SUBSET Posts, NEW R \in SUBSET Posts, NEW t \in Times,
               Recover(S, R, t)
        PROVE  TypeInv'
    <3>1. ASSUME NEW p \in Posts PROVE row'[p] \in Row
      <4>1. row[p] \in Row
        BY <2>row
      <4>2. CASE p \in R
        <5>1. row'[p] = [row[p] EXCEPT !.status = "approved", !.time = t,
                                       !.err = "none", !.stamp = "null"]
          BY <2>9, <4>2 DEF Recover
        <5>2. QED
          BY <4>1, <5>1 DEF Row, Statuses, Errors, Stamps
      <4>3. CASE p \in S \ R
        <5>1. row'[p] = [row[p] EXCEPT !.cancelled = TRUE, !.err = "retired", !.stamp = "null"]
          BY <2>9, <4>3 DEF Recover
        <5>2. QED
          BY <4>1, <5>1 DEF Row, Statuses, Errors, Stamps
      <4>4. CASE p \notin S /\ p \notin R
        BY <2>9, <4>1, <4>4 DEF Recover
      <4>5. QED
        BY <4>2, <4>3, <4>4
    <3>2. row' \in [Posts -> Row]
      <4>1. DOMAIN row' = Posts /\ row' = [p \in Posts |-> row'[p]]
        BY <2>9 DEF Recover
      <4>2. QED
        BY <3>1, <4>1
    <3>3. reopened' \in [Posts -> Nat]
      <4>1. reopened \in [Posts -> Nat]
        BY <2>0
      <4>2. reopened' = [p \in Posts |->
               IF p \in R /\ Posting(p) THEN reopened[p] + 1 ELSE reopened[p]]
        BY <2>9 DEF Recover
      <4>3. QED
        BY <4>1, <4>2
    <3>4. UNCHANGED <<now, draft, deletion, removal, pc, batch, current, answer, commits>>
      BY <2>9 DEF Recover
    <3>5. QED
      BY <2>0, <3>2, <3>3, <3>4
  <2>10. ASSUME NEW S \in SUBSET Posts, RecoverRace(S) PROVE TypeInv'
    <3>1. row' \in [Posts -> Row]
      BY <2>10, <2>row DEF RecoverRace, Row, Statuses, Errors, Stamps
    <3>2. QED
      BY <2>0, <2>10, <3>1 DEF RecoverRace
  <2>11. ASSUME NEW w \in Workers, NEW allowed \in SUBSET Posts, NEW limit,
                Run(w, allowed, limit)
         PROVE  TypeInv'
    <3>1. FirstDue(allowed, limit) \subseteq Posts
      BY DEF FirstDue
    <3>2. row' \in [Posts -> Row]
      BY <2>11, <2>row DEF Run, LabelStale, Row, Statuses, Errors, Stamps
    <3>3. QED
      BY <2>0, <2>11, <3>1, <3>2 DEF Run
  <2>12. ASSUME NEW w \in Workers, NEW p \in Posts, Retry(w, p) PROVE TypeInv'
    BY <2>0, <2>12 DEF Retry
  <2>13. ASSUME NEW w \in Workers, NEW p \in Posts, CheckLineage(w, p) PROVE TypeInv'
    <3>1. row' \in [Posts -> Row]
      BY <2>13, <2>row DEF CheckLineage, Row, Statuses, Errors, Stamps
    <3>2. QED
      BY <2>0, <2>13, <3>1 DEF CheckLineage
  <2>14. ASSUME NEW w \in Workers, Claim(w) PROVE TypeInv'
    <3>1. row' \in [Posts -> Row]
      BY <2>14, <2>row DEF Claim, Row, Statuses, Errors, Stamps
    <3>2. QED
      BY <2>0, <2>14, <3>1 DEF Claim
  <2>15. ASSUME NEW w \in Workers, Send(w) PROVE TypeInv'
    <3>1. current[w] \in Posts
      BY <2>0, <2>15 DEF Send
    <3>2. commits' \in [Posts -> Nat] /\ answer' \in [Workers -> Nat]
      <4>1. commits \in [Posts -> Nat] /\ answer \in [Workers -> Nat]
        BY <2>0
      <4>2. QED
        BY <2>15, <3>1, <4>1 DEF Send
    <3>3. pc' = [pc EXCEPT ![w] = "sent"]
          /\ UNCHANGED <<now, row, draft, deletion, removal, batch, current, reopened>>
      BY <2>15 DEF Send
    <3>4. QED
      BY <2>0, <3>1, <3>2, <3>3
  <2>16. ASSUME NEW w \in Workers, Refuse(w) PROVE TypeInv'
    BY <2>0, <2>16 DEF Refuse
  <2>17. ASSUME NEW w \in Workers, Answer(w) PROVE TypeInv'
    BY <2>0, <2>17 DEF Answer
  <2>18. ASSUME NEW w \in Workers, Quarantine(w) PROVE TypeInv'
    <3>1. row' \in [Posts -> Row]
      <4>1. CASE row' = row
        BY <2>row, <4>1
      <4>2. CASE row' = [row EXCEPT ![current[w]].err = "failed",
                           ![current[w]].stamp = IF @ = "null" THEN "fresh" ELSE @]
        <5>1. current[w] \in Posts
          BY <2>0, <2>18 DEF Quarantine
        <5>2. PICK p \in Posts : p = current[w]
          BY <5>1
        <5>3. row[p] \in Row
          BY <2>row
        <5>4. PICK s \in Stamps : s = IF row[p].stamp = "null" THEN "fresh" ELSE row[p].stamp
          BY <5>3 DEF Row, Stamps
        <5>5. row' = [row EXCEPT ![p].err = "failed", ![p].stamp = s]
          BY <4>2, <5>2, <5>3, <5>4, <2>row DEF Row
        <5>6. [row[p] EXCEPT !.err = "failed", !.stamp = s] \in Row
          BY <5>3 DEF Row, Errors
        <5>7. row' = [row EXCEPT ![p] = [row[p] EXCEPT !.err = "failed", !.stamp = s]]
          BY <5>5
        <5>8. QED
          BY <2>row, <5>6, <5>7
      <4>3. QED
        BY <2>18, <4>1, <4>2 DEF Quarantine
    <3>2. current' = [current EXCEPT ![w] = NoPost] /\ answer' = [answer EXCEPT ![w] = NoId]
      BY <2>18 DEF Quarantine
    <3>3. pc' \in [Workers -> Step] /\ \A v \in Workers : v # w => pc'[v] = pc[v]
      BY <2>0, <2>18 DEF Quarantine
    <3>4. pc'[w] \in {"idle", "running"}
      BY <2>0, <2>18 DEF Quarantine
    <3>5. CurrentOK'
      BY <2>0, <3>2, <3>3, <3>4
    <3>6. UNCHANGED <<now, draft, deletion, removal, batch, commits, reopened>>
      BY <2>18 DEF Quarantine
    <3>7. QED
      BY <2>0, <3>1, <3>2, <3>3, <3>5, <3>6
  <2>19. ASSUME NEW w \in Workers, ReadForFinalize(w) PROVE TypeInv'
    BY <2>0, <2>19 DEF ReadForFinalize
  <2>20. ASSUME NEW w \in Workers, Finalize(w) PROVE TypeInv'
    <3>1. row' \in [Posts -> Row]
      <4>1. CASE row' = row
        BY <2>row, <4>1
      <4>2. CASE row' = [row EXCEPT ![current[w]].status = "posted",
                           ![current[w]].pub = answer[w],
                           ![current[w]].err = "none", ![current[w]].stamp = "null"]
        <5>1. current[w] \in Posts /\ answer[w] \in Nat
          BY <2>0, <2>20 DEF Finalize
        <5>2. QED
          BY <2>row, <4>2, <5>1 DEF Row, Statuses, Errors, Stamps
      <4>3. QED
        BY <2>20, <4>1, <4>2 DEF Finalize
    <3>2. current' = [current EXCEPT ![w] = NoPost] /\ answer' = [answer EXCEPT ![w] = NoId]
      BY <2>20 DEF Finalize
    <3>3. pc' \in [Workers -> Step] /\ \A v \in Workers : v # w => pc'[v] = pc[v]
      BY <2>0, <2>20 DEF Finalize
    <3>4. pc'[w] \in {"idle", "running"}
      BY <2>0, <2>20 DEF Finalize
    <3>5. CurrentOK'
      BY <2>0, <3>2, <3>3, <3>4
    <3>6. draft' \in [Posts -> DraftStatus]
      BY <2>0, <2>20 DEF Finalize, DraftStatus
    <3>7. UNCHANGED <<now, deletion, removal, batch, commits, reopened>>
      BY <2>20 DEF Finalize
    <3>8. QED
      BY <2>0, <3>1, <3>2, <3>3, <3>5, <3>6, <3>7
  <2>21. ASSUME NEW w \in Workers, FinalizeException(w) PROVE TypeInv'
    BY <2>0, <2>21 DEF FinalizeException
  <2>22. ASSUME NEW w \in Workers, Crash(w) PROVE TypeInv'
    BY <2>0, <2>22 DEF Crash
  <2>23. CASE Tick
    BY <2>0, <2>23, BoundsAssumption DEF Tick, Times
  <2>24. ASSUME NEW p \in Posts, Age(p) PROVE TypeInv'
    <3>1. row' \in [Posts -> Row]
      BY <2>24, <2>row DEF Age, Row, Statuses, Errors, Stamps
    <3>2. QED
      BY <2>0, <2>24, <3>1 DEF Age
  <2>25. CASE UNCHANGED vars
    BY <2>0, <2>25 DEF vars
  <2>26. QED
    <3>1. ASSUME NEW w \in Workers, RunNormal(w) \/ RunCanary(w) PROVE TypeInv'
      BY <3>1, <2>11 DEF RunNormal, RunCanary
    <3>2. QED
      BY <2>0, <2>1, <2>2, <2>3, <2>4, <2>5, <2>6, <2>7, <2>8, <2>9, <2>10, <3>1, <2>12, <2>13,
         <2>14, <2>15, <2>16, <2>17, <2>18, <2>19, <2>20, <2>21, <2>22, <2>23, <2>24, <2>25
         DEF Next, Operator, Work
<1>3. QED
  BY <1>1, <1>2, PTL DEF Spec

\* Rows, drafts, deletions and executions are always typed.
THEOREM DeliveryIsTyped == Spec => []TypeOK
<1>1. TypeInv => TypeOK
  BY DEF TypeInv
<1> QED BY <1>1, TypeCorrect, PTL

-----------------------------------------------------------------------------
(***************************************************************************)
(* What a step does to one row.                                            *)
(***************************************************************************)

\* What the operator's requests can do to a row: leave its status alone, create
\* or delete it while it is not yet claimed, or reopen it, which is counted.
\* None of them touches the identifier of a publication.
LEMMA OperatorEffect ==
  ASSUME TypeInv, Operator, NEW p \in Posts
  PROVE  /\ row'[p].pub = row[p].pub
         /\ \/ row'[p].status = row[p].status /\ reopened'[p] = reopened[p]
            \/ /\ \/ row[p].status = "absent" /\ row'[p].status = "approved"
                  \/ row[p].status = "approved" /\ row'[p].status = "deleted"
               /\ reopened'[p] = reopened[p]
            \/ /\ row[p].status = "posting" /\ row'[p].status = "approved"
               /\ reopened'[p] = reopened[p] + 1
<1> DEFINE Effect ==
      /\ row'[p].pub = row[p].pub
      /\ \/ row'[p].status = row[p].status /\ reopened'[p] = reopened[p]
         \/ /\ \/ row[p].status = "absent" /\ row'[p].status = "approved"
               \/ row[p].status = "approved" /\ row'[p].status = "deleted"
            /\ reopened'[p] = reopened[p]
         \/ /\ row[p].status = "posting" /\ row'[p].status = "approved"
            /\ reopened'[p] = reopened[p] + 1
<1>row. row \in [Posts -> Row] /\ row[p] \in Row /\ reopened \in [Posts -> Nat]
  BY DEF TypeInv, TypeOK
<1>1. ASSUME NEW q \in Posts, NEW t \in Times, Create(q, t) PROVE Effect
  BY <1>1, <1>row DEF Create, providerVars, Row
<1>2. ASSUME NEW q \in Posts, NEW t \in Times, Edit(q, t) PROVE Effect
  BY <1>2, <1>row DEF Edit, providerVars, Row
<1>3. ASSUME DropApproved({q \in Posts : removal[q] = "listed"})
             \/ \E q \in Posts : DropApproved({q}),
             reopened' = reopened
      PROVE  Effect
  BY <1>3, <1>row DEF DropApproved, Approved, Row
<1>4. ASSUME NEW S \in SUBSET Posts, NEW R \in SUBSET Posts, NEW t \in Times, Recover(S, R, t)
      PROVE  Effect
  <2>1. reopened'[p] = IF p \in R /\ Posting(p) THEN reopened[p] + 1 ELSE reopened[p]
    BY <1>4 DEF Recover
  <2>2. p \in R => row[p].status \in {"approved", "posting"}
    BY <1>4 DEF Recover, Overdue, Approved, Posting
  <2>3. row'[p] = IF p \in R THEN [row[p] EXCEPT !.status = "approved", !.time = t,
                                                  !.err = "none", !.stamp = "null"]
                  ELSE IF p \in S THEN [row[p] EXCEPT !.cancelled = TRUE, !.err = "retired",
                                                       !.stamp = "null"]
                  ELSE row[p]
    BY <1>4 DEF Recover
  <2>4. row'[p].pub = row[p].pub
        /\ row'[p].status = IF p \in R THEN "approved" ELSE row[p].status
    BY <2>3, <1>row DEF Row
  <2>5. QED
    BY <2>1, <2>2, <2>4 DEF Posting
<1>5. ASSUME NEW S \in SUBSET Posts, RecoverRace(S) PROVE Effect
  BY <1>5, <1>row DEF RecoverRace, providerVars, Row
<1>6. ASSUME row' = row, reopened' = reopened PROVE Effect
  BY <1>6
<1>7. QED
  <2>0. ASSUME NEW q \in Posts, LinkDraft(q) PROVE Effect
    BY <2>0, <1>row DEF LinkDraft, providerVars, Row
  <2>1. ASSUME NEW q \in Posts, DeleteCheck(q) \/ DeleteUnlink(q) PROVE Effect
    BY <2>1, <1>6 DEF DeleteCheck, DeleteUnlink, rowVars, providerVars
  <2>2. ASSUME NEW S \in SUBSET Posts, RetireCheck(S) PROVE Effect
    BY <2>2, <1>6 DEF RetireCheck, rowVars, providerVars
  <2>3. ASSUME NEW q \in Posts, DeleteCommit(q) PROVE Effect
    BY <2>3, <1>3 DEF DeleteCommit, providerVars
  <2>4. CASE RetireCommit
    BY <2>4, <1>3 DEF RetireCommit, providerVars
  <2>5. QED
    BY <1>1, <1>2, <1>4, <1>5, <2>0, <2>1, <2>2, <2>3, <2>4 DEF Operator

\* The operator's requests run beside the executions and publish nothing.
LEMMA OperatorFrame ==
  ASSUME Operator
  PROVE  UNCHANGED <<pc, batch, current, answer, commits>>
<1> USE DEF workerVars, providerVars
<1>1. ASSUME NEW p \in Posts, NEW t \in Times, Create(p, t) \/ Edit(p, t)
      PROVE  UNCHANGED <<pc, batch, current, answer, commits>>
  BY <1>1 DEF Create, Edit
<1>2. ASSUME NEW p \in Posts,
             LinkDraft(p) \/ DeleteCheck(p) \/ DeleteCommit(p) \/ DeleteUnlink(p)
      PROVE  UNCHANGED <<pc, batch, current, answer, commits>>
  BY <1>2 DEF LinkDraft, DeleteCheck, DeleteCommit, DeleteUnlink
<1>3. ASSUME NEW S \in SUBSET Posts, RetireCheck(S) \/ RecoverRace(S)
      PROVE  UNCHANGED <<pc, batch, current, answer, commits>>
  BY <1>3 DEF RetireCheck, RecoverRace
<1>4. CASE RetireCommit
  BY <1>4 DEF RetireCommit
<1>5. ASSUME NEW S \in SUBSET Posts, NEW R \in SUBSET Posts, NEW t \in Times, Recover(S, R, t)
      PROVE  UNCHANGED <<pc, batch, current, answer, commits>>
  BY <1>5 DEF Recover
<1>6. QED
  BY <1>1, <1>2, <1>3, <1>4, <1>5 DEF Operator

\* The steps of an execution, except the end of Finalize and Claim, leave the
\* status and the identifier of every row as they are.
StatusKept == \A p \in Posts : row'[p].status = row[p].status /\ row'[p].pub = row[p].pub

LEMMA WorkerEffect ==
  ASSUME TypeInv, NEW w \in Workers
  PROVE  /\ RunNormal(w) \/ RunCanary(w) => StatusKept
         /\ \A p \in Posts : CheckLineage(w, p) => StatusKept
         /\ Quarantine(w) => StatusKept
<1>row. row \in [Posts -> Row] /\ \A p \in Posts : row[p] \in Row
  BY DEF TypeInv, TypeOK
<1>1. ASSUME LabelStale PROVE StatusKept
  BY <1>1, <1>row DEF StatusKept, LabelStale, Row
<1>2. ASSUME NEW p \in Posts, CheckLineage(w, p) PROVE StatusKept
  <2>1. row' = row \/ row' = [row EXCEPT ![p].err = "lineage"]
    BY <1>2 DEF CheckLineage
  <2>2. QED
    BY <2>1, <1>row DEF StatusKept, Row
<1>3. ASSUME Quarantine(w) PROVE StatusKept
  <2>1. CASE row' = row
    BY <2>1 DEF StatusKept
  <2>2. CASE row' = [row EXCEPT ![current[w]].err = "failed",
                       ![current[w]].stamp = IF @ = "null" THEN "fresh" ELSE @]
    <3>1. current[w] \in Posts
      BY <1>3 DEF TypeInv, CurrentOK, Quarantine, Attempting
    <3>2. QED
      BY <2>2, <3>1, <1>row DEF StatusKept, Row
  <2>3. QED
    BY <1>3, <2>1, <2>2 DEF Quarantine
<1>4. QED
  BY <1>1, <1>2, <1>3 DEF RunNormal, RunCanary, Run

\* An execution that is not in the middle of an attempt after its step adds
\* nothing to the attempts under way.
LEMMA StepsAside ==
  ASSUME TypeInv, NEW w \in Workers, NEW p \in Posts,
         \A v \in Workers \ {w} : pc'[v] = pc[v] /\ current'[v] = current[v],
         pc'[w] \notin Attempting
  PROVE  InFlight(p)' = InFlight(p) \ {w}
BY DEF InFlight

-----------------------------------------------------------------------------
(***************************************************************************)
(* The claim on the status column is a lock.  The invariant joins the two  *)
(* halves that need each other: while a post that was never reopened is    *)
(* approved nobody attempts it and nothing of it was published, so the     *)
(* claim that takes it out of 'approved' is the only one.                  *)
(***************************************************************************)
LockOf(p) ==
  reopened[p] = 0 =>
    /\ \A v, w \in InFlight(p) : v = w
    /\ InFlight(p) # {} => row[p].status = "posting"
    /\ commits[p] > 0 => row[p].status \in {"posting", "posted"}

LockInv == \A p \in Posts : LockOf(p)

LEMMA LockFrame ==
  ASSUME NEW p \in Posts, LockOf(p),
         row'[p].status = row[p].status, reopened'[p] = reopened[p],
         commits'[p] = commits[p], InFlight(p)' \subseteq InFlight(p)
  PROVE  LockOf(p)'
BY DEF LockOf

LEMMA LockInit == Init => LockInv
BY DEF Init, LockInv, LockOf, InFlight, Attempting

LEMMA LockStep == TypeInv /\ LockInv /\ [Next]_vars => LockInv'
<1> SUFFICES ASSUME TypeInv, LockInv, [Next]_vars, NEW p \in Posts PROVE LockOf(p)'
  BY DEF LockInv
<1>0. LockOf(p)
  BY DEF LockInv
<1>row. row \in [Posts -> Row] /\ row[p] \in Row /\ commits[p] \in Nat /\ reopened[p] \in Nat
  BY DEF TypeInv, TypeOK
<1>wrk. pc \in [Workers -> Step] /\ current \in [Workers -> Posts \cup {NoPost}]
  BY DEF TypeInv, TypeOK
<1>1. CASE Operator
  <2>1. InFlight(p)' = InFlight(p) /\ commits'[p] = commits[p]
    BY <1>1, OperatorFrame DEF InFlight
  <2>2. CASE row'[p].status = row[p].status /\ reopened'[p] = reopened[p]
    BY <1>0, <2>1, <2>2, LockFrame
  <2>3. CASE row[p].status \in {"absent", "approved"} /\ reopened'[p] = reopened[p]
    BY <1>0, <2>1, <2>3, <1>row DEF LockOf
  <2>4. CASE reopened'[p] = reopened[p] + 1
    BY <2>4, <1>row DEF LockOf
  <2>5. QED
    BY <1>1, <2>2, <2>3, <2>4, OperatorEffect
<1>2. ASSUME NEW w \in Workers, RunNormal(w) \/ RunCanary(w) PROVE LockOf(p)'
  <2>1. /\ pc'[w] \in {"idle", "running"}
        /\ \A v \in Workers \ {w} : pc'[v] = pc[v]
        /\ UNCHANGED <<current, commits, reopened>>
    BY <1>2, <1>wrk DEF RunNormal, RunCanary, Run, Goto, providerVars
  <2>2. InFlight(p)' \subseteq InFlight(p)
    BY <2>1, StepsAside DEF Attempting
  <2>3. QED
    BY <1>0, <1>2, <2>1, <2>2, WorkerEffect, LockFrame DEF StatusKept
<1>3. ASSUME NEW w \in Workers, NEW q \in Posts, Retry(w, q) PROVE LockOf(p)'
  <2>1. /\ pc'[w] \in {"idle", "running"}
        /\ \A v \in Workers \ {w} : pc'[v] = pc[v]
        /\ UNCHANGED <<row, current, commits, reopened>>
    BY <1>3, <1>wrk DEF Retry, Goto, providerVars, rowVars
  <2>2. InFlight(p)' \subseteq InFlight(p)
    BY <2>1, StepsAside DEF Attempting
  <2>3. QED
    BY <1>0, <2>1, <2>2, LockFrame
<1>4. ASSUME NEW w \in Workers, NEW q \in Posts, CheckLineage(w, q) PROVE LockOf(p)'
  <2>1. /\ pc'[w] \in {"idle", "running", "checked"}
        /\ \A v \in Workers \ {w} : pc'[v] = pc[v] /\ current'[v] = current[v]
        /\ UNCHANGED <<commits, reopened>>
    BY <1>4, <1>wrk DEF CheckLineage, Goto, providerVars
  <2>2. InFlight(p)' \subseteq InFlight(p)
    BY <2>1, StepsAside DEF Attempting
  <2>3. QED
    BY <1>0, <1>4, <2>1, <2>2, WorkerEffect, LockFrame DEF StatusKept
<1>5. ASSUME NEW w \in Workers, Claim(w) PROVE LockOf(p)'
  <2>1. /\ \A v \in Workers \ {w} : pc'[v] = pc[v] /\ current'[v] = current[v]
        /\ UNCHANGED <<commits, reopened>>
        /\ pc[w] = "checked" /\ current[w] \in Posts
    BY <1>5, <1>wrk DEF Claim, NextRow, Goto, providerVars, TypeInv, CurrentOK
  <2>2. CASE row' = row /\ pc'[w] \in {"idle", "running"}
    <3>1. InFlight(p)' \subseteq InFlight(p)
      BY <2>1, <2>2, StepsAside DEF Attempting
    <3>2. QED
      BY <1>0, <2>1, <2>2, <3>1, LockFrame
  <2>3. CASE /\ row[current[w]].status = "approved"
             /\ row' = [row EXCEPT ![current[w]].status = "posting",
                                   ![current[w]].err = "none", ![current[w]].stamp = "fresh"]
             /\ UNCHANGED current
    <3>1. CASE p = current[w]
      <4>1. row'[p].status = "posting"
        BY <2>1, <2>3, <3>1, <1>row DEF Row
      <4>2. reopened[p] = 0 => InFlight(p) = {} /\ ~(commits[p] > 0)
        BY <1>0, <2>3, <3>1 DEF LockOf
      <4>3. InFlight(p)' \subseteq InFlight(p) \cup {w}
        BY <2>1, <2>3 DEF InFlight
      <4>4. QED
        BY <2>1, <4>1, <4>2, <4>3 DEF LockOf
    <3>2. CASE p # current[w]
      <4>1. row'[p] = row[p]
        BY <2>1, <2>3, <3>2, <1>row
      <4>2. InFlight(p)' \subseteq InFlight(p)
        BY <2>1, <2>3, <3>2 DEF InFlight
      <4>3. QED
        BY <1>0, <2>1, <4>1, <4>2, LockFrame
    <3>3. QED
      BY <3>1, <3>2
  <2>4. QED
    BY <1>5, <1>wrk, <2>2, <2>3 DEF Claim, Claimable, Approved, NextRow, Goto
<1>6. ASSUME NEW w \in Workers, Send(w) PROVE LockOf(p)'
  <2>1. /\ pc[w] = "claimed" /\ current[w] \in Posts
        /\ UNCHANGED <<row, current, reopened>>
        /\ \A v \in Workers \ {w} : pc'[v] = pc[v]
        /\ commits' = [commits EXCEPT ![current[w]] = @ + 1]
    BY <1>6, <1>wrk DEF Send, Goto, rowVars, TypeInv, CurrentOK, Attempting
  <2>2. w \in InFlight(current[w])
    BY <2>1 DEF InFlight, Attempting
  <2>3. InFlight(p)' \subseteq InFlight(p)
    BY <2>1, <2>2 DEF InFlight, Attempting
  <2>4. CASE p = current[w]
    BY <1>0, <2>1, <2>2, <2>3, <2>4 DEF LockOf
  <2>5. CASE p # current[w]
    <3>1. commits'[p] = commits[p]
      BY <2>1, <2>5 DEF TypeInv, TypeOK
    <3>2. QED
      BY <1>0, <2>1, <2>3, <3>1, LockFrame
  <2>6. QED
    BY <2>4, <2>5
<1>7. ASSUME NEW w \in Workers, Refuse(w) \/ Answer(w) PROVE LockOf(p)'
  <2>1. /\ pc[w] \in Attempting
        /\ \A v \in Workers \ {w} : pc'[v] = pc[v]
        /\ UNCHANGED <<row, current, commits, reopened>>
    BY <1>7, <1>wrk DEF Refuse, Answer, Goto, rowVars, providerVars, Attempting
  <2>2. InFlight(p)' \subseteq InFlight(p)
    BY <2>1 DEF InFlight
  <2>3. QED
    BY <1>0, <2>1, <2>2, LockFrame
<1>8. ASSUME NEW w \in Workers, Quarantine(w) PROVE LockOf(p)'
  <2>1. /\ pc'[w] \in {"idle", "running"}
        /\ \A v \in Workers \ {w} : pc'[v] = pc[v] /\ current'[v] = current[v]
        /\ UNCHANGED <<commits, reopened>>
    BY <1>8, <1>wrk DEF Quarantine, NextRow, Goto, providerVars
  <2>2. InFlight(p)' \subseteq InFlight(p)
    BY <2>1, StepsAside DEF Attempting
  <2>3. QED
    BY <1>0, <1>8, <2>1, <2>2, WorkerEffect, LockFrame DEF StatusKept
<1>9. ASSUME NEW w \in Workers, ReadForFinalize(w) PROVE LockOf(p)'
  <2>1. UNCHANGED <<row, commits, reopened>>
    BY <1>9 DEF ReadForFinalize, rowVars, providerVars
  <2>2. InFlight(p)' \subseteq InFlight(p)
    <3>1. CASE Goto(w, "recording") /\ UNCHANGED current
      BY <1>9, <3>1, <1>wrk DEF ReadForFinalize, Goto, InFlight, Attempting
    <3>2. CASE NextRow(w)
      BY <3>2, <1>wrk, StepsAside DEF NextRow, Goto, Attempting
    <3>3. QED
      BY <1>9, <3>1, <3>2 DEF ReadForFinalize
  <2>3. QED
    BY <1>0, <2>1, <2>2, LockFrame
<1>10. ASSUME NEW w \in Workers, Finalize(w) PROVE LockOf(p)'
  <2>1. /\ pc[w] = "recording" /\ current[w] \in Posts
        /\ pc'[w] \in {"idle", "running"}
        /\ \A v \in Workers \ {w} : pc'[v] = pc[v] /\ current'[v] = current[v]
        /\ UNCHANGED <<commits, reopened>>
    BY <1>10, <1>wrk DEF Finalize, NextRow, Goto, providerVars, TypeInv, CurrentOK, Attempting
  <2>2. InFlight(p)' = InFlight(p) \ {w}
    BY <2>1, StepsAside DEF Attempting
  <2>3. CASE p = current[w]
    <3>1. w \in InFlight(p)
      BY <2>1, <2>3 DEF InFlight, Attempting
    <3>2. reopened[p] = 0 => InFlight(p)' = {} /\ row'[p].status = "posted"
      BY <1>0, <1>10, <1>row, <2>2, <2>3, <3>1 DEF LockOf, Finalize, Exists, Row
    <3>3. QED
      BY <2>1, <3>2 DEF LockOf
  <2>4. CASE p # current[w]
    <3>1. row'[p] = row[p]
      BY <1>10, <2>1, <2>4, <1>row DEF Finalize
    <3>2. QED
      BY <1>0, <2>1, <2>2, <3>1, LockFrame
  <2>5. QED
    BY <2>3, <2>4
<1>11. ASSUME NEW w \in Workers, FinalizeException(w) \/ Crash(w) PROVE LockOf(p)'
  <2>1. /\ pc'[w] \in {"idle", "running"}
        /\ \A v \in Workers \ {w} : pc'[v] = pc[v] /\ current'[v] = current[v]
        /\ UNCHANGED <<row, commits, reopened>>
    BY <1>11, <1>wrk DEF FinalizeException, Crash, NextRow, Goto, rowVars, providerVars
  <2>2. InFlight(p)' \subseteq InFlight(p)
    BY <2>1, StepsAside DEF Attempting
  <2>3. QED
    BY <1>0, <2>1, <2>2, LockFrame
<1>12. CASE Tick \/ UNCHANGED vars
  BY <1>0, <1>12, LockFrame
     DEF Tick, vars, rowVars, workerVars, providerVars, InFlight
<1>13. ASSUME NEW q \in Posts, Age(q) PROVE LockOf(p)'
  <2>1. UNCHANGED <<pc, current, commits, reopened>> /\ row'[p].status = row[p].status
    BY <1>13, <1>row DEF Age, workerVars, providerVars, Row
  <2>2. QED
    BY <1>0, <2>1, LockFrame DEF InFlight
<1>14. QED
  BY <1>1, <1>2, <1>3, <1>4, <1>5, <1>6, <1>7, <1>8, <1>9, <1>10, <1>11, <1>12, <1>13
     DEF Next, Work

\* Two executions never publish the same post at the same time, and while one
\* does the row is in 'posting', unless an operator reopened the post.
THEOREM LockHolds == Spec => []OneAttemptAtATime
<1>1. LockInv => OneAttemptAtATime
  BY DEF LockInv, LockOf, OneAttemptAtATime
<1>2. QED
  BY <1>1, TypeCorrect, LockInit, LockStep, PTL DEF Spec

\* A published post that no operator reopened never leaves 'posting' and 'posted'.
THEOREM PublishedStaysOutOfReach == Spec => []PublishedIsOutOfReach
<1>1. LockInv => PublishedIsOutOfReach
  BY DEF LockInv, LockOf, PublishedIsOutOfReach
<1>2. QED
  BY <1>1, TypeCorrect, LockInit, LockStep, PTL DEF Spec

LEMMA PostedStep ==
  ASSUME TypeInv, LockInv, Next, NEW p \in Posts, row[p].status = "posted"
  PROVE  /\ row'[p].status = "posted"
         /\ reopened[p] = 0 => row'[p].pub = row[p].pub
<1> DEFINE Kept == /\ row'[p].status = "posted"
                   /\ reopened[p] = 0 => row'[p].pub = row[p].pub
<1>row. row \in [Posts -> Row] /\ row[p] \in Row
  BY DEF TypeInv, TypeOK
<1>1. CASE Operator
  BY <1>1, OperatorEffect
<1>2. ASSUME NEW w \in Workers, RunNormal(w) \/ RunCanary(w) \/ Quarantine(w) PROVE Kept
  BY <1>2, WorkerEffect DEF StatusKept
<1>3. ASSUME NEW w \in Workers, NEW q \in Posts, CheckLineage(w, q) PROVE Kept
  BY <1>3, WorkerEffect DEF StatusKept
<1>4. ASSUME NEW w \in Workers, Claim(w) PROVE Kept
  <2>1. row'[p] = row[p]
    BY <1>4, <1>row DEF Claim, Claimable, Approved
  <2>2. QED
    BY <2>1
<1>5. ASSUME NEW w \in Workers, Finalize(w) PROVE Kept
  <2>1. pc[w] = "recording" /\ current[w] \in Posts
    BY <1>5 DEF Finalize, TypeInv, CurrentOK, Attempting
  <2>2. CASE p = current[w]
    <3>1. row'[p].status = "posted"
      BY <1>5, <1>row, <2>2 DEF Finalize, Exists, Row
    <3>2. InFlight(p) # {}
      BY <2>1, <2>2 DEF InFlight, Attempting
    <3>3. reopened[p] # 0
      BY <3>2 DEF LockInv, LockOf
    <3>4. QED
      BY <3>1, <3>3
  <2>3. CASE p # current[w]
    BY <1>5, <1>row, <2>1, <2>3 DEF Finalize
  <2>4. QED
    BY <2>2, <2>3
<1>6. ASSUME NEW q \in Posts, Age(q) PROVE Kept
  BY <1>6, <1>row DEF Age, Row
<1>7. CASE row' = row
  BY <1>7
<1>8. QED
  BY <1>1, <1>2, <1>3, <1>4, <1>5, <1>6, <1>7
     DEF Next, Work, Retry, Send, Refuse, Answer, ReadForFinalize, FinalizeException, Crash,
         Tick, rowVars

\* A row that says 'posted' says so for ever, and the identifier it records is
\* not replaced unless an operator reopened an attempt that was still running.
THEOREM PostedStaysFinal == Spec => PostedIsFinal
<1>1. TypeInv /\ LockInv /\ [Next]_vars =>
        [\A p \in Posts : row[p].status = "posted" =>
           /\ row'[p].status = "posted"
           /\ reopened[p] = 0 => row'[p].pub = row[p].pub]_vars
  BY PostedStep
<1>2. QED
  BY <1>1, TypeCorrect, LockInit, LockStep, PTL DEF Spec, PostedIsFinal

-----------------------------------------------------------------------------
(***************************************************************************)
(* The identifier of a posted row.  An execution that was answered knows a *)
(* publication that happened, so what Finalize records is one.             *)
(***************************************************************************)
AnswerOf(w) ==
  pc[w] \in {"sent", "accepted", "recording"} => answer[w] \in 1..commits[current[w]]

RecordedOf(p) ==
  IF row[p].status = "posted" THEN row[p].pub \in 1..commits[p] ELSE row[p].pub = NoId

PostedInv == (\A w \in Workers : AnswerOf(w)) /\ (\A p \in Posts : RecordedOf(p))

LEMMA PostedInvInit == Init => PostedInv
BY DEF Init, PostedInv, AnswerOf, RecordedOf, NoId

\* Publications are only ever added.
LEMMA CommitsGrow ==
  ASSUME TypeInv, [Next]_vars, NEW p \in Posts
  PROVE  /\ commits'[p] \in Nat /\ commits[p] \in Nat /\ commits[p] <= commits'[p]
         /\ \A k \in 1..commits[p] : k \in 1..commits'[p]
<1>1. commits \in [Posts -> Nat]
  BY DEF TypeInv, TypeOK
<1>2. CASE commits' = commits
  BY <1>1, <1>2
<1>3. ASSUME NEW w \in Workers, Send(w) PROVE commits[p] <= commits'[p] /\ commits'[p] \in Nat
  <2>1. commits' = [commits EXCEPT ![current[w]] = @ + 1]
    BY <1>3 DEF Send
  <2>2. QED
    BY <1>1, <2>1
<1>4. commits' = commits \/ \E w \in Workers : Send(w)
  BY OperatorFrame
     DEF Next, Work, RunNormal, RunCanary, Run, Retry, CheckLineage, Claim, Refuse, Answer,
         Quarantine, ReadForFinalize, Finalize, FinalizeException, Crash, Tick, Age,
         vars, providerVars
<1>5. commits[p] <= commits'[p] /\ commits'[p] \in Nat /\ commits[p] \in Nat
  BY <1>1, <1>2, <1>3, <1>4
<1>6. QED
  BY <1>5

\* A step that does not end an answered attempt by recording it keeps the row's
\* identifier true.
LEMMA RecordedFrame ==
  ASSUME TypeInv, [Next]_vars, NEW p \in Posts, RecordedOf(p),
         row'[p].status = row[p].status, row'[p].pub = row[p].pub
  PROVE  RecordedOf(p)'
BY CommitsGrow DEF RecordedOf

LEMMA RecordedStep ==
  ASSUME TypeInv, PostedInv, [Next]_vars, NEW p \in Posts
  PROVE  RecordedOf(p)'
<1>0. RecordedOf(p)
  BY DEF PostedInv
<1>row. row \in [Posts -> Row] /\ row[p] \in Row
  BY DEF TypeInv, TypeOK
<1>1. CASE Operator
  <2>1. row'[p].pub = row[p].pub /\
        \/ row'[p].status = row[p].status
        \/ row[p].status # "posted" /\ row'[p].status # "posted"
    BY <1>1, OperatorEffect
  <2>2. QED
    BY <1>0, <2>1, RecordedFrame DEF RecordedOf
<1>2. ASSUME NEW w \in Workers, RunNormal(w) \/ RunCanary(w) \/ Quarantine(w)
      PROVE  RecordedOf(p)'
  BY <1>0, <1>2, WorkerEffect, RecordedFrame DEF StatusKept
<1>3. ASSUME NEW w \in Workers, NEW q \in Posts, CheckLineage(w, q) PROVE RecordedOf(p)'
  BY <1>0, <1>3, WorkerEffect, RecordedFrame DEF StatusKept
<1>4. ASSUME NEW w \in Workers, Claim(w) PROVE RecordedOf(p)'
  <2>1. current[w] \in Posts
    BY <1>4 DEF Claim, TypeInv, CurrentOK
  <2>2. \/ row'[p] = row[p]
        \/ /\ row[p].status = "approved" /\ row'[p].status = "posting"
           /\ row'[p].pub = row[p].pub
    BY <1>4, <1>row, <2>1 DEF Claim, Claimable, Approved, Row
  <2>3. QED
    BY <1>0, <2>2, RecordedFrame DEF RecordedOf
<1>5. ASSUME NEW w \in Workers, Finalize(w) PROVE RecordedOf(p)'
  <2>1. /\ current[w] \in Posts /\ answer[w] \in 1..commits[current[w]]
        /\ commits' = commits
    BY <1>5 DEF Finalize, TypeInv, CurrentOK, Attempting, PostedInv, AnswerOf, providerVars
  <2>2. \/ row'[p] = row[p]
        \/ p = current[w] /\ row'[p].status = "posted" /\ row'[p].pub = answer[w]
    BY <1>5, <1>row, <2>1 DEF Finalize, Row
  <2>3. QED
    BY <1>0, <2>1, <2>2, RecordedFrame DEF RecordedOf
<1>6. ASSUME NEW q \in Posts, Age(q) PROVE RecordedOf(p)'
  <2>1. row'[p].status = row[p].status /\ row'[p].pub = row[p].pub
    BY <1>6, <1>row DEF Age, Row
  <2>2. QED
    BY <1>0, <2>1, RecordedFrame
<1>7. CASE row' = row
  BY <1>0, <1>7, RecordedFrame
<1>8. QED
  BY <1>1, <1>2, <1>3, <1>4, <1>5, <1>6, <1>7
     DEF Next, Work, Retry, Send, Refuse, Answer, ReadForFinalize, FinalizeException, Crash,
         Tick, vars, rowVars

LEMMA AnswerStep ==
  ASSUME TypeInv, PostedInv, [Next]_vars, NEW v \in Workers
  PROVE  AnswerOf(v)'
<1>0. AnswerOf(v)
  BY DEF PostedInv
<1>wrk. /\ pc \in [Workers -> Step] /\ current \in [Workers -> Posts \cup {NoPost}]
        /\ answer \in [Workers -> Nat]
  BY DEF TypeInv, TypeOK
<1>1. CASE /\ pc'[v] = pc[v] \/ pc[v] \in {"sent", "accepted", "recording"}
           /\ current'[v] = current[v] /\ answer'[v] = answer[v]
  <2>1. pc[v] \in {"sent", "accepted", "recording"} => current[v] \in Posts
    BY DEF TypeInv, CurrentOK, Attempting
  <2>2. QED
    BY <1>0, <1>1, <2>1, CommitsGrow DEF AnswerOf
<1>2. CASE pc'[v] \notin {"sent", "accepted", "recording"}
  BY <1>2 DEF AnswerOf
<1>3. CASE Send(v)
  <2>1. /\ current[v] \in Posts /\ current' = current
        /\ commits' = [commits EXCEPT ![current[v]] = @ + 1]
        /\ answer'[v] = commits[current[v]] + 1
    BY <1>3, <1>wrk DEF Send, TypeInv, CurrentOK, Attempting
  <2>2. commits \in [Posts -> Nat]
    BY DEF TypeInv, TypeOK
  <2>3. QED
    BY <2>1, <2>2 DEF AnswerOf
<1>4. CASE Operator \/ Tick \/ (\E q \in Posts : Age(q)) \/ UNCHANGED vars
  BY <1>1, <1>4, OperatorFrame DEF Tick, Age, vars, workerVars
<1>5. ASSUME NEW w \in Workers, RunNormal(w) \/ RunCanary(w) \/ Work(w) \/ Crash(w)
                                \/ \E q \in Posts : Retry(w, q)
      PROVE  AnswerOf(v)'
  <2>1. CASE v # w
    <3>1. pc'[v] = pc[v] /\ current'[v] = current[v] /\ answer'[v] = answer[v]
      BY <1>5, <1>wrk, <2>1
         DEF RunNormal, RunCanary, Run, Retry, Work, CheckLineage, Claim, Send, Refuse, Answer,
             Quarantine, ReadForFinalize, Finalize, FinalizeException, Crash, NextRow, Goto
    <3>2. QED
      BY <1>1, <3>1
  <2>2. CASE v = w
    <3>1. CASE \/ RunNormal(w) \/ RunCanary(w) \/ Crash(w) \/ Refuse(w) \/ Claim(w)
               \/ Quarantine(w) \/ Finalize(w) \/ FinalizeException(w)
               \/ (\E q \in Posts : Retry(w, q) \/ CheckLineage(w, q))
      BY <1>2, <1>wrk, <2>2, <3>1
         DEF RunNormal, RunCanary, Run, Retry, CheckLineage, Claim, Refuse, Quarantine, Finalize,
             FinalizeException, Crash, NextRow, Goto
    <3>2. CASE Answer(w)
      BY <1>1, <1>2, <1>wrk, <2>2, <3>2 DEF Answer
    <3>3. CASE ReadForFinalize(w)
      <4>1. CASE UNCHANGED <<current, answer>>
        BY <1>1, <2>2, <3>3, <4>1 DEF ReadForFinalize
      <4>2. CASE NextRow(w)
        BY <1>2, <1>wrk, <2>2, <4>2 DEF NextRow, Goto
      <4>3. QED
        BY <3>3, <4>1, <4>2 DEF ReadForFinalize
    <3>4. QED
      BY <1>3, <1>5, <2>2, <3>1, <3>2, <3>3 DEF Work
  <2>3. QED
    BY <2>1, <2>2
<1>6. QED
  BY <1>4, <1>5 DEF Next

\* A row that says 'posted' carries the identifier of a publication that happened,
\* and no other row carries one.
THEOREM PostedIsTrue == Spec => []PostedIsPublished
<1>1. TypeInv /\ PostedInv /\ [Next]_vars => PostedInv'
  BY RecordedStep, AnswerStep DEF PostedInv
<1>2. PostedInv => PostedIsPublished
  BY DEF PostedInv, RecordedOf, PostedIsPublished
<1>3. QED
  BY <1>1, <1>2, TypeCorrect, PostedInvInit, PTL DEF Spec

-----------------------------------------------------------------------------
(***************************************************************************)
(* Delivery implements PublicationPermit.  A claim turns the permit of an  *)
(* approved row into the permit of the execution that claimed it, Send     *)
(* uses that one up, and a deletion, a refusal or a crash withdraws one.   *)
(***************************************************************************)
Ticket(p) == IF row[p].status = "approved" THEN 1 ELSE 0

LEMMA HoldingFinite ==
  ASSUME NEW p \in Posts
  PROVE  /\ IsFiniteSet(Holding(p)) /\ Cardinality(Holding(p)) \in Nat
         /\ permitsOf[p] = Ticket(p) + Cardinality(Holding(p))
<1>1. Holding(p) \subseteq Workers
  BY DEF Holding
<1>2. IsFiniteSet(Holding(p))
  BY <1>1, WorkersAssumption, FS_Subset
<1>3. QED
  BY <1>2, FS_CardinalityType DEF permitsOf, Ticket, Approved

LEMMA HoldingFinitePrime ==
  ASSUME NEW p \in Posts
  PROVE  /\ IsFiniteSet(Holding(p)') /\ Cardinality(Holding(p)') \in Nat
         /\ permitsOf'[p] = Ticket(p)' + Cardinality(Holding(p)')
<1>1. Holding(p)' \subseteq Workers
  BY DEF Holding
<1>2. IsFiniteSet(Holding(p)')
  BY <1>1, WorkersAssumption, FS_Subset
<1>3. QED
  BY <1>2, FS_CardinalityType DEF permitsOf, Ticket, Approved

\* A step that changes neither what was granted nor the permits stutters.
LEMMA PermitStutter ==
  ASSUME commits' = commits,
         \A p \in Posts : /\ permitsOf'[p] = permitsOf[p]
                          /\ grantedOf'[p] = grantedOf[p]
  PROVE  UNCHANGED Permit!permitVars
<1>1. permitsOf' = permitsOf
  BY DEF permitsOf
<1>2. grantedOf' = grantedOf
  BY DEF grantedOf
<1>3. QED
  BY <1>1, <1>2 DEF Permit!permitVars

LEMMA PermitGrant ==
  ASSUME NEW S \in SUBSET Posts, commits' = commits,
         \A p \in Posts :
           /\ permitsOf'[p] = IF p \in S THEN permitsOf[p] + 1 ELSE permitsOf[p]
           /\ grantedOf'[p] = IF p \in S THEN grantedOf[p] + 1 ELSE grantedOf[p]
  PROVE  Permit!Grant(S)
<1>1. permitsOf' = [p \in Posts |-> IF p \in S THEN permitsOf[p] + 1 ELSE permitsOf[p]]
  BY DEF permitsOf
<1>2. grantedOf' = [p \in Posts |-> IF p \in S THEN grantedOf[p] + 1 ELSE grantedOf[p]]
  BY DEF grantedOf
<1>3. QED
  BY <1>1, <1>2 DEF Permit!Grant

LEMMA PermitWithdraw ==
  ASSUME NEW S \in SUBSET Posts, commits' = commits,
         \A p \in S : permitsOf[p] > 0,
         \A p \in Posts :
           /\ permitsOf'[p] = IF p \in S THEN permitsOf[p] - 1 ELSE permitsOf[p]
           /\ grantedOf'[p] = grantedOf[p]
  PROVE  Permit!Withdraw(S)
<1>1. permitsOf' = [p \in Posts |-> IF p \in S THEN permitsOf[p] - 1 ELSE permitsOf[p]]
  BY DEF permitsOf
<1>2. grantedOf' = grantedOf
  BY DEF grantedOf
<1>3. QED
  BY <1>1, <1>2 DEF Permit!Withdraw

LEMMA OperatorRefines ==
  ASSUME TypeInv, Operator
  PROVE  Permit!Next \/ UNCHANGED Permit!permitVars
<1>row. /\ row \in [Posts -> Row] /\ reopened \in [Posts -> Nat]
        /\ \A p \in Posts : row[p] \in Row /\ reopened[p] \in Nat
  BY DEF TypeInv, TypeOK
<1>0. /\ commits' = commits
      /\ \A p \in Posts : /\ permitsOf'[p] = permitsOf[p] + Ticket(p)' - Ticket(p)
                          /\ permitsOf[p] \in Nat
                          /\ Ticket(p) = 1 => permitsOf[p] > 0
  <2>1. commits' = commits /\ \A p \in Posts : Holding(p)' = Holding(p)
    BY OperatorFrame DEF Holding
  <2>2. \A p \in Posts : Ticket(p) \in {0, 1} /\ Ticket(p)' \in {0, 1}
    BY DEF Ticket
  <2>3. QED
    <3>1. ASSUME NEW p \in Posts
          PROVE  /\ permitsOf'[p] = permitsOf[p] + Ticket(p)' - Ticket(p)
                 /\ permitsOf[p] \in Nat
                 /\ Ticket(p) = 1 => permitsOf[p] > 0
      <4>1. PICK n \in Nat : n = Cardinality(Holding(p))
        BY HoldingFinite
      <4>2. permitsOf[p] = Ticket(p) + n /\ permitsOf'[p] = Ticket(p)' + n
        BY <2>1, <4>1, HoldingFinite, HoldingFinitePrime
      <4>3. PICK i \in {0, 1}, j \in {0, 1} : i = Ticket(p) /\ j = Ticket(p)'
        BY <2>2
      <4>4. QED
        BY <4>2, <4>3
    <3>2. QED
      BY <2>1, <3>1
<1>1. ASSUME \A p \in Posts : row'[p].status = row[p].status, reopened' = reopened
      PROVE  UNCHANGED Permit!permitVars
  <2>1. \A p \in Posts : Ticket(p)' = Ticket(p) /\ Ticket(p) \in {0, 1}
    BY <1>1 DEF Ticket
  <2>2. \A p \in Posts : permitsOf'[p] = permitsOf[p] /\ grantedOf'[p] = grantedOf[p]
    BY <1>0, <1>1, <2>1 DEF grantedOf
  <2>3. QED
    BY <1>0, <2>2, PermitStutter
<1>2. ASSUME NEW q \in Posts, NEW t \in Times, Create(q, t) PROVE Permit!Grant({q})
  <2>1. /\ reopened' = reopened /\ row[q].status = "absent" /\ row'[q].status = "approved"
        /\ \A p \in Posts : p # q => row'[p] = row[p]
    BY <1>2, <1>row DEF Create, providerVars, Row
  <2>2. \A p \in Posts :
          /\ permitsOf'[p] = IF p \in {q} THEN permitsOf[p] + 1 ELSE permitsOf[p]
          /\ grantedOf'[p] = IF p \in {q} THEN grantedOf[p] + 1 ELSE grantedOf[p]
    BY <1>0, <1>row, <2>1 DEF Ticket, grantedOf
  <2>3. QED
    BY <1>0, <2>2, PermitGrant
<1>3. ASSUME NEW S \in SUBSET Posts, DropApproved(S), reopened' = reopened
      PROVE  Permit!Withdraw({p \in S : row[p].status = "approved"})
  <2> DEFINE W == {p \in S : row[p].status = "approved"}
  <2>1. \A p \in Posts : /\ p \in W => row'[p].status = "deleted"
                         /\ p \notin W => row'[p] = row[p]
    BY <1>3, <1>row DEF DropApproved, Approved, Row
  <2>2. \A p \in W : permitsOf[p] > 0
    BY <1>0 DEF Ticket
  <2>3. \A p \in Posts :
          /\ permitsOf'[p] = IF p \in W THEN permitsOf[p] - 1 ELSE permitsOf[p]
          /\ grantedOf'[p] = grantedOf[p]
    BY <1>0, <1>3, <2>1 DEF Ticket, grantedOf
  <2> HIDE DEF W
  <2>4. W \in SUBSET Posts
    BY DEF W
  <2>5. Permit!Withdraw(W)
    BY <1>0, <2>2, <2>3, <2>4, PermitWithdraw
  <2>6. QED
    BY <2>5 DEF W
<1>4. ASSUME NEW S \in SUBSET Posts, NEW R \in SUBSET Posts, NEW t \in Times, Recover(S, R, t)
      PROVE  Permit!Grant({p \in R : row[p].status = "posting"})
  <2> DEFINE G == {p \in R : row[p].status = "posting"}
  <2>1. \A p \in Posts : reopened'[p] = IF p \in G THEN reopened[p] + 1 ELSE reopened[p]
    BY <1>4 DEF Recover, Posting
  <2>2. \A p \in R : row[p].status \in {"approved", "posting"}
    BY <1>4 DEF Recover, Overdue, Approved, Posting
  <2>3. \A p \in Posts : /\ p \in R => row'[p].status = "approved"
                         /\ p \notin R => row'[p].status = row[p].status
    <3>1. \A p \in Posts :
            row'[p] = IF p \in R THEN [row[p] EXCEPT !.status = "approved", !.time = t,
                                                      !.err = "none", !.stamp = "null"]
                      ELSE IF p \in S THEN [row[p] EXCEPT !.cancelled = TRUE, !.err = "retired",
                                                           !.stamp = "null"]
                      ELSE row[p]
      BY <1>4 DEF Recover
    <3>2. QED
      BY <3>1, <1>row DEF Row
  <2>4. \A p \in Posts :
          /\ permitsOf'[p] = IF p \in G THEN permitsOf[p] + 1 ELSE permitsOf[p]
          /\ grantedOf'[p] = IF p \in G THEN grantedOf[p] + 1 ELSE grantedOf[p]
    BY <1>0, <1>row, <2>1, <2>2, <2>3 DEF Ticket, grantedOf
  <2> HIDE DEF G
  <2>5. G \in SUBSET Posts
    BY DEF G
  <2>6. Permit!Grant(G)
    BY <1>0, <2>4, <2>5, PermitGrant
  <2>7. QED
    BY <2>6 DEF G
<1>5. ASSUME NEW q \in Posts, NEW t \in Times, Edit(q, t) PROVE UNCHANGED Permit!permitVars
  <2>1. (\A p \in Posts : row'[p].status = row[p].status) /\ reopened' = reopened
    BY <1>5, <1>row DEF Edit, providerVars, Row
  <2>2. QED
    BY <1>1, <2>1
<1>6. ASSUME NEW S \in SUBSET Posts, RecoverRace(S) PROVE UNCHANGED Permit!permitVars
  <2>1. (\A p \in Posts : row'[p].status = row[p].status) /\ reopened' = reopened
    BY <1>6, <1>row DEF RecoverRace, providerVars, Row
  <2>2. QED
    BY <1>1, <2>1
<1>11. ASSUME NEW q \in Posts, LinkDraft(q) PROVE UNCHANGED Permit!permitVars
  <2>1. (\A p \in Posts : row'[p].status = row[p].status) /\ reopened' = reopened
    BY <1>11, <1>row DEF LinkDraft, providerVars, Row
  <2>2. QED
    BY <1>1, <2>1
<1>7. ASSUME \/ \E q \in Posts : DeleteCheck(q) \/ DeleteUnlink(q)
             \/ \E S \in SUBSET Posts : RetireCheck(S)
      PROVE  UNCHANGED Permit!permitVars
  <2>1. row' = row /\ reopened' = reopened
    BY <1>7 DEF DeleteCheck, DeleteUnlink, RetireCheck, rowVars, providerVars
  <2>2. QED
    BY <1>1, <2>1
<1>8. ASSUME NEW q \in Posts, DeleteCommit(q) PROVE Permit!Next
  <2>1. Permit!Withdraw({p \in {q} : row[p].status = "approved"})
    BY <1>3, <1>8 DEF DeleteCommit, providerVars
  <2>2. {p \in {q} : row[p].status = "approved"} \in SUBSET Posts
    OBVIOUS
  <2>3. QED
    BY <2>1, <2>2 DEF Permit!Next
<1>9. CASE RetireCommit
  <2> DEFINE L == {p \in Posts : removal[p] = "listed"}
  <2>1. Permit!Withdraw({p \in L : row[p].status = "approved"})
    BY <1>3, <1>9 DEF RetireCommit, providerVars
  <2>2. {p \in L : row[p].status = "approved"} \in SUBSET Posts
    OBVIOUS
  <2>3. QED
    BY <2>1, <2>2 DEF Permit!Next
<1>10. QED
  <2>1. ASSUME NEW q \in Posts, NEW t \in Times, Create(q, t) PROVE Permit!Next
    BY <1>2, <2>1 DEF Permit!Next
  <2>2. ASSUME NEW S \in SUBSET Posts, NEW R \in SUBSET Posts, NEW t \in Times, Recover(S, R, t)
        PROVE  Permit!Next
    <3>1. {p \in R : row[p].status = "posting"} \in SUBSET Posts
      OBVIOUS
    <3>2. QED
      BY <1>4, <2>2, <3>1 DEF Permit!Next
  <2>3. QED
    BY <1>5, <1>6, <1>11, <1>7, <1>8, <1>9, <2>1, <2>2 DEF Operator

\* A step that moves no execution into or out of "claimed" changes the permits
\* of the rows whose status it changes, and no others.
LEMMA HoldingKept ==
  ASSUME NEW p \in Posts, Holding(p)' = Holding(p), Ticket(p)' = Ticket(p)
  PROVE  permitsOf'[p] = permitsOf[p]
BY HoldingFinite, HoldingFinitePrime

\* An execution that lets go of its claim without publishing gives up a permit.
LEMMA ClaimDropped ==
  ASSUME TypeInv, NEW w \in Workers, pc[w] = "claimed", pc'[w] # "claimed",
         \A v \in Workers \ {w} : pc'[v] = pc[v] /\ current'[v] = current[v],
         row' = row
  PROVE  /\ current[w] \in Posts /\ permitsOf[current[w]] > 0
         /\ \A p \in Posts : permitsOf'[p] = IF p = current[w] THEN permitsOf[p] - 1
                                                               ELSE permitsOf[p]
<1>1. current[w] \in Posts
  BY DEF TypeInv, CurrentOK, Attempting
<1>2. ASSUME NEW p \in Posts
      PROVE  permitsOf'[p] = IF p = current[w] THEN permitsOf[p] - 1 ELSE permitsOf[p]
  <2>1. Ticket(p)' = Ticket(p) /\ Ticket(p) \in {0, 1}
    BY DEF Ticket
  <2>2. Holding(p)' = Holding(p) \ {w}
    BY DEF Holding
  <2>3. w \in Holding(p) <=> p = current[w]
    BY DEF Holding
  <2>4. CASE p = current[w]
    <3>0. Cardinality(Holding(p) \ {w}) = Cardinality(Holding(p)) - 1
      BY <2>3, <2>4, HoldingFinite, FS_RemoveElement
    <3>1. Cardinality(Holding(p)') = Cardinality(Holding(p)) - 1
      BY <2>2, <3>0
    <3>2. QED
      BY <2>1, <2>4, <3>1, HoldingFinite, HoldingFinitePrime
  <2>5. CASE p # current[w]
    BY <2>1, <2>2, <2>3, <2>5, HoldingKept
  <2>6. QED
    BY <2>4, <2>5
<1>3. permitsOf[current[w]] > 0
  <2>1. PICK p \in Posts : p = current[w]
    BY <1>1
  <2>2. w \in Holding(p)
    BY <2>1 DEF Holding
  <2>3. Cardinality(Holding(p)) # 0
    BY <2>2, HoldingFinite, FS_EmptySet
  <2>4. Ticket(p) \in {0, 1}
    BY DEF Ticket
  <2>5. QED
    BY <2>1, <2>3, <2>4, HoldingFinite
<1>4. QED
  BY <1>1, <1>2, <1>3

LEMMA WorkerRefines ==
  ASSUME TypeInv, NEW w \in Workers,
         RunNormal(w) \/ RunCanary(w) \/ Work(w) \/ Crash(w) \/ \E q \in Posts : Retry(w, q)
  PROVE  Permit!Next \/ UNCHANGED Permit!permitVars
<1> USE DEF rowVars, providerVars, Goto
<1>row. row \in [Posts -> Row] /\ \A p \in Posts : row[p] \in Row
  BY DEF TypeInv, TypeOK
<1>wrk. pc \in [Workers -> Step] /\ current \in [Workers -> Posts \cup {NoPost}]
  BY DEF TypeInv, TypeOK
<1>1. ASSUME StatusKept, \A p \in Posts : Holding(p)' = Holding(p),
             UNCHANGED <<commits, reopened>>
      PROVE  UNCHANGED Permit!permitVars
  <2>1. \A p \in Posts : Ticket(p)' = Ticket(p)
    BY <1>1 DEF Ticket, StatusKept
  <2>2. \A p \in Posts : permitsOf'[p] = permitsOf[p] /\ grantedOf'[p] = grantedOf[p]
    BY <1>1, <2>1, HoldingKept DEF grantedOf, StatusKept
  <2>3. QED
    BY <1>1, <2>2, PermitStutter
<1>2. ASSUME pc[w] # "claimed", pc'[w] # "claimed",
             \A v \in Workers \ {w} : pc'[v] = pc[v] /\ current'[v] = current[v]
      PROVE  \A p \in Posts : Holding(p)' = Holding(p)
  BY <1>2 DEF Holding
<1>4. CASE RunNormal(w) \/ RunCanary(w) \/ \E q \in Posts : Retry(w, q)
  <2>1. StatusKept
    BY <1>4, WorkerEffect DEF Retry, StatusKept
  <2>2. /\ pc[w] # "claimed" /\ pc'[w] # "claimed" /\ UNCHANGED <<commits, reopened>>
        /\ \A v \in Workers \ {w} : pc'[v] = pc[v] /\ current'[v] = current[v]
    BY <1>4, <1>wrk DEF RunNormal, RunCanary, Run, Retry
  <2>3. QED
    BY <1>1, <1>2, <2>1, <2>2
<1>5. CASE (\E q \in Posts : CheckLineage(w, q)) \/ Quarantine(w)
  <2>1. StatusKept
    BY <1>5, WorkerEffect
  <2>2. /\ pc[w] # "claimed" /\ pc'[w] # "claimed" /\ UNCHANGED <<commits, reopened>>
        /\ \A v \in Workers \ {w} : pc'[v] = pc[v] /\ current'[v] = current[v]
    BY <1>5, <1>wrk DEF CheckLineage, Quarantine, NextRow
  <2>3. QED
    BY <1>1, <1>2, <2>1, <2>2
<1>6. CASE Answer(w) \/ ReadForFinalize(w) \/ FinalizeException(w)
  <2>1. /\ pc[w] # "claimed" /\ pc'[w] # "claimed" /\ UNCHANGED <<row, commits, reopened>>
        /\ \A v \in Workers \ {w} : pc'[v] = pc[v] /\ current'[v] = current[v]
    BY <1>6, <1>wrk DEF Answer, ReadForFinalize, FinalizeException, NextRow
  <2>2. QED
    BY <1>1, <1>2, <2>1 DEF StatusKept
<1>7. CASE Refuse(w) \/ (Crash(w) /\ pc[w] = "claimed")
  <2>1. /\ pc[w] = "claimed" /\ pc'[w] # "claimed" /\ UNCHANGED <<row, commits, reopened>>
        /\ \A v \in Workers \ {w} : pc'[v] = pc[v] /\ current'[v] = current[v]
    BY <1>7, <1>wrk DEF Refuse, Crash
  <2>2. Permit!Withdraw({current[w]})
    BY <2>1, ClaimDropped, PermitWithdraw DEF grantedOf
  <2>3. QED
    BY <2>1, <2>2, ClaimDropped DEF Permit!Next
<1>8. CASE Crash(w) /\ pc[w] # "claimed"
  <2>1. /\ pc'[w] # "claimed" /\ UNCHANGED <<row, commits, reopened>>
        /\ \A v \in Workers \ {w} : pc'[v] = pc[v] /\ current'[v] = current[v]
    BY <1>8, <1>wrk DEF Crash
  <2>2. QED
    BY <1>1, <1>2, <1>8, <2>1 DEF StatusKept
<1>9. CASE Send(w)
  <2>1. /\ pc[w] = "claimed" /\ pc'[w] # "claimed" /\ UNCHANGED <<row, current, reopened>>
        /\ \A v \in Workers \ {w} : pc'[v] = pc[v]
        /\ commits' = [commits EXCEPT ![current[w]] = @ + 1]
    BY <1>9, <1>wrk DEF Send
  <2>2. /\ current[w] \in Posts /\ permitsOf[current[w]] > 0
        /\ \A p \in Posts : permitsOf'[p] = IF p = current[w] THEN permitsOf[p] - 1
                                                              ELSE permitsOf[p]
    BY <2>1, ClaimDropped
  <2>3. permitsOf' = [permitsOf EXCEPT ![current[w]] = @ - 1]
    BY <2>2 DEF permitsOf
  <2>4. grantedOf' = grantedOf
    BY <2>1 DEF grantedOf
  <2>5. Permit!Publish(current[w])
    BY <2>1, <2>2, <2>3, <2>4 DEF Permit!Publish
  <2>6. QED
    BY <2>2, <2>5 DEF Permit!Next
<1>10. CASE Claim(w)
  <2>1. current[w] \in Posts /\ pc[w] = "checked"
    BY <1>10 DEF Claim, TypeInv, CurrentOK
  <2>2. CASE row' = row /\ NextRow(w)
    <3>1. /\ pc[w] # "claimed" /\ pc'[w] # "claimed" /\ UNCHANGED <<commits, reopened>>
          /\ \A v \in Workers \ {w} : pc'[v] = pc[v] /\ current'[v] = current[v]
      BY <1>10, <1>wrk, <2>1, <2>2 DEF Claim, NextRow
    <3>2. QED
      BY <1>1, <1>2, <2>2, <3>1 DEF StatusKept
  <2>3. CASE row[current[w]].status = "approved"
    <3>1. /\ UNCHANGED <<current, commits, reopened>> /\ pc' = [pc EXCEPT ![w] = "claimed"]
          /\ \A p \in Posts : p # current[w] => row'[p] = row[p]
          /\ row'[current[w]].status = "posting"
      BY <1>10, <1>row, <2>1, <2>3 DEF Claim, Claimable, Approved, Row
    <3>2. ASSUME NEW p \in Posts PROVE permitsOf'[p] = permitsOf[p]
      <4>1. CASE p = current[w]
        <5>1. Ticket(p) = 1 /\ Ticket(p)' = 0
          BY <2>3, <3>1, <4>1 DEF Ticket
        <5>2. w \notin Holding(p) /\ Holding(p)' = Holding(p) \cup {w}
          BY <1>wrk, <2>1, <3>1, <4>1 DEF Holding
        <5>3. Cardinality(Holding(p)') = Cardinality(Holding(p)) + 1
          BY <5>2, HoldingFinite, FS_AddElement
        <5>4. QED
          BY <5>1, <5>3, HoldingFinite, HoldingFinitePrime
      <4>2. CASE p # current[w]
        <5>1. Ticket(p)' = Ticket(p)
          BY <3>1, <4>2 DEF Ticket
        <5>2. Holding(p)' = Holding(p)
          BY <1>wrk, <2>1, <3>1, <4>2 DEF Holding
        <5>3. QED
          BY <5>1, <5>2, HoldingKept
      <4>3. QED
        BY <4>1, <4>2
    <3>3. \A p \in Posts : grantedOf'[p] = grantedOf[p]
      BY <2>3, <3>1 DEF grantedOf
    <3>4. QED
      BY <3>1, <3>2, <3>3, PermitStutter
  <2>4. QED
    BY <1>10, <2>2, <2>3 DEF Claim, Claimable, Approved
<1>11. CASE Finalize(w)
  <2> DEFINE W == {p \in {current[w]} : row[p].status = "approved"}
  <2>1. /\ current[w] \in Posts /\ pc[w] = "recording" /\ UNCHANGED <<commits, reopened>>
        /\ pc'[w] # "claimed"
        /\ \A v \in Workers \ {w} : pc'[v] = pc[v] /\ current'[v] = current[v]
    BY <1>11, <1>wrk DEF Finalize, NextRow, TypeInv, CurrentOK, Attempting
  <2>2. \A p \in Posts : Holding(p)' = Holding(p)
    BY <1>2, <2>1
  <2>3. \A p \in Posts : \/ row'[p] = row[p] /\ ~(p = current[w] /\ Exists(p))
                         \/ p = current[w] /\ Exists(p) /\ row'[p].status = "posted"
    BY <1>11, <1>row, <2>1 DEF Finalize, Row
  <2>4. ASSUME NEW p \in Posts
        PROVE  /\ permitsOf'[p] = IF p \in W THEN permitsOf[p] - 1 ELSE permitsOf[p]
               /\ grantedOf'[p] = grantedOf[p]
               /\ p \in W => permitsOf[p] > 0
    <3>1. PICK n \in Nat : n = Cardinality(Holding(p))
      BY HoldingFinite
    <3>2. permitsOf[p] = Ticket(p) + n /\ permitsOf'[p] = Ticket(p)' + n
      BY <2>2, <3>1, HoldingFinite, HoldingFinitePrime
    <3>3. /\ p \in W => Ticket(p) = 1 /\ Ticket(p)' = 0
          /\ p \notin W => Ticket(p)' = Ticket(p) /\ Ticket(p) \in {0, 1}
      BY <2>3 DEF Ticket, Exists
    <3>4. grantedOf'[p] = grantedOf[p]
      BY <2>1, <2>3 DEF grantedOf, Exists
    <3>5. QED
      BY <3>2, <3>3, <3>4
  <2>5. W \in SUBSET Posts
    BY <2>1
  <2>6. Permit!Withdraw(W)
    <3> HIDE DEF W
    <3>1. QED
      BY <2>1, <2>4, <2>5, PermitWithdraw
  <2>7. QED
    BY <2>5, <2>6 DEF Permit!Next
<1>12. QED
  BY <1>4, <1>5, <1>6, <1>7, <1>8, <1>9, <1>10, <1>11 DEF Work

\* Whatever the step, the permits go through a step of PublicationPermit or none.
LEMMA StepRefines == TypeInv /\ [Next]_vars => [Permit!Next]_(Permit!permitVars)
<1> SUFFICES ASSUME TypeInv, [Next]_vars PROVE Permit!Next \/ UNCHANGED Permit!permitVars
  OBVIOUS
<1>row. row \in [Posts -> Row] /\ \A p \in Posts : row[p] \in Row
  BY DEF TypeInv, TypeOK
<1>1. ASSUME StatusKept, UNCHANGED <<pc, current, commits, reopened>>
      PROVE  UNCHANGED Permit!permitVars
  <2>1. \A p \in Posts : Ticket(p)' = Ticket(p) /\ Holding(p)' = Holding(p)
    BY <1>1 DEF Ticket, StatusKept, Holding
  <2>2. \A p \in Posts : permitsOf'[p] = permitsOf[p] /\ grantedOf'[p] = grantedOf[p]
    BY <1>1, <2>1, HoldingKept DEF grantedOf, StatusKept
  <2>3. QED
    BY <1>1, <2>2, PermitStutter
<1>2. CASE Tick \/ UNCHANGED vars
  BY <1>1, <1>2 DEF Tick, vars, rowVars, workerVars, providerVars, StatusKept
<1>3. ASSUME NEW p \in Posts, Age(p) PROVE UNCHANGED Permit!permitVars
  <2>1. StatusKept
    BY <1>3, <1>row DEF Age, StatusKept, Row
  <2>2. QED
    BY <1>1, <1>3, <2>1 DEF Age, workerVars, providerVars
<1>4. QED
  BY <1>2, <1>3, OperatorRefines, WorkerRefines DEF Next

LEMMA InitRefines == Init => Permit!Init
<1> SUFFICES ASSUME Init PROVE Permit!Init
  OBVIOUS
<1>1. ASSUME NEW p \in Posts PROVE permitsOf[p] = 0 /\ grantedOf[p] = 0
  <2>1. Holding(p) = {}
    BY DEF Init, Holding
  <2>2. Cardinality(Holding(p)) = 0
    BY <2>1, FS_EmptySet
  <2>3. Ticket(p) = 0
    BY DEF Init, Ticket
  <2>4. permitsOf[p] = 0
    BY <2>2, <2>3, HoldingFinite
  <2>5. QED
    BY <2>4 DEF Init, grantedOf
<1>2. permitsOf = [p \in Posts |-> 0]
  BY <1>1 DEF permitsOf
<1>3. grantedOf = [p \in Posts |-> 0]
  BY <1>1 DEF grantedOf
<1>4. QED
  BY <1>2, <1>3 DEF Permit!Init, Init

\* Delivery of scheduled posts implements PublicationPermit.
THEOREM DeliveryImplementsPermit == Spec => ImplementsPermit
<1>1. QED
  BY TypeCorrect, InitRefines, StepRefines, PTL DEF Spec, ImplementsPermit, Permit!Spec

\* What has been published or may still be was granted.
Budget == \A p \in Posts : commits[p] + permitsOf[p] <= grantedOf[p]

LEMMA BudgetInit == Init => Budget
<1> SUFFICES ASSUME Init, NEW p \in Posts PROVE commits[p] + permitsOf[p] <= grantedOf[p]
  BY DEF Budget
<1>1. permitsOf[p] = 0 /\ grantedOf[p] = 0 /\ commits[p] = 0
  BY InitRefines DEF Permit!Init
<1>2. QED
  BY <1>1

LEMMA BudgetStep ==
  ASSUME TypeInv, Budget, [Next]_vars
  PROVE  Budget'
<1>1. SUFFICES ASSUME NEW p \in Posts PROVE commits'[p] + permitsOf'[p] <= grantedOf'[p]
  BY DEF Budget
<1>2. /\ commits[p] \in Nat /\ permitsOf[p] \in Nat /\ grantedOf[p] \in Nat
      /\ commits[p] + permitsOf[p] <= grantedOf[p]
  <2>1. Ticket(p) \in Nat
    BY DEF Ticket
  <2>2. QED
    BY <2>1, HoldingFinite DEF TypeInv, TypeOK, grantedOf, Budget
<1>3. Permit!Next \/ UNCHANGED Permit!permitVars
  BY StepRefines
<1>4. CASE UNCHANGED Permit!permitVars
  BY <1>2, <1>4 DEF Permit!permitVars
<1>5. ASSUME NEW S \in SUBSET Posts, Permit!Grant(S) \/ Permit!Withdraw(S)
      PROVE  commits'[p] + permitsOf'[p] <= grantedOf'[p]
  BY <1>2, <1>5 DEF Permit!Grant, Permit!Withdraw
<1>6. ASSUME NEW q \in Posts, Permit!Publish(q)
      PROVE  commits'[p] + permitsOf'[p] <= grantedOf'[p]
  <2>1. commits \in [Posts -> Nat] /\ DOMAIN permitsOf = Posts
    BY DEF TypeInv, TypeOK, permitsOf
  <2>2. /\ commits'[p] = IF p = q THEN commits[p] + 1 ELSE commits[p]
        /\ permitsOf'[p] = IF p = q THEN permitsOf[p] - 1 ELSE permitsOf[p]
        /\ grantedOf'[p] = grantedOf[p]
    BY <1>6, <2>1 DEF Permit!Publish
  <2>3. QED
    BY <1>2, <2>2
<1>7. QED
  BY <1>3, <1>4, <1>5, <1>6 DEF Permit!Next

\* A post is published at most once for every approval it was given, whatever
\* crashes, lost answers, overlapping runs and retries happen.
THEOREM PublishedAtMostOncePerApproval == Spec => []AtMostOncePerApproval
<1>1. TypeInv /\ Budget => AtMostOncePerApproval
  <2> SUFFICES ASSUME TypeInv, Budget, NEW p \in Posts PROVE commits[p] <= 1 + reopened[p]
    BY DEF AtMostOncePerApproval
  <2>1. commits[p] \in Nat /\ reopened[p] \in Nat
    BY DEF TypeInv, TypeOK
  <2>2. permitsOf[p] \in Nat
    BY HoldingFinite DEF Ticket
  <2>3. grantedOf[p] <= 1 + reopened[p] /\ grantedOf[p] \in Nat
    BY <2>1 DEF grantedOf
  <2>4. commits[p] + permitsOf[p] <= grantedOf[p]
    BY DEF Budget
  <2>5. QED
    BY <2>1, <2>2, <2>3, <2>4
<1>2. TypeInv /\ Budget /\ [Next]_vars => Budget'
  BY BudgetStep
<1>3. QED
  BY <1>1, <1>2, TypeCorrect, BudgetInit, PTL DEF Spec

-----------------------------------------------------------------------------
(***************************************************************************)
(* The lineage check comes before the claim, and a draft once linked is    *)
(* never forgotten: deletions retire it.  So what an execution holds, it   *)
(* found linked, and so did the one that published it.                     *)
(***************************************************************************)
Linked(p) == p \in LineageRequired => draft[p] # "none"
LineageInv ==
  /\ \A w \in Workers : pc[w] \in {"checked"} \cup Attempting => Linked(current[w])
  /\ \A p \in Posts : commits[p] > 0 => Linked(p)

\* Nobody unlinks a draft without a trace.
LEMMA DraftRemembered ==
  ASSUME TypeInv, Next
  PROVE  \A p \in Posts : Linked(p) => Linked(p)'
<1> USE DEF TypeInv, TypeOK, Linked
<1>1. ASSUME Operator
      PROVE  \/ draft' = draft
             \/ \E p \in Posts : draft' = [draft EXCEPT ![p] = "linked"]
             \/ \E S \in SUBSET Posts : UnlinkDrafts(S)
  <2>1. ASSUME NEW p \in Posts, NEW t \in Times, Create(p, t) \/ Edit(p, t)
        PROVE  draft' = draft
    BY <2>1 DEF Create, Edit
  <2>2. ASSUME NEW p \in Posts, DeleteCheck(p) \/ DeleteCommit(p) PROVE draft' = draft
    BY <2>2 DEF DeleteCheck, DeleteCommit
  <2>3. ASSUME NEW S \in SUBSET Posts, RetireCheck(S) \/ RecoverRace(S) PROVE draft' = draft
    BY <2>3 DEF RetireCheck, RecoverRace
  <2>4. ASSUME NEW S \in SUBSET Posts, NEW R \in SUBSET Posts, NEW t \in Times, Recover(S, R, t)
        PROVE  draft' = draft
    BY <2>4 DEF Recover
  <2>5. ASSUME NEW p \in Posts, LinkDraft(p) PROVE draft' = [draft EXCEPT ![p] = "linked"]
    BY <2>5 DEF LinkDraft
  <2>6. ASSUME NEW p \in Posts, DeleteUnlink(p) PROVE UnlinkDrafts({p})
    BY <2>6 DEF DeleteUnlink
  <2>7. RetireCommit => UnlinkDrafts({p \in Posts : removal[p] = "listed"})
    BY DEF RetireCommit
  <2> QED BY <1>1, <2>1, <2>2, <2>3, <2>4, <2>5, <2>6, <2>7 DEF Operator
<1>2. ASSUME NEW w \in Workers, Finalize(w)
      PROVE  draft' = draft \/ draft' = [draft EXCEPT ![current[w]] = "published"]
  BY <1>2 DEF Finalize
<1>3. ASSUME NEW w \in Workers, Work(w), ~Finalize(w) PROVE draft' = draft
  BY <1>3 DEF Work, CheckLineage, Claim, Send, Refuse, Answer, Quarantine,
              ReadForFinalize, FinalizeException
<1>4. ASSUME NEW w \in Workers,
             RunNormal(w) \/ RunCanary(w) \/ Crash(w) \/ \E p \in Posts : Retry(w, p)
      PROVE  draft' = draft
  BY <1>4 DEF RunNormal, RunCanary, Run, Retry, Crash
<1>5. ASSUME Tick \/ \E p \in Posts : Age(p) PROVE draft' = draft
  BY <1>5 DEF Tick, Age
<1>6. draft' = draft \/ (\E p \in Posts : \/ draft' = [draft EXCEPT ![p] = "linked"]
                                          \/ draft' = [draft EXCEPT ![p] = "published"])
      \/ \E S \in SUBSET Posts : UnlinkDrafts(S)
  <2>1. \A w \in Workers : Finalize(w) => current[w] \in Posts
    BY DEF CurrentOK, Finalize, Attempting
  <2> QED BY <1>1, <1>2, <1>3, <1>4, <1>5, <2>1 DEF Next
<1> QED BY <1>6 DEF UnlinkDrafts

LEMMA LineageInit == Init => LineageInv
BY DEF Init, LineageInv, Attempting

\* An execution that starts holding a row has found it linked.
LEMMA HeldIsLinked ==
  ASSUME TypeInv, LineageInv, Next, NEW w \in Workers,
         pc'[w] \in {"checked"} \cup Attempting
  PROVE  current'[w] \in Posts /\ Linked(current'[w])
<1> USE DEF TypeInv, TypeOK, CurrentOK, LineageInv, Goto
<1>1. CASE pc'[w] = pc[w] /\ current'[w] = current[w]
  BY <1>1
<1>2. ASSUME Operator \/ Tick \/ \E p \in Posts : Age(p)
      PROVE  pc' = pc /\ current' = current
  BY <1>2, OperatorFrame DEF Tick, Age, workerVars
<1>3. ASSUME NEW v \in Workers, v # w,
             \/ RunNormal(v) \/ RunCanary(v) \/ Work(v) \/ Crash(v)
             \/ \E p \in Posts : Retry(v, p)
      PROVE  pc'[w] = pc[w] /\ current'[w] = current[w]
  BY <1>3 DEF RunNormal, RunCanary, Run, Retry, Crash, Work, CheckLineage, Claim, Send,
              Refuse, Answer, Quarantine, ReadForFinalize, Finalize, FinalizeException, NextRow
<1>4. ASSUME RunNormal(w) \/ RunCanary(w) \/ Crash(w) \/ \E p \in Posts : Retry(w, p)
      PROVE  FALSE
  BY <1>4 DEF RunNormal, RunCanary, Run, Retry, Crash, Attempting
<1>5. ASSUME NEW p \in Posts, CheckLineage(w, p) PROVE current'[w] = p /\ Linked(p)
  BY <1>5 DEF CheckLineage, LineageComplete, Linked, Attempting
<1>6. ASSUME Work(w), ~ \E p \in Posts : CheckLineage(w, p)
      PROVE  current'[w] = current[w] /\ pc[w] \in {"checked"} \cup Attempting
  BY <1>6 DEF Work, Claim, Send, Refuse, Answer, Quarantine, ReadForFinalize, Finalize,
              FinalizeException, NextRow, Attempting
<1> QED BY <1>1, <1>2, <1>3, <1>4, <1>5, <1>6 DEF Next

LEMMA LineageStep == TypeInv /\ LineageInv /\ [Next]_vars => LineageInv'
<1> SUFFICES ASSUME TypeInv, LineageInv, [Next]_vars PROVE LineageInv'
  OBVIOUS
<1>1. CASE UNCHANGED vars
  BY <1>1 DEF vars, workerVars, providerVars, LineageInv, Linked
<1>2. CASE Next
  <2>1. ASSUME NEW w \in Workers, pc'[w] \in {"checked"} \cup Attempting
        PROVE  Linked(current[w])'
    BY <1>2, <2>1, HeldIsLinked, DraftRemembered DEF Linked
  <2>2. ASSUME NEW p \in Posts, commits'[p] > 0 PROVE Linked(p)'
    <3>1. CASE commits'[p] = commits[p]
      BY <1>2, <2>2, <3>1, DraftRemembered DEF LineageInv
    <3>2. CASE \E w \in Workers : Send(w) /\ p = current[w]
      BY <1>2, <3>2, DraftRemembered DEF LineageInv, Send, Attempting
    <3>3. ASSUME ~ \E w \in Workers : Send(w) /\ p = current[w]
          PROVE  commits'[p] = commits[p]
      <4>1. ASSUME NEW w \in Workers, Send(w) PROVE commits'[p] = commits[p]
        BY <3>3, <4>1 DEF Send, TypeInv, TypeOK
      <4>2. ASSUME NEW w \in Workers, Work(w), ~Send(w) PROVE commits'[p] = commits[p]
        BY <4>2 DEF Work, CheckLineage, Claim, Refuse, Answer, Quarantine, ReadForFinalize,
                    Finalize, FinalizeException, providerVars
      <4>3. ASSUME NEW w \in Workers,
                   RunNormal(w) \/ RunCanary(w) \/ Crash(w) \/ \E q \in Posts : Retry(w, q)
            PROVE  commits'[p] = commits[p]
        BY <4>3 DEF RunNormal, RunCanary, Run, Retry, Crash, providerVars
      <4>4. ASSUME Operator \/ Tick \/ \E q \in Posts : Age(q) PROVE commits'[p] = commits[p]
        BY <4>4, OperatorFrame DEF Tick, Age, providerVars
      <4> QED BY <1>2, <4>1, <4>2, <4>3, <4>4 DEF Next
    <3> QED BY <3>1, <3>2, <3>3
  <2> QED BY <2>1, <2>2 DEF LineageInv
<1> QED BY <1>1, <1>2

\* No post whose lineage is mandatory is published with a draft that was never
\* linked, by however many runs and retries.
THEOREM PublishedIsLinked == Spec => []PublishedHasLineage
<1>1. TypeInv /\ LineageInv => PublishedHasLineage
  BY LineageAssumption DEF LineageInv, Linked, PublishedHasLineage
<1>2. Spec => []LineageInv
  BY TypeCorrect, LineageInit, LineageStep, PTL DEF Spec
<1> QED BY <1>1, <1>2, TypeCorrect, PTL

-----------------------------------------------------------------------------
(***************************************************************************)
(* Delivery implements PostRows.  Most statements leave status, time and   *)
(* cancellation of every row alone, and at most let go of a row; the rest  *)
(* are one action of PostRows each.  The mapping shows an id without a row *)
(* as a future one, which is why it may not be cancelled.                  *)
(***************************************************************************)
Uncancelled == \A p \in Posts : row[p].status = "absent" => ~row[p].cancelled

Still(p) == /\ row'[p].status = row[p].status
            /\ row'[p].cancelled = row[p].cancelled
            /\ row'[p].time = row[p].time
AllStill == now' = now /\ \A p \in Posts : Still(p)

LEMMA StillSeen ==
  ASSUME NEW p \in Posts, Still(p), now' = now
  PROVE  SeenAs(p)' = SeenAs(p)
BY DEF Still, SeenAs, Approved, Posting, Due

\* Who holds what changes only with the steps of the attempts.
LEMMA HeldKept ==
  ASSUME UNCHANGED <<pc, current>> PROVE heldOf' = heldOf
<1>1. \A p \in Posts : InFlight(p)' = InFlight(p)
  BY DEF InFlight
<1> QED BY <1>1 DEF heldOf

\* An execution that begins no attempt takes hold of nothing.
LEMMA HeldShrinks ==
  ASSUME NEW w \in Workers,
         \A v \in Workers \ {w} : pc'[v] = pc[v] /\ current'[v] = current[v],
         pc'[w] \in Attempting => pc[w] \in Attempting /\ current'[w] = current[w]
  PROVE  heldOf' \subseteq heldOf
<1>1. \A p \in Posts : InFlight(p)' \subseteq InFlight(p)
  BY DEF InFlight
<1> QED BY <1>1 DEF heldOf

\* A step that changes no row as the scheduler sees it, and takes hold of none.
LEMMA RowsLetGo ==
  ASSUME AllStill, heldOf' \subseteq heldOf PROVE Rows!Next
<1>1. rowsOf' = rowsOf
  BY StillSeen DEF AllStill, rowsOf
<1> QED BY <1>1 DEF Rows!Next, Rows!LetGo

\* Rows that the mapping shows with one new value, the others as before.
LEMMA RowsBecome ==
  ASSUME NEW S, NEW status, \A p \in Posts : SeenAs(p)' = IF p \in S THEN status ELSE SeenAs(p)
  PROVE  Rows!Becomes(S, status)
BY DEF rowsOf, Rows!Becomes

\* The operators' statements, and those of time, that touch neither status, time
\* nor cancellation of a row.
LEMMA StillSteps ==
  ASSUME TypeInv,
         \/ \E q \in Posts : LinkDraft(q) \/ DeleteCheck(q) \/ DeleteUnlink(q) \/ Age(q)
         \/ \E S \in SUBSET Posts : RetireCheck(S) \/ RecoverRace(S)
         \/ UNCHANGED vars
  PROVE  AllStill
<1> USE DEF rowVars, AllStill, Still
<1>row. row \in [Posts -> Row] /\ \A p \in Posts : row[p] \in Row
  BY DEF TypeInv, TypeOK
<1>0. ASSUME UNCHANGED rowVars PROVE AllStill
  BY <1>0
<1>1. ASSUME NEW q \in Posts, LinkDraft(q) PROVE AllStill
  BY <1>1, <1>row DEF LinkDraft, Row
<1>2. ASSUME NEW q \in Posts, Age(q) PROVE AllStill
  BY <1>2, <1>row DEF Age, Row
<1>3. ASSUME NEW q \in Posts, DeleteCheck(q) \/ DeleteUnlink(q) PROVE AllStill
  BY <1>3, <1>0 DEF DeleteCheck, DeleteUnlink
<1>4. ASSUME NEW S \in SUBSET Posts, RetireCheck(S) PROVE AllStill
  BY <1>4, <1>0 DEF RetireCheck
<1>5. ASSUME NEW S \in SUBSET Posts, RecoverRace(S) PROVE AllStill
  BY <1>5, <1>row DEF RecoverRace, Row
<1>6. ASSUME UNCHANGED vars PROVE AllStill
  BY <1>6, <1>0 DEF vars
<1> QED BY <1>1, <1>2, <1>3, <1>4, <1>5, <1>6

\* The steps of an execution other than its claim and its finalization.
LEMMA WorkerStill ==
  ASSUME TypeInv, NEW w \in Workers,
         \/ RunNormal(w) \/ RunCanary(w)
         \/ \E q \in Posts : CheckLineage(w, q) \/ Retry(w, q)
         \/ Send(w) \/ Refuse(w) \/ Answer(w) \/ Quarantine(w)
         \/ ReadForFinalize(w) \/ FinalizeException(w) \/ Crash(w)
  PROVE  AllStill
<1> USE DEF rowVars, AllStill, Still
<1>row. row \in [Posts -> Row] /\ \A p \in Posts : row[p] \in Row
  BY DEF TypeInv, TypeOK
<1>0. ASSUME UNCHANGED rowVars PROVE AllStill
  BY <1>0
<1>1. CASE RunNormal(w) \/ RunCanary(w)
  <2>1. LabelStale /\ now' = now
    BY <1>1 DEF RunNormal, RunCanary, Run
  <2> QED BY <2>1, <1>row DEF LabelStale, Row
<1>2. ASSUME NEW q \in Posts, CheckLineage(w, q) PROVE AllStill
  <2>1. row' = row \/ row' = [row EXCEPT ![q].err = "lineage"]
    BY <1>2 DEF CheckLineage
  <2>2. now' = now
    BY <1>2 DEF CheckLineage
  <2> QED BY <2>1, <2>2, <1>row DEF Row
<1>3. CASE Quarantine(w)
  <2>1. now' = now
    BY <1>3 DEF Quarantine
  <2>2. CASE row' = row
    BY <2>1, <2>2
  <2>3. CASE row' = [row EXCEPT ![current[w]].err = "failed",
                       ![current[w]].stamp = IF @ = "null" THEN "fresh" ELSE @]
    <3>1. current[w] \in Posts
      BY <1>3 DEF TypeInv, CurrentOK, Quarantine, Attempting
    <3> QED BY <2>1, <2>3, <3>1, <1>row DEF Row
  <2> QED BY <1>3, <2>2, <2>3 DEF Quarantine
<1>4. CASE \E q \in Posts : Retry(w, q)
  BY <1>4, <1>0 DEF Retry
<1>5. CASE Send(w) \/ Refuse(w) \/ Answer(w) \/ ReadForFinalize(w)
           \/ FinalizeException(w) \/ Crash(w)
  BY <1>5, <1>0 DEF Send, Refuse, Answer, ReadForFinalize, FinalizeException, Crash
<1> QED BY <1>1, <1>2, <1>3, <1>4, <1>5

\* A post that is scheduled for now is due at once; an id that was free is seen
\* as a future post.
LEMMA CreateRows ==
  ASSUME TypeInv, Uncancelled, NEW q \in Posts, NEW t \in Times, Create(q, t)
  PROVE  Rows!Next
<1> DEFINE S == IF t <= now THEN {q} ELSE {}
<1>1. /\ row[q].status = "absent" /\ ~row[q].cancelled /\ now' = now
      /\ row'[q].status = "approved" /\ ~row'[q].cancelled /\ row'[q].time = t
  BY DEF Create, TypeInv, TypeOK, Row, Uncancelled
<1>2. \A p \in Posts : p # q => Still(p)
  BY DEF Create, TypeInv, TypeOK, Still
<1>3. SeenAs(q) = "future"
  BY <1>1 DEF SeenAs, Approved, Posting
<1>4. SeenAs(q)' = IF t <= now THEN "due" ELSE "future"
  BY <1>1 DEF SeenAs, Approved, Posting, Due
<1>5. \A p \in Posts : SeenAs(p)' = IF p \in S THEN "due" ELSE SeenAs(p)
  BY <1>1, <1>2, <1>3, <1>4, StillSeen
<1>6. heldOf' = heldOf
  BY HeldKept DEF Create, workerVars
<1>7. Rows!ComeDue(S)
  BY <1>3, <1>5, <1>6, RowsBecome DEF Rows!ComeDue, rowsOf
<1> QED BY <1>7 DEF Rows!Next

\* An edit makes a post due or puts it off; a retired one it does not revive.
LEMMA EditRows ==
  ASSUME TypeInv, NEW q \in Posts, NEW t \in Times, Edit(q, t)
  PROVE  Rows!Next
<1>1. /\ row[q].status = "approved" /\ row'[q].status = "approved" /\ now' = now
      /\ row'[q].cancelled = row[q].cancelled /\ row'[q].time = t
  BY DEF Edit, Approved, TypeInv, TypeOK, Row
<1>2. \A p \in Posts : p # q => Still(p)
  BY DEF Edit, TypeInv, TypeOK, Still
<1>3. heldOf' = heldOf
  BY HeldKept DEF Edit, workerVars
<1>4. \A p \in Posts : p # q => SeenAs(p)' = SeenAs(p)
  BY <1>1, <1>2, StillSeen
<1>5. CASE SeenAs(q)' = SeenAs(q)
  <2>1. rowsOf' = rowsOf
    BY <1>4, <1>5 DEF rowsOf
  <2> QED BY <2>1, <1>3 DEF Rows!Next, Rows!LetGo
<1>6. CASE SeenAs(q)' # SeenAs(q)
  <2>1. SeenAs(q) \in {"future", "due"} /\ SeenAs(q)' \in {"future", "due"}
    BY <1>1, <1>6 DEF SeenAs, Approved, Posting
  <2>2. \A p \in Posts : SeenAs(p)' = IF p \in {q} THEN SeenAs(q)' ELSE SeenAs(p)
    BY <1>4
  <2>3. Rows!Becomes({q}, SeenAs(q)')
    BY <2>2 DEF rowsOf, Rows!Becomes
  <2>4. Rows!ComeDue({q}) \/ Rows!Reschedule(q)
    BY <1>3, <1>6, <2>1, <2>3 DEF Rows!ComeDue, Rows!Reschedule, rowsOf
  <2> QED BY <2>4 DEF Rows!Next
<1> QED BY <1>5, <1>6

\* The DELETE removes the rows of its list that are still approved.
LEMMA DropRows ==
  ASSUME TypeInv, NEW S \in SUBSET Posts, DropApproved(S), now' = now,
         UNCHANGED <<pc, current>>
  PROVE  Rows!Next
<1> DEFINE W == {p \in S : Approved(p)}
<1>row. \A p \in Posts : row[p] \in Row
  BY DEF TypeInv, TypeOK
<1>1. \A p \in Posts : row'[p] = IF p \in W THEN [row[p] EXCEPT !.status = "deleted"] ELSE row[p]
  BY DEF DropApproved
<1>2. \A p \in Posts : p \notin W => SeenAs(p)' = SeenAs(p)
  BY <1>1, StillSeen DEF Still
<1>3. \A p \in Posts : p \in W => SeenAs(p)' = "gone"
  BY <1>1, <1>row DEF SeenAs, Approved, Posting, Row
<1>4. \A p \in W : SeenAs(p) \in {"future", "due", "retired"}
  BY DEF SeenAs, Approved, Posting
<1>5. heldOf' = heldOf
  BY HeldKept
<1>6. W \in SUBSET Posts
  OBVIOUS
<1>7. Rows!Remove(W)
  <2> HIDE DEF W
  <2> QED BY <1>2, <1>3, <1>4, <1>5, <1>6, RowsBecome DEF Rows!Remove, Rows!Claimable, rowsOf
<1> QED BY <1>6, <1>7 DEF Rows!Next

\* The recovery takes rows that are due and attempts that are not settled.
LEMMA RecoverRows ==
  ASSUME TypeInv, NEW S \in SUBSET Posts, NEW R \in SUBSET Posts, NEW t \in Times,
         Recover(S, R, t)
  PROVE  Rows!Next
<1>row. now \in Nat /\ \A p \in Posts : row[p] \in Row
  BY DEF TypeInv, TypeOK, Times
<1>1. /\ now' = now /\ R \subseteq S
      /\ \A p \in Posts :
           row'[p] = IF p \in R THEN [row[p] EXCEPT !.status = "approved", !.time = t,
                                                     !.err = "none", !.stamp = "null"]
                     ELSE IF p \in S THEN [row[p] EXCEPT !.cancelled = TRUE,
                                                          !.err = "retired", !.stamp = "null"]
                     ELSE row[p]
  BY DEF Recover
<1>2. \A p \in S : /\ ~row[p].cancelled
                   /\ SeenAs(p) = IF Posting(p) THEN "posting" ELSE "due"
                   /\ row[p].status \in {"approved", "posting"}
  BY DEF Recover, Overdue, SeenAs, Approved, Posting
<1>3. ASSUME NEW p \in Posts, p \in R PROVE SeenAs(p)' = "future"
  <2>1. ~(t <= now)
    <3>1. t > now
      BY <1>3 DEF Recover
    <3>2. t \in Nat
      BY BoundsAssumption DEF Times
    <3> QED BY <3>1, <3>2, <1>row
  <2>2. row'[p].status = "approved" /\ row'[p].time = t /\ ~row'[p].cancelled
    BY <1>1, <1>2, <1>3, <1>row DEF Row
  <2> QED BY <1>1, <2>1, <2>2 DEF SeenAs, Approved, Posting, Due
<1>4. ASSUME NEW p \in Posts, p \in S \ R
      PROVE  SeenAs(p)' = IF SeenAs(p) = "due" THEN "retired" ELSE "withdrawn"
  <2>1. row'[p].status = row[p].status /\ row'[p].cancelled
    BY <1>1, <1>4, <1>row DEF Row
  <2> QED BY <1>2, <1>4, <2>1 DEF SeenAs, Approved, Posting
<1>5. ASSUME NEW p \in Posts, p \notin S PROVE SeenAs(p)' = SeenAs(p)
  BY <1>1, <1>5, StillSeen DEF Still
<1>6. rowsOf' = [p \in Posts |->
        IF p \in S \cap R THEN "future"
        ELSE IF p \in S THEN (IF rowsOf[p] = "due" THEN "retired" ELSE "withdrawn")
        ELSE rowsOf[p]]
  BY <1>1, <1>3, <1>4, <1>5 DEF rowsOf
<1>7. \A p \in S : rowsOf[p] \in {"due", "posting"}
  BY <1>2 DEF rowsOf
<1>8. heldOf' = heldOf
  BY HeldKept DEF Recover, workerVars
<1>9. Rows!Recover(S, R)
  BY <1>6, <1>7, <1>8 DEF Rows!Recover
<1> QED BY <1>9 DEF Rows!Next

\* Time makes future posts due.
LEMMA TickRows ==
  ASSUME TypeInv, Tick PROVE Rows!Next
<1> DEFINE S == {p \in Posts : SeenAs(p)' # SeenAs(p)}
<1>1. now' >= now /\ row' = row /\ now \in Nat /\ now' \in Nat
  BY DEF Tick, TypeInv, TypeOK, Times
<1>2. ASSUME NEW p \in S PROVE SeenAs(p) = "future" /\ SeenAs(p)' = "due"
  <2>1. row[p].time \in Nat
    BY DEF TypeInv, TypeOK, Row, Times
  <2>2. Due(p) => Due(p)'
    BY <1>1, <2>1 DEF Due
  <2> QED BY <1>1, <2>2 DEF SeenAs, Approved, Posting
<1>3. \A p \in Posts : SeenAs(p)' = IF p \in S THEN "due" ELSE SeenAs(p)
  BY <1>2
<1>4. heldOf' = heldOf
  BY HeldKept DEF Tick, workerVars
<1>5. S \in SUBSET Posts
  OBVIOUS
<1>6. Rows!ComeDue(S)
  <2> HIDE DEF S
  <2> QED BY <1>2, <1>3, <1>4, <1>5, RowsBecome DEF Rows!ComeDue, rowsOf
<1> QED BY <1>5, <1>6 DEF Rows!Next

\* The claim takes hold of an approved row, retired or not; or nobody's hold of
\* anything changes.
LEMMA ClaimRows ==
  ASSUME TypeInv, NEW w \in Workers, Claim(w) PROVE Rows!Next
<1>q. PICK q \in Posts : q = current[w]
  BY DEF TypeInv, CurrentOK, Attempting, Claim, Finalize
<1>wrk. /\ pc \in [Workers -> Step] /\ current \in [Workers -> Posts \cup {NoPost}]
        /\ pc[w] = "checked" /\ q = current[w] /\ now' = now
  BY <1>q DEF TypeInv, TypeOK, Claim
<1>1. CASE ~Claimable(q)
  <2>1. UNCHANGED row /\ NextRow(w)
    BY <1>1, <1>wrk DEF Claim
  <2>2. AllStill
    BY <2>1, <1>wrk DEF AllStill, Still
  <2>3. heldOf' \subseteq heldOf
    BY <2>1, <1>wrk, HeldShrinks DEF NextRow, Goto, Attempting
  <2> QED BY <2>2, <2>3, RowsLetGo
<1>2. CASE Claimable(q)
  <2>1. /\ row' = [row EXCEPT ![q].status = "posting", ![q].err = "none", ![q].stamp = "fresh"]
        /\ pc' = [pc EXCEPT ![w] = "claimed"] /\ current' = current
    BY <1>2, <1>wrk DEF Claim, Goto
  <2>2. /\ row'[q].status = "posting" /\ row'[q].cancelled = row[q].cancelled
        /\ \A p \in Posts : p # q => Still(p)
    BY <2>1, <1>wrk DEF TypeInv, TypeOK, Row, Still
  <2>3. /\ SeenAs(q) \in {"future", "due", "retired"}
        /\ SeenAs(q)' = IF SeenAs(q) = "retired" THEN "withdrawn" ELSE "posting"
    BY <1>2, <2>2 DEF Claimable, SeenAs, Approved, Posting
  <2>4. \A p \in Posts :
          SeenAs(p)' = IF p \in {q} THEN (IF SeenAs(q) = "retired" THEN "withdrawn" ELSE "posting")
                       ELSE SeenAs(p)
    BY <1>wrk, <2>2, <2>3, StillSeen
  <2>5. Rows!Becomes({q}, IF SeenAs(q) = "retired" THEN "withdrawn" ELSE "posting")
    BY <2>4 DEF rowsOf, Rows!Becomes
  <2>6. \A p \in Posts : InFlight(p)' = IF p = q THEN InFlight(p) \cup {w} ELSE InFlight(p)
    BY <1>wrk, <2>1 DEF InFlight, Attempting
  <2>7. heldOf' = heldOf \cup {q}
    BY <1>wrk, <2>6 DEF heldOf
  <2>8. Rows!Claim(q)
    BY <1>wrk, <2>3, <2>5, <2>7 DEF Rows!Claim, Rows!Claimable, rowsOf
  <2> QED BY <1>wrk, <2>8 DEF Rows!Next
<1> QED BY <1>1, <1>2

\* Finalization posts the row it holds, whatever its status, and lets go of it.
LEMMA FinalizeRows ==
  ASSUME TypeInv, NEW w \in Workers, Finalize(w) PROVE Rows!Next
<1>q. PICK q \in Posts : q = current[w]
  BY DEF TypeInv, CurrentOK, Attempting, Claim, Finalize
<1>wrk. /\ pc \in [Workers -> Step] /\ current \in [Workers -> Posts \cup {NoPost}]
        /\ pc[w] = "recording" /\ q = current[w] /\ now' = now /\ NextRow(w)
        /\ row \in [Posts -> Row]
  BY <1>q DEF TypeInv, TypeOK, Finalize
<1>1. /\ \A v \in Workers \ {w} : pc'[v] = pc[v] /\ current'[v] = current[v]
      /\ pc'[w] \notin Attempting
  BY <1>wrk DEF NextRow, Goto, Attempting
<1>2. CASE ~Exists(q)
  <2>1. AllStill
    BY <1>2, <1>wrk DEF Finalize, AllStill, Still
  <2> QED BY <1>1, <2>1, HeldShrinks, RowsLetGo
<1>3. CASE Exists(q)
  <2>1. row' = [row EXCEPT ![q].status = "posted", ![q].pub = answer[w],
                           ![q].err = "none", ![q].stamp = "null"]
    BY <1>3, <1>wrk DEF Finalize
  <2>2. row'[q].status = "posted" /\ \A p \in Posts : p # q => Still(p)
    BY <2>1, <1>wrk DEF Row, Still
  <2>3. SeenAs(q)' = "posted"
    BY <2>2 DEF SeenAs, Approved, Posting
  <2>4. SeenAs(q) # "gone"
    BY <1>3 DEF Exists, SeenAs, Approved, Posting
  <2>5. \A p \in Posts : SeenAs(p)' = IF p \in {q} THEN "posted" ELSE SeenAs(p)
    BY <1>wrk, <2>2, <2>3, StillSeen
  <2>6. \A p \in Posts : InFlight(p)' = InFlight(p) \ {w}
    BY <1>1, StepsAside
  <2>7. q \in heldOf /\ heldOf' \in {heldOf, heldOf \ {q}}
    <3>1. w \in InFlight(q)
      BY <1>wrk DEF InFlight, Attempting
    <3>2. \A p \in Posts : p # q => InFlight(p)' = InFlight(p)
      BY <1>wrk, <2>6 DEF InFlight
    <3> QED BY <1>wrk, <3>1, <3>2 DEF heldOf
  <2>8. Rows!Settle(q)
    BY <1>wrk, <2>4, <2>5, <2>7, RowsBecome DEF Rows!Settle, rowsOf
  <2> QED BY <1>wrk, <2>8 DEF Rows!Next
<1> QED BY <1>2, <1>3

\* No step leaves an id without a row cancelled.
LEMMA UncancelledStep == TypeInv /\ Uncancelled /\ [Next]_vars => Uncancelled'
<1> SUFFICES ASSUME TypeInv, Uncancelled, [Next]_vars, NEW p \in Posts
             PROVE  row'[p].status = "absent" => ~row'[p].cancelled
  BY DEF Uncancelled
<1> DEFINE Kept == row'[p].status = "absent" => ~row'[p].cancelled
<1>row. row \in [Posts -> Row] /\ row[p] \in Row
  BY DEF TypeInv, TypeOK
<1>1. ASSUME Still(p) PROVE Kept
  BY <1>1 DEF Uncancelled, Still
<1>2. ASSUME AllStill PROVE Kept
  BY <1>1, <1>2 DEF AllStill
<1>3. ASSUME NEW q \in Posts, NEW t \in Times, Create(q, t) PROVE Kept
  BY <1>row, <1>1, <1>3 DEF Create, Row, Still
<1>4. ASSUME NEW q \in Posts, NEW t \in Times, Edit(q, t) PROVE Kept
  BY <1>row, <1>1, <1>4 DEF Edit, Approved, Row, Uncancelled
<1>5. ASSUME NEW S \in SUBSET Posts, DropApproved(S) PROVE Kept
  <2>1. row'[p] \in {row[p], [row[p] EXCEPT !.status = "deleted"]}
    BY <1>5 DEF DropApproved
  <2> QED BY <2>1, <1>row DEF Row, Uncancelled
<1>6. ASSUME NEW S \in SUBSET Posts, NEW R \in SUBSET Posts, NEW t \in Times, Recover(S, R, t)
      PROVE  Kept
  <2>1. row'[p] = IF p \in R THEN [row[p] EXCEPT !.status = "approved", !.time = t,
                                                 !.err = "none", !.stamp = "null"]
                  ELSE IF p \in S THEN [row[p] EXCEPT !.cancelled = TRUE, !.err = "retired",
                                                       !.stamp = "null"]
                  ELSE row[p]
    BY <1>6 DEF Recover
  <2>2. p \in S => row[p].status \in {"approved", "posting"}
    BY <1>6 DEF Recover, Overdue, Approved, Posting
  <2> QED BY <2>1, <2>2, <1>row DEF Row, Uncancelled
<1>7. ASSUME NEW w \in Workers, Claim(w) PROVE Kept
  <2>1. CASE row' = row
    BY <2>1 DEF Uncancelled
  <2>2. CASE row' = [row EXCEPT ![current[w]].status = "posting",
                                ![current[w]].err = "none", ![current[w]].stamp = "fresh"]
    BY <2>2, <1>row DEF Row, Uncancelled
  <2> QED BY <1>7, <2>1, <2>2 DEF Claim
<1>8. ASSUME NEW w \in Workers, Finalize(w) PROVE Kept
  <2>1. CASE row' = row
    BY <2>1 DEF Uncancelled
  <2>2. CASE row' = [row EXCEPT ![current[w]].status = "posted", ![current[w]].pub = answer[w],
                                ![current[w]].err = "none", ![current[w]].stamp = "null"]
    BY <2>2, <1>row DEF Row, Uncancelled
  <2> QED BY <1>8, <2>1, <2>2 DEF Finalize
<1>9. CASE Tick
  BY <1>9 DEF Tick, Uncancelled
<1>10. CASE Operator
  <2>1. ASSUME NEW q \in Posts, DeleteCommit(q) PROVE Kept
    BY <2>1, <1>5 DEF DeleteCommit
  <2>2. CASE RetireCommit
    BY <2>2, <1>5 DEF RetireCommit
  <2>3. ASSUME \/ \E q \in Posts : LinkDraft(q) \/ DeleteCheck(q) \/ DeleteUnlink(q)
               \/ \E S \in SUBSET Posts : RetireCheck(S) \/ RecoverRace(S)
        PROVE  Kept
    BY <2>3, <1>2, StillSteps
  <2> QED BY <1>10, <1>3, <1>4, <1>6, <2>1, <2>2, <2>3 DEF Operator
<1>11. ASSUME NEW w \in Workers, Work(w) PROVE Kept
  BY <1>11, <1>2, <1>7, <1>8, WorkerStill DEF Work
<1> QED BY <1>2, <1>9, <1>10, <1>11, StillSteps, WorkerStill DEF Next

\* Whatever the step, the rows go through a step of PostRows or none.
LEMMA RowsRefine == TypeInv /\ Uncancelled /\ [Next]_vars => [Rows!Next]_(Rows!rowsVars)
<1> SUFFICES ASSUME TypeInv, Uncancelled, [Next]_vars PROVE Rows!Next
  OBVIOUS
<1>wrk. pc \in [Workers -> Step] /\ current \in [Workers -> Posts \cup {NoPost}]
  BY DEF TypeInv, TypeOK
<1>1. CASE Operator
  <2>1. ASSUME NEW q \in Posts, DeleteCommit(q) PROVE Rows!Next
    BY <2>1, DropRows DEF DeleteCommit, workerVars
  <2>2. CASE RetireCommit
    BY <2>2, DropRows DEF RetireCommit, workerVars
  <2>3. ASSUME \/ \E q \in Posts : LinkDraft(q) \/ DeleteCheck(q) \/ DeleteUnlink(q)
               \/ \E S \in SUBSET Posts : RetireCheck(S) \/ RecoverRace(S)
        PROVE  Rows!Next
    <3>1. AllStill
      BY <2>3, StillSteps
    <3>2. heldOf' = heldOf
      BY <1>1, OperatorFrame, HeldKept
    <3> QED BY <3>1, <3>2, RowsLetGo
  <2> QED BY <1>1, <2>1, <2>2, <2>3, CreateRows, EditRows, RecoverRows DEF Operator
<1>2. ASSUME NEW w \in Workers,
             \/ RunNormal(w) \/ RunCanary(w) \/ \E q \in Posts : CheckLineage(w, q) \/ Retry(w, q)
             \/ Send(w) \/ Refuse(w) \/ Answer(w) \/ Quarantine(w)
             \/ ReadForFinalize(w) \/ FinalizeException(w) \/ Crash(w)
      PROVE  Rows!Next
  <2>1. AllStill
    BY <1>2, WorkerStill
  <2>2. /\ \A v \in Workers \ {w} : pc'[v] = pc[v] /\ current'[v] = current[v]
        /\ pc'[w] \in Attempting => pc[w] \in Attempting /\ current'[w] = current[w]
    <3> USE <1>wrk DEF Goto, NextRow, Attempting
    <3>1. CASE RunNormal(w) \/ RunCanary(w) \/ \E q \in Posts : Retry(w, q)
      BY <3>1 DEF RunNormal, RunCanary, Run, Retry
    <3>2. ASSUME NEW q \in Posts, CheckLineage(w, q)
          PROVE  /\ \A v \in Workers \ {w} : pc'[v] = pc[v] /\ current'[v] = current[v]
                 /\ pc'[w] \notin Attempting
      BY <3>2 DEF CheckLineage
    <3>3. CASE Send(w) \/ Refuse(w) \/ Answer(w)
      BY <3>3 DEF Send, Refuse, Answer
    <3>4. CASE Quarantine(w) \/ ReadForFinalize(w)
      BY <3>4 DEF Quarantine, ReadForFinalize
    <3>5. CASE FinalizeException(w) \/ Crash(w)
      BY <3>5 DEF FinalizeException, Crash
    <3> QED BY <1>2, <3>1, <3>2, <3>3, <3>4, <3>5
  <2>3. heldOf' \subseteq heldOf
    BY <2>2, HeldShrinks
  <2> QED BY <2>1, <2>3, RowsLetGo
<1>3. ASSUME (\E q \in Posts : Age(q)) \/ UNCHANGED vars PROVE Rows!Next
  <2>1. AllStill
    BY <1>3, StillSteps
  <2>2. heldOf' = heldOf
    BY <1>3, HeldKept DEF Age, vars, workerVars
  <2> QED BY <2>1, <2>2, RowsLetGo
<1> QED BY <1>1, <1>2, <1>3, ClaimRows, FinalizeRows, TickRows DEF Next, Work

LEMMA InitRows == Init => Rows!Init /\ Uncancelled
<1> SUFFICES ASSUME Init PROVE Rows!Init /\ Uncancelled
  OBVIOUS
<1>1. \A p \in Posts : row[p].status = "absent" /\ ~row[p].cancelled
  BY DEF Init
<1>2. rowsOf \in [Posts -> {"future", "due"}]
  BY <1>1 DEF rowsOf, SeenAs, Approved, Posting
<1>3. heldOf = {}
  BY DEF Init, heldOf, InFlight, Attempting
<1> QED BY <1>1, <1>2, <1>3 DEF Rows!Init, Uncancelled

\* Delivery of scheduled posts implements PostRows: every statement of every
\* execution and of the operators is, on the rows, a step that PostRows allows.
THEOREM DeliveryImplementsRows == Spec => ImplementsRows
<1>1. QED
  BY TypeCorrect, InitRows, UncancelledStep, RowsRefine, PTL
     DEF Spec, ImplementsRows, Rows!Spec

\* A row that a recovery retired never gets back into the queue: not by an edit,
\* which the status alone guards, not by a failed retry, not by a later recovery.
THEOREM RetiredStaysOut == Spec => Rows!NeverBack
<1> USE DEF Rows!OutOfQueue
<1>1. ASSUME [Rows!Next]_(Rows!rowsVars), NEW p \in Posts, rowsOf[p] \in Rows!OutOfQueue
      PROVE  rowsOf'[p] \in Rows!OutOfQueue
  <2>1. ASSUME NEW S \in SUBSET Posts, Rows!ComeDue(S) \/ Rows!Remove(S)
        PROVE  rowsOf'[p] \in Rows!OutOfQueue
    BY <1>1, <2>1 DEF Rows!ComeDue, Rows!Remove, Rows!Becomes
  <2>2. ASSUME NEW S \in SUBSET Posts, NEW R \in SUBSET Posts, Rows!Recover(S, R)
        PROVE  rowsOf'[p] \in Rows!OutOfQueue
    BY <1>1, <2>2 DEF Rows!Recover
  <2>3. ASSUME NEW q \in Posts, Rows!Reschedule(q) \/ Rows!Claim(q) \/ Rows!Settle(q)
        PROVE  rowsOf'[p] \in Rows!OutOfQueue
    BY <1>1, <2>3 DEF Rows!Reschedule, Rows!Claim, Rows!Settle, Rows!Becomes, Rows!Claimable
  <2>4. CASE Rows!LetGo \/ UNCHANGED Rows!rowsVars
    BY <1>1, <2>4 DEF Rows!LetGo, Rows!rowsVars
  <2> QED BY <1>1, <2>1, <2>2, <2>3, <2>4 DEF Rows!Next
<1>2. [Rows!Next]_(Rows!rowsVars)
        => [\A p \in Posts : rowsOf[p] \in Rows!OutOfQueue
                             => rowsOf'[p] \in Rows!OutOfQueue]_(Rows!rowsVars)
  BY <1>1
<1> QED BY <1>2, DeliveryImplementsRows, PTL DEF ImplementsRows, Rows!Spec, Rows!NeverBack

\* A row turns to posted only by the finalization of an execution that holds it,
\* whoever else reads, edits, deletes or recovers the row meanwhile.
THEOREM PostedByItsHolder == Spec => Rows!PostedByHolder
<1>1. ASSUME [Rows!Next]_(Rows!rowsVars), NEW p \in Posts,
             rowsOf[p] # "posted", rowsOf'[p] = "posted"
      PROVE  p \in heldOf
  <2>1. ASSUME NEW S \in SUBSET Posts, Rows!ComeDue(S) \/ Rows!Remove(S) PROVE FALSE
    BY <1>1, <2>1 DEF Rows!ComeDue, Rows!Remove, Rows!Becomes
  <2>2. ASSUME NEW S \in SUBSET Posts, NEW R \in SUBSET Posts, Rows!Recover(S, R) PROVE FALSE
    BY <1>1, <2>2 DEF Rows!Recover
  <2>3. ASSUME NEW q \in Posts, Rows!Reschedule(q) \/ Rows!Claim(q) PROVE FALSE
    BY <1>1, <2>3 DEF Rows!Reschedule, Rows!Claim, Rows!Becomes
  <2>4. ASSUME NEW q \in Posts, Rows!Settle(q) PROVE p \in heldOf
    BY <1>1, <2>4 DEF Rows!Settle, Rows!Becomes
  <2>5. CASE Rows!LetGo \/ UNCHANGED Rows!rowsVars
    BY <1>1, <2>5 DEF Rows!LetGo, Rows!rowsVars
  <2> QED BY <1>1, <2>1, <2>2, <2>3, <2>4, <2>5 DEF Rows!Next
<1>2. [Rows!Next]_(Rows!rowsVars)
        => [\A p \in Posts : rowsOf[p] # "posted" /\ rowsOf'[p] = "posted"
                             => p \in heldOf]_(Rows!rowsVars)
  BY <1>1
<1> QED BY <1>2, DeliveryImplementsRows, PTL DEF ImplementsRows, Rows!Spec, Rows!PostedByHolder
=============================================================================
