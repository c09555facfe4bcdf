------------------------- MODULE ManifestSlot_proofs -------------------------
(***************************************************************************)
(* Proofs about ManifestSlot, for every set of candidates, sources and     *)
(* calls and every bound.                                                  *)
(***************************************************************************)
EXTENDS ManifestSlot, TLAPS

RowsTyped ==
  /\ posts \in [Ids -> Post]
  /\ \A p, q \in Ids : Live(p) /\ Live(q) /\ posts[p].op = posts[q].op => p = q
RecordsTyped ==
  /\ lineup \in Lineup
  /\ hyp \in Hypothesis
  /\ plan \in Plan
  /\ draft \in [Operations -> MaybePost]
  /\ event \in [Operations -> Event]
WorkersTyped ==
  /\ repair \in Repair
  /\ deletion \in Deletion
  /\ review \in MaybePost
  /\ submits \in Nat /\ repairs \in Nat /\ deletions \in Nat
  /\ overlaps \subseteq OverlapKinds
JobsTyped == job \in [Calls -> Job]

LEMMA TypeParts == TypeOK <=> RowsTyped /\ RecordsTyped /\ WorkersTyped /\ JobsTyped
BY DEF TypeOK, RowsTyped, RecordsTyped, WorkersTyped, JobsTyped

\* A call that goes to another step, or ends, stays a call.
LEMMA GotoTyped ==
  ASSUME JobsTyped, NEW c \in Calls, NEW step \in Steps, Goto(c, step)
  PROVE  JobsTyped'
BY DEF JobsTyped, Goto, Job
LEMMA EndTyped ==
  ASSUME JobsTyped, NEW c \in Calls, End(c)
  PROVE  JobsTyped'
BY DEF JobsTyped, End, Job, NoJob, Steps, MaybeOperation, MaybePost

LEMMA GetsTyped ==
  ASSUME JobsTyped, NEW c \in Calls, NEW p \in MaybePost, NEW step \in Steps, Gets(c, p, step)
  PROVE  JobsTyped'
<1>1. job \in [Calls -> Job] /\ job[c] \in Job
  BY DEF JobsTyped
<1>2. [job[c] EXCEPT !.post = p, !.found = NoPost, !.step = step] \in Job
  BY <1>1 DEF Job, MaybePost
<1>3. job' = [job EXCEPT ![c] = [job[c] EXCEPT !.post = p, !.found = NoPost, !.step = step]]
  BY <1>1 DEF Gets
<1> QED BY <1>1, <1>2, <1>3 DEF JobsTyped

LEMMA InitTyped == Init => TypeOK
<1> SUFFICES ASSUME Init PROVE TypeOK
  OBVIOUS
<1>1. RowsTyped
  BY DEF Init, RowsTyped, Post, MaybeOperation, Live
<1>2. RecordsTyped
  BY DEF Init, RecordsTyped, Lineup, Hypothesis, Plan, Event, MaybePost, MaybeOperation
<1>3. WorkersTyped
  BY DEF Init, WorkersTyped, Repair, Deletion, NoDeletion, MaybePost
<1>4. JobsTyped
  BY DEF Init, JobsTyped, Job, NoJob, Steps, MaybeOperation, MaybePost
<1> QED BY <1>1, <1>2, <1>3, <1>4, TypeParts

\* What each action does to the rows, by the tables it writes.
LEMMA RowsStep ==
  ASSUME TypeOK, Next
  PROVE  RowsTyped'
<1> USE TypeParts DEF RowsTyped
<1>1. CASE UNCHANGED posts
  BY <1>1 DEF Live
<1>2. ASSUME NEW c \in Calls, Create(c) PROVE RowsTyped'
  <2> DEFINE o == job[c].op
  <2>1. o \in MaybeOperation
    BY DEF JobsTyped, Job
  <2> HIDE DEF o
  <2>2. CASE UNCHANGED posts
    BY <2>2, <1>1
  <2>3. CASE RowsOf(o) = {} /\ \E p \in Ids : posts[p].status = "unborn" /\ posts' = [posts EXCEPT ![p] = [op |-> o, status |-> "approved"]]
    <3>1. PICK p \in Ids : posts' = [posts EXCEPT ![p] = [op |-> o, status |-> "approved"]]
      BY <2>3
    <3>2. posts' \in [Ids -> Post]
      BY <3>1, <2>1 DEF Post
    <3>3. \A q \in Ids : q # p /\ Live(q)' => Live(q) /\ posts'[q].op = posts[q].op /\ posts[q].op # o
      BY <3>1, <2>3 DEF Live, RowsOf
    <3>4. posts'[p].op = o
      BY <3>1
    <3> QED BY <3>2, <3>3, <3>4
  <2> QED BY <1>2, <2>2, <2>3 DEF Create, o
<1>3. ASSUME NEW d \in MaybePost, posts' = Deleted(d) PROVE RowsTyped'
  <2>1. posts' \in [Ids -> Post]
    BY <1>3 DEF Deleted, Post
  <2>2. \A q \in Ids : Live(q)' => Live(q) /\ posts'[q].op = posts[q].op
    BY <1>3 DEF Deleted, Live
  <2> QED BY <2>1, <2>2
<1>4. ASSUME NEW p \in Ids, Claim(p) PROVE RowsTyped'
  <2>1. posts' \in [Ids -> Post]
    BY <1>4 DEF Claim, Post
  <2>2. \A q \in Ids : Live(q)' => Live(q) /\ posts'[q].op = posts[q].op
    BY <1>4 DEF Claim, Live
  <2> QED BY <2>1, <2>2
<1>5. deletion.post \in MaybePost
  BY DEF WorkersTyped, Deletion
<1>6. CASE DeletePost
  BY <1>6, <1>3, <1>5 DEF DeletePost
<1>7. CASE RetireBatch
  BY <1>7, <1>3, <1>5 DEF RetireBatch
<1> HIDE DEF RowsTyped
<1> QED BY <1>1, <1>2, <1>4, <1>6, <1>7 DEF Next, slot, Match, ReadHypothesis, WriteHypothesis, ReadLineup,
  FindListedPost, MissListedPost, ConsiderReuse, LinkReused, FindExact, FindById, CheckCoverage, LoseSource,
  PersistLineage, Verify, LinkOutcome, Append, Crash, LookForMissing, InspectPlan, Displace, RefreshSource,
  AbandonRepair, CheckDeletable, CheckReviewable, UnlinkDrafts, RetireLineup, AbandonDeletion, Keep

LEMMA WorkersStep ==
  ASSUME TypeOK, Next
  PROVE  WorkersTyped'
<1> USE TypeParts DEF WorkersTyped, Others, counts, Noticed, OverlapKinds
<1>1. ASSUME NEW c \in Calls, NEW o \in Operations, Match(c, o) PROVE WorkersTyped'
  BY <1>1 DEF Match
<1>2. ASSUME NEW c \in Calls, CheckCoverage(c) PROVE WorkersTyped'
  BY <1>2 DEF CheckCoverage
<1>3. CASE UNCHANGED Others
  BY <1>3
<1>4. CASE LookForMissing
  BY <1>4 DEF LookForMissing, Repair
<1>5. CASE InspectPlan
  BY <1>5 DEF InspectPlan, Repair
<1>6. ASSUME NEW s \in Sources, Displace(s) \/ RefreshSource(s) PROVE WorkersTyped'
  BY <1>6 DEF Displace, RefreshSource, Repair
<1>7. CASE AbandonRepair
  BY <1>7 DEF AbandonRepair, Repair
<1>8. ASSUME NEW p \in Ids, CheckDeletable(p) PROVE WorkersTyped'
  BY <1>8 DEF CheckDeletable, Deletion, MaybePost
<1>9. ASSUME NEW p \in Ids, CheckReviewable(p) PROVE WorkersTyped'
  BY <1>9 DEF CheckReviewable, MaybePost
<1>10. CASE DeletePost \/ UnlinkDrafts
  BY <1>10 DEF DeletePost, UnlinkDrafts, Deletion
<1>11. CASE RetireLineup \/ RetireBatch \/ AbandonDeletion
  BY <1>11 DEF RetireLineup, RetireBatch, AbandonDeletion, Deletion, NoDeletion, MaybePost
<1>12. CASE Keep
  BY <1>12 DEF Keep, MaybePost
<1> HIDE DEF WorkersTyped
<1> QED BY <1>1, <1>2, <1>3, <1>4, <1>5, <1>6, <1>7, <1>8, <1>9, <1>10, <1>11, <1>12 DEF Next, slot,
  ReadHypothesis, WriteHypothesis, ReadLineup, FindListedPost, MissListedPost, ConsiderReuse, LinkReused,
  FindExact, FindById, LoseSource, Create, PersistLineage, Verify, LinkOutcome, Append, Crash, Claim

LEMMA RecordsStep ==
  ASSUME TypeOK, Next
  PROVE  RecordsTyped'
<1>1. RecordsTyped /\ WorkersTyped /\ RowsTyped /\ JobsTyped
  BY TypeParts
<1>2. CASE UNCHANGED <<lineup, hyp, plan, draft, event>>
  BY <1>1, <1>2 DEF RecordsTyped
<1>3. \A c \in Calls : job[c] \in Job
  BY <1>1 DEF JobsTyped
<1>4. ASSUME NEW c \in Calls, WriteHypothesis(c) PROVE RecordsTyped'
  <2>1. hyp' \in Hypothesis
    BY <1>1, <1>3, <1>4 DEF WriteHypothesis, NotedHypothesis, RecordsTyped, Hypothesis, Job
  <2> QED BY <2>1, <1>1, <1>4 DEF WriteHypothesis, RecordsTyped
<1>5. ASSUME NEW c \in Calls, MissListedPost(c) PROVE RecordsTyped'
  <2>1. lineup' \in Lineup
    BY <1>1, <1>5 DEF MissListedPost, RecordsTyped, Lineup, MaybePost
  <2> QED BY <2>1, <1>1, <1>5 DEF MissListedPost, RecordsTyped
<1>6. ASSUME NEW p \in MaybePost, NEW status \in {"scheduled", "reused", "lineage_failed"}
      PROVE  LinkedHypothesis(p, status) \in Hypothesis
  BY <1>1 DEF LinkedHypothesis, RecordsTyped, Hypothesis
<1>7. ASSUME NEW c \in Calls, LinkReused(c) \/ LinkOutcome(c) PROVE RecordsTyped'
  <2>1. hyp' \in Hypothesis
    BY <1>3, <1>6, <1>7 DEF LinkReused, LinkOutcome, Job
  <2> QED BY <2>1, <1>1, <1>7 DEF LinkReused, LinkOutcome, RecordsTyped
<1>8. ASSUME NEW c \in Calls, LoseSource(c) PROVE RecordsTyped'
  <2>1. hyp' \in Hypothesis
    BY <1>1, <1>8 DEF LoseSource, RecordsTyped, Hypothesis
  <2> QED BY <2>1, <1>1, <1>8 DEF LoseSource, RecordsTyped
<1>9. ASSUME NEW c \in Calls, PersistLineage(c) PROVE RecordsTyped'
  <2>1. job[c].post \in MaybePost /\ job[c].op \in MaybeOperation
    BY <1>3 DEF Job
  <2>2. hyp' \in Hypothesis
    BY <1>6, <1>9, <2>1 DEF PersistLineage
  <2>3. lineup' \in Lineup
    BY <1>9, <2>1 DEF PersistLineage, Listed, Lineup
  <2>4. plan' \in Plan
    BY <1>1, <1>9 DEF PersistLineage, RecordsTyped, Plan
  <2>5. draft' \in [Operations -> MaybePost]
    BY <1>1, <1>9, <2>1 DEF PersistLineage, RecordsTyped
  <2> QED BY <2>2, <2>3, <2>4, <2>5, <1>1, <1>9 DEF PersistLineage, RecordsTyped
<1>10. ASSUME NEW c \in Calls, Append(c) PROVE RecordsTyped'
  <2>1. job[c].post \in MaybePost
    BY <1>3 DEF Job
  <2>2. event' \in [Operations -> Event]
    BY <1>1, <1>10, <2>1 DEF Append, RecordsTyped, Event
  <2> QED BY <2>2, <1>1, <1>10 DEF Append, RecordsTyped
<1>11. ASSUME NEW s \in Sources, Displace(s) PROVE RecordsTyped'
  <2>1. lineup' \in Lineup /\ hyp' \in Hypothesis /\ plan' \in Plan
    BY <1>1, <1>11 DEF Displace, RecordsTyped, Lineup, Hypothesis, Plan, MaybePost
  <2> QED BY <2>1, <1>1, <1>11 DEF Displace, RecordsTyped
<1>12. ASSUME NEW s \in Sources, RefreshSource(s) PROVE RecordsTyped'
  <2>1. plan' \in Plan
    BY <1>1, <1>12 DEF RefreshSource, RecordsTyped, Plan
  <2> QED BY <2>1, <1>1, <1>12 DEF RefreshSource, RecordsTyped
<1>13. ASSUME NEW p \in MaybePost
       PROVE  Retired(p) \in Lineup /\ Unlinked(p) \in [Operations -> MaybePost]
  BY <1>1 DEF Retired, Unlinked, RecordsTyped, Lineup, MaybePost
<1>14. deletion.post \in MaybePost
  BY <1>1 DEF WorkersTyped, Deletion
<1>15. CASE UnlinkDrafts
  BY <1>1, <1>13, <1>14, <1>15 DEF UnlinkDrafts, RecordsTyped
<1>16. CASE RetireLineup
  BY <1>1, <1>13, <1>14, <1>16 DEF RetireLineup, RecordsTyped
<1>17. CASE RetireBatch
  BY <1>1, <1>13, <1>14, <1>17 DEF RetireBatch, RecordsTyped
<1>18. CASE Keep
  <2>1. lineup' \in Lineup
    BY <1>1, <1>18 DEF Keep, RecordsTyped, Lineup
  <2> QED BY <2>1, <1>1, <1>18 DEF Keep, RecordsTyped
<1> QED BY <1>2, <1>4, <1>5, <1>7, <1>8, <1>9, <1>10, <1>11, <1>12, <1>15, <1>16, <1>17, <1>18 DEF Next, slot,
  Match, ReadHypothesis, ReadLineup, FindListedPost, ConsiderReuse, FindExact, FindById, CheckCoverage, Create,
  Verify, Crash, LookForMissing, InspectPlan, AbandonRepair, CheckDeletable, Claim, CheckReviewable, DeletePost,
  AbandonDeletion

LEMMA JobsStep ==
  ASSUME TypeOK, Next
  PROVE  JobsTyped'
<1>1. RecordsTyped /\ WorkersTyped /\ RowsTyped /\ JobsTyped
  BY TypeParts
<1>2. CASE UNCHANGED job
  BY <1>1, <1>2 DEF JobsTyped
<1>3. ASSUME NEW c \in Calls, NEW j \in Job, job' = [job EXCEPT ![c] = j] PROVE JobsTyped'
  BY <1>1, <1>3 DEF JobsTyped
<1>4. \A c \in Calls : job[c] \in Job
  BY <1>1 DEF JobsTyped
<1>5. ASSUME NEW c \in Calls, NEW step \in Steps, Goto(c, step) \/ End(c) PROVE JobsTyped'
  BY <1>1, <1>5, GotoTyped, EndTyped
<1>6. ASSUME NEW c \in Calls, NEW o \in Operations, Match(c, o) PROVE JobsTyped'
  BY <1>1, <1>6 DEF Match, JobsTyped, Job, NoJob, Steps, MaybePost, MaybeOperation
<1>7. ASSUME NEW c \in Calls, ReadHypothesis(c) PROVE JobsTyped'
  BY <1>1, <1>7 DEF ReadHypothesis, JobsTyped, Job, Steps, Locked
<1>8. ASSUME NEW c \in Calls, WriteHypothesis(c) \/ FindListedPost(c) \/ ConsiderReuse(c) PROVE JobsTyped'
  <2>1. CASE WriteHypothesis(c)
    BY <1>1, <2>1 DEF WriteHypothesis, JobsTyped, Job, Steps
  <2>2. CASE FindListedPost(c)
    BY <1>1, <2>2 DEF FindListedPost, JobsTyped, Job, Steps
  <2>3. CASE ConsiderReuse(c)
    BY <1>5, <2>3 DEF ConsiderReuse, Steps
  <2> QED BY <1>8, <2>1, <2>2, <2>3
<1>9. ASSUME NEW c \in Calls, ReadLineup(c) PROVE JobsTyped'
  BY <1>1, <1>9 DEF ReadLineup, JobsTyped, Job, Steps, RecordsTyped, Lineup
<1>10. ASSUME NEW c \in Calls, MissListedPost(c) PROVE JobsTyped'
  BY <1>1, <1>10 DEF MissListedPost, JobsTyped, Job, Steps, MaybePost
<1>11. ASSUME NEW c \in Calls, LinkReused(c) PROVE JobsTyped'
  <2>1. job[c].found \in MaybePost
    BY <1>4 DEF Job
  <2> QED BY <1>1, <1>11, <2>1, GetsTyped DEF LinkReused, Steps
<1>12. \A o : RowsOf(o) \subseteq MaybePost
  BY DEF RowsOf, MaybePost
<1>13. ASSUME NEW c \in Calls, FindExact(c) PROVE JobsTyped'
  BY <1>1, <1>12, <1>13 DEF FindExact, JobsTyped, Job, Steps
<1>14. ASSUME NEW c \in Calls, FindById(c) PROVE JobsTyped'
  <2>1. CASE Goto(c, "gated")
    BY <1>5, <2>1 DEF Steps
  <2>2. CASE job' = [job EXCEPT ![c].step = "uncovered", ![c].found = NoPost]
    <3>1. [job[c] EXCEPT !.step = "uncovered", !.found = NoPost] \in Job
      BY <1>4 DEF Job, Steps, MaybePost
    <3>2. job' = [job EXCEPT ![c] = [job[c] EXCEPT !.step = "uncovered", !.found = NoPost]]
      BY <1>1, <2>2 DEF JobsTyped
    <3> QED BY <1>3, <3>1, <3>2
  <2> QED BY <1>14, <2>1, <2>2 DEF FindById, Goto
<1>15. ASSUME NEW c \in Calls, CheckCoverage(c) \/ LoseSource(c) \/ Crash(c) PROVE JobsTyped'
  BY <1>5, <1>15 DEF CheckCoverage, LoseSource, Crash, Steps
<1>16. ASSUME NEW c \in Calls, Create(c) PROVE JobsTyped'
  <2>1. PICK p \in MaybePost : Gets(c, p, "created")
    <3>1. job[c].found \in MaybePost
      BY <1>4 DEF Job
    <3> QED BY <1>12, <1>16, <3>1 DEF Create, MaybePost
  <2> QED BY <1>1, <2>1, GetsTyped DEF Steps
<1>17. ASSUME NEW c \in Calls, PersistLineage(c) \/ Verify(c) \/ LinkOutcome(c) \/ Append(c) PROVE JobsTyped'
  BY <1>5, <1>17 DEF PersistLineage, Verify, LinkOutcome, Append, Steps
<1> QED BY <1>2, <1>6, <1>7, <1>8, <1>9, <1>10, <1>11, <1>13, <1>14, <1>15, <1>16, <1>17 DEF Next, LookForMissing,
  InspectPlan, Displace, RefreshSource, AbandonRepair, CheckDeletable, Claim, CheckReviewable, DeletePost,
  UnlinkDrafts, RetireLineup, RetireBatch, AbandonDeletion, Keep

LEMMA TypeStep == TypeOK /\ [Next]_vars => TypeOK'
<1>1. ASSUME TypeOK, Next PROVE TypeOK'
  BY <1>1, TypeParts, RowsStep, RecordsStep, WorkersStep, JobsStep
     DEF TypeOK, RowsTyped, RecordsTyped, WorkersTyped, JobsTyped
<1>2. ASSUME TypeOK, UNCHANGED vars PROVE TypeOK'
  BY <1>2 DEF TypeOK, vars, slot, counts, Live
<1> QED BY <1>1, <1>2

\* The rows of the slot and of its calls keep their types, and no candidate has two
\* rows of scheduled_posts: the unique idempotency_key.
THEOREM SlotTypeCorrect == Spec => []TypeOK
BY InitTyped, TypeStep, PTL DEF Spec

-----------------------------------------------------------------------------
\* Why the slot gets one post: as long as no two candidates were past the coverage
\* check together, all that are there now are one candidate, and any post in the
\* slot is that candidate's, so that its creation finds the row.
ByIdFound == \A c \in Calls : job[c].step = "byid" => job[c].found # NoPost
Alone ==
  /\ \A p, q \in Ids : Live(p) /\ Live(q) => p = q
  /\ \A c \in Calls, p \in Ids : Creating(c) /\ Live(p) => posts[p].op = job[c].op
  /\ \A c, d \in Calls : Creating(c) /\ Creating(d) => job[c].op = job[d].op
SlotInv == TypeOK /\ ByIdFound /\ ("coverage" \notin overlaps => Alone)

\* A step after which the rows are fewer, and no candidate has newly passed the
\* coverage check, keeps it.
LEMMA AloneKept ==
  ASSUME Alone,
         \A p \in Ids : Live(p)' => Live(p) /\ posts'[p].op = posts[p].op,
         \A c \in Calls : Creating(c)' => Creating(c) /\ job'[c].op = job[c].op
  PROVE  Alone'
BY DEF Alone

LEMMA ByIdStep ==
  ASSUME TypeOK, ByIdFound, Next
  PROVE  ByIdFound'
<1>1. job \in [Calls -> Job] /\ \A c \in Calls : job[c] \in Job
  BY DEF TypeOK
<1>2. CASE UNCHANGED job
  BY <1>2 DEF ByIdFound
<1>3. ASSUME NEW c \in Calls, \A d \in Calls : job'[d].step = "byid" => job'[d] = job[d]
      PROVE  ByIdFound'
  BY <1>3 DEF ByIdFound
<1>4. ASSUME NEW c \in Calls, FindExact(c) PROVE ByIdFound'
  BY <1>1, <1>4 DEF FindExact, ByIdFound, Job
<1>5. ASSUME NEW c \in Calls, NEW o \in Operations, Match(c, o) PROVE ByIdFound'
  BY <1>1, <1>3, <1>5 DEF Match, Job, NoJob
<1>6. ASSUME NEW c \in Calls,
             ReadHypothesis(c) \/ WriteHypothesis(c) \/ ReadLineup(c) \/ FindListedPost(c) \/ MissListedPost(c)
      PROVE  ByIdFound'
  BY <1>1, <1>3, <1>6 DEF ReadHypothesis, WriteHypothesis, ReadLineup, FindListedPost, MissListedPost, Goto, Job
<1>7. ASSUME NEW c \in Calls, ConsiderReuse(c) \/ LinkReused(c) PROVE ByIdFound'
  BY <1>1, <1>3, <1>7 DEF ConsiderReuse, LinkReused, Gets, Goto, End, NoJob, Job
<1>11. ASSUME NEW c \in Calls, CheckCoverage(c) \/ LoseSource(c) PROVE ByIdFound'
  <2>1. CASE End(c)
    BY <1>1, <1>3, <2>1 DEF End, NoJob, Job
  <2>2. CASE Goto(c, "gated")
    BY <1>1, <1>3, <2>2 DEF Goto, Job
  <2> QED BY <1>11, <2>1, <2>2 DEF CheckCoverage, LoseSource
<1>10. ASSUME NEW c \in Calls, FindById(c) PROVE ByIdFound'
  <2>1. CASE job' = [job EXCEPT ![c].step = "gated"]
    BY <1>1, <1>3, <2>1 DEF Job
  <2>2. CASE job' = [job EXCEPT ![c].step = "uncovered", ![c].found = NoPost]
    BY <1>1, <1>3, <2>2 DEF Job
  <2> QED BY <1>10, <2>1, <2>2 DEF FindById
<1>8. ASSUME NEW c \in Calls, Create(c) PROVE ByIdFound'
  <2>1. PICK n : Gets(c, n, "created")
    BY <1>8 DEF Create
  <2> QED BY <1>1, <1>3, <1>8, <2>1 DEF Create, Gets, Job
<1>9. ASSUME NEW c \in Calls,
             PersistLineage(c) \/ Verify(c) \/ LinkOutcome(c) \/ Append(c) \/ Crash(c)
      PROVE  ByIdFound'
  BY <1>1, <1>3, <1>9 DEF PersistLineage, Verify, LinkOutcome, Append, Crash, Goto, End, NoJob, Job
<1> QED BY <1>2, <1>4, <1>5, <1>6, <1>7, <1>8, <1>9, <1>10, <1>11 DEF Next, LookForMissing,
  InspectPlan, Displace, RefreshSource, AbandonRepair, CheckDeletable, Claim, CheckReviewable, DeletePost,
  UnlinkDrafts, RetireLineup, RetireBatch, AbandonDeletion, Keep

\* The coverage record is never cleared.
LEMMA OverlapsGrow == ASSUME TypeOK, Next PROVE overlaps \subseteq overlaps'
BY DEF Next, Others, Noticed, Match, ReadHypothesis, WriteHypothesis, ReadLineup, FindListedPost, MissListedPost,
  ConsiderReuse, LinkReused, FindExact, FindById, CheckCoverage, LoseSource, Create, PersistLineage, Verify,
  LinkOutcome, Append, Crash, LookForMissing, InspectPlan, Displace, RefreshSource, AbandonRepair,
  CheckDeletable, Claim, CheckReviewable, DeletePost, UnlinkDrafts, RetireLineup, RetireBatch, AbandonDeletion, Keep

LEMMA AloneStep ==
  ASSUME SlotInv, Next, "coverage" \notin overlaps'
  PROVE  Alone'
<1>1. Alone /\ TypeOK /\ ByIdFound
  BY OverlapsGrow DEF SlotInv
<1>2. job \in [Calls -> Job] /\ (\A c \in Calls : job[c] \in Job) /\ posts \in [Ids -> Post]
  BY <1>1 DEF TypeOK
<1>3. UNCHANGED posts => \A p \in Ids : Live(p)' => Live(p) /\ posts'[p].op = posts[p].op
  BY DEF Live
<1>4. UNCHANGED job => \A c \in Calls : Creating(c)' => Creating(c) /\ job'[c].op = job[c].op
  BY DEF Creating
<1>5. ASSUME NEW c \in Calls, UNCHANGED posts,
             \A d \in Calls : d # c => job'[d] = job[d],
             Creating(c)' => Creating(c) /\ job'[c].op = job[c].op
      PROVE  Alone'
  BY <1>1, <1>3, <1>5, AloneKept DEF Creating
<1>6. ASSUME NEW c \in Calls, UNCHANGED posts, End(c) PROVE Alone'
  BY <1>2, <1>5, <1>6 DEF End, NoJob, Creating
<1>7. ASSUME NEW c \in Calls, NEW step, UNCHANGED posts, Goto(c, step),
             step \in {"gated", "renoted", "ready"} => Creating(c) \/ job[c].found # NoPost
      PROVE  Alone'
  BY <1>2, <1>5, <1>7 DEF Goto, Creating, Job
<1>8. ASSUME NEW c \in Calls, NEW o \in Operations, Match(c, o) PROVE Alone'
  BY <1>2, <1>5, <1>8 DEF Match, slot, NoJob, Creating
<1>9. ASSUME NEW c \in Calls, ReadHypothesis(c) PROVE Alone'
  BY <1>2, <1>5, <1>9 DEF ReadHypothesis, slot, Creating, Job
<1>10. ASSUME NEW c \in Calls, WriteHypothesis(c) PROVE Alone'
  BY <1>2, <1>5, <1>10 DEF WriteHypothesis, Goto, Creating, Job
<1>11. ASSUME NEW c \in Calls, ReadLineup(c) \/ MissListedPost(c) \/ LinkReused(c) PROVE Alone'
  BY <1>2, <1>5, <1>11 DEF ReadLineup, MissListedPost, LinkReused, Gets, slot, Creating, Job
<1>12. ASSUME NEW c \in Calls, FindListedPost(c) \/ ConsiderReuse(c) PROVE Alone'
  <2>1. CASE FindListedPost(c)
    BY <1>2, <1>5, <2>1 DEF FindListedPost, slot, Creating, Job
  <2>2. CASE ConsiderReuse(c)
    BY <1>6, <1>7, <2>2 DEF ConsiderReuse, slot
  <2> QED BY <1>12, <2>1, <2>2
<1>13. ASSUME NEW c \in Calls, FindExact(c) PROVE Alone'
  <2>1. \A o : RowsOf(o) \subseteq Ids
    BY DEF RowsOf
  <2>2. NoPost \notin Ids
    BY DEF NoPost, Ids
  <2>3. CASE RowsOf(job[c].op) # {}
    <3>1. PICK p \in Ids : job' = [job EXCEPT ![c].found = p, ![c].step = "gated"]
      BY <1>13, <2>1, <2>3 DEF FindExact
    <3> QED BY <1>2, <1>5, <1>13, <2>2, <3>1 DEF FindExact, slot, Creating, Job
  <2>4. CASE RowsOf(job[c].op) = {}
    BY <1>2, <1>5, <1>13, <2>4 DEF FindExact, slot, Creating, Job
  <2> QED BY <2>3, <2>4
<1>14. ASSUME NEW c \in Calls, FindById(c) PROVE Alone'
  <2>1. job[c].found # NoPost
    BY <1>1, <1>14 DEF FindById, ByIdFound
  <2>2. CASE Goto(c, "gated")
    BY <1>7, <1>14, <2>1, <2>2 DEF FindById, slot
  <2>3. CASE job' = [job EXCEPT ![c].step = "uncovered", ![c].found = NoPost]
    BY <1>2, <1>5, <1>14, <2>3 DEF FindById, slot, Creating, Job
  <2> QED BY <1>14, <2>2, <2>3 DEF FindById, Goto
<1>15. ASSUME NEW c \in Calls, CheckCoverage(c) PROVE Alone'
  <2>1. UNCHANGED posts
    BY <1>15 DEF CheckCoverage, slot
  <2>2. CASE Covered
    BY <1>6, <1>15, <2>1, <2>2 DEF CheckCoverage
  <2>3. CASE ~Covered
    <3>1. Goto(c, "gated")
      BY <1>15, <2>3 DEF CheckCoverage
    <3>2. \A d \in Calls : Creating(d) => job[d].op = job[c].op
      BY <1>15 DEF CheckCoverage, Noticed
    <3>3. \A p \in Ids : ~Live(p)'
      BY <2>1, <2>3 DEF Covered, Live
    <3>4. \A d \in Calls : job'[d].op = job[d].op /\ (d # c => job'[d] = job[d])
      BY <1>2, <3>1 DEF Goto, Job
    <3>5. \A d \in Calls : Creating(d)' => job'[d].op = job'[c].op
      BY <3>2, <3>4 DEF Creating
    <3> QED BY <3>3, <3>5 DEF Alone
  <2> QED BY <2>2, <2>3
<1>16. ASSUME NEW c \in Calls, LoseSource(c) \/ Crash(c) \/ Append(c) PROVE Alone'
  BY <1>6, <1>16 DEF LoseSource, Crash, Append, slot
<1>17. ASSUME NEW c \in Calls, PersistLineage(c) \/ Verify(c) \/ LinkOutcome(c) PROVE Alone'
  BY <1>7, <1>17 DEF PersistLineage, Verify, LinkOutcome, slot
<1>18. ASSUME NEW c \in Calls, Create(c) PROVE Alone'
  <2>1. PICK n : Gets(c, n, "created")
    BY <1>18 DEF Create
  <2>2. (\A d \in Calls : d # c => job'[d] = job[d]) /\ ~Creating(c)'
    BY <1>2, <2>1 DEF Gets, Creating, Job
  <2>3. CASE UNCHANGED posts
    BY <1>5, <2>2, <2>3
  <2>4. CASE posts' # posts
    <3>1. Creating(c) /\ RowsOf(job[c].op) = {}
      BY <1>18, <2>4 DEF Create, Creating
    <3>2. PICK p \in Ids : posts' = [posts EXCEPT ![p] = [op |-> job[c].op, status |-> "approved"]]
      BY <1>18, <2>4 DEF Create
    <3>3. \A q \in Ids : ~Live(q)
      BY <1>1, <3>1 DEF Alone, RowsOf
    <3>4. \A q \in Ids : Live(q)' => q = p
      BY <1>2, <3>2, <3>3 DEF Live
    <3>5. posts'[p].op = job[c].op
      BY <1>2, <3>2
    <3>6. \A d \in Calls : Creating(d)' => d # c /\ Creating(d) /\ job'[d] = job[d] /\ job[d].op = job[c].op
      BY <1>1, <2>2, <3>1 DEF Alone, Creating
    <3> QED BY <3>4, <3>5, <3>6 DEF Alone
  <2> QED BY <2>3, <2>4
<1>19. ASSUME NEW p, posts' = Deleted(p) \/ posts' = [posts EXCEPT ![p].status = "taken"], UNCHANGED job,
              posts[p].status = "approved" \/ posts' = Deleted(p)
       PROVE  Alone'
  <2>1. \A q \in Ids : Live(q)' => Live(q) /\ posts'[q].op = posts[q].op
    BY <1>2, <1>19 DEF Live, Deleted, Post
  <2> QED BY <1>1, <1>4, <1>19, <2>1, AloneKept
<1>20. CASE DeletePost \/ RetireBatch
  BY <1>19, <1>20 DEF DeletePost, RetireBatch
<1>21. ASSUME NEW p \in Ids, Claim(p) PROVE Alone'
  BY <1>19, <1>21 DEF Claim
<1>22. CASE UNCHANGED <<posts, job>>
  BY <1>1, <1>3, <1>4, <1>22, AloneKept
<1> QED BY <1>8, <1>9, <1>10, <1>11, <1>12, <1>13, <1>14, <1>15, <1>16, <1>17, <1>18, <1>20, <1>21, <1>22
  DEF Next, slot, LookForMissing, InspectPlan, Displace, RefreshSource, AbandonRepair, CheckDeletable,
  CheckReviewable, UnlinkDrafts, RetireLineup, AbandonDeletion, Keep

LEMMA SlotInvHolds == Spec => []SlotInv
<1>1. Init => SlotInv
  <2> SUFFICES ASSUME Init PROVE SlotInv
    OBVIOUS
  <2>1. (\A p \in Ids : ~Live(p)) /\ (\A c \in Calls : job[c].step = "idle")
    BY DEF Init, Live, NoJob
  <2> QED BY <2>1, InitTyped DEF SlotInv, ByIdFound, Alone, Creating
<1>2. ASSUME SlotInv, [Next]_vars PROVE SlotInv'
  <2>1. CASE Next
    BY <1>2, <2>1, TypeStep, ByIdStep, AloneStep DEF SlotInv
  <2>2. CASE UNCHANGED vars
    <3>1. TypeOK'
      BY <1>2, TypeStep DEF SlotInv
    <3> QED BY <1>2, <2>2, <3>1 DEF vars, slot, counts, SlotInv, ByIdFound, Alone, Creating, Live
  <2> QED BY <1>2, <2>1, <2>2
<1> QED BY <1>1, <1>2, PTL DEF Spec

\* A slot never has two posts, whatever is retried, deleted, repaired or being
\* published, unless two different candidates passed the coverage check together.
THEOREM SlotHasOnePost == Spec => []OnePostPerSlot
<1>1. SlotInv => OnePostPerSlot
  BY DEF SlotInv, Alone, OnePostPerSlot
<1> QED BY <1>1, SlotInvHolds, PTL

-----------------------------------------------------------------------------
\* Why a locked hypothesis keeps its content: when calls and repairs come one at a
\* time, what recordManifestPostHypothesis read still holds when it writes.
OneAtATime ==
  /\ \A c, d \in Calls : Busy(c) /\ Busy(d) => c = d
  /\ repair # "idle" => \A c \in Calls : ~Busy(c)
  /\ \A c \in Calls : job[c].step \in {"noted", "renoted"} => job[c].locked = Locked
LockInv == TypeOK /\ ("calls" \notin overlaps => OneAtATime)

LEMMA OneAtATimeStep ==
  ASSUME LockInv, Next, "calls" \notin overlaps'
  PROVE  OneAtATime'
<1>1. OneAtATime /\ TypeOK
  BY OverlapsGrow DEF LockInv
<1>2. job \in [Calls -> Job] /\ (\A c \in Calls : job[c] \in Job)
  BY <1>1 DEF TypeOK
\* A step of a call that was under way, which does not leave it before the write.
<1>3. ASSUME NEW c \in Calls, Busy(c), UNCHANGED repair,
             \A d \in Calls : d # c => job'[d] = job[d],
             job'[c].step \notin {"noted", "renoted"}
      PROVE  OneAtATime'
  <2>1. \A d \in Calls : d # c => ~Busy(d) /\ ~Busy(d)' /\ job'[d].step \notin {"noted", "renoted"}
    BY <1>1, <1>3 DEF OneAtATime, Busy
  <2>2. repair' = "idle"
    BY <1>1, <1>3 DEF OneAtATime, Repair
  <2> QED BY <2>1, <2>2, <1>3 DEF OneAtATime
<1>4. ASSUME NEW c \in Calls, NEW step, Busy(c), UNCHANGED repair, Goto(c, step), step \notin {"noted", "renoted"}
      PROVE  OneAtATime'
  BY <1>2, <1>3, <1>4 DEF Goto, Job
<1>5. ASSUME NEW c \in Calls, Busy(c), UNCHANGED repair, End(c) PROVE OneAtATime'
  BY <1>2, <1>3, <1>5 DEF End, NoJob, Job
<1>6. ASSUME NEW c \in Calls, NEW o \in Operations, Match(c, o) PROVE OneAtATime'
  <2>1. repair = "idle" /\ \A d \in Calls : ~Busy(d)
    BY <1>6 DEF Match
  <2>2. UNCHANGED repair /\ job'[c].step = "matched" /\ \A d \in Calls : d # c => job'[d] = job[d]
    BY <1>2, <1>6 DEF Match, NoJob
  <2> QED BY <2>1, <2>2 DEF OneAtATime, Busy
<1>7. ASSUME NEW c \in Calls, ReadHypothesis(c) PROVE OneAtATime'
  <2>1. Busy(c) /\ UNCHANGED <<repair, hyp>>
    BY <1>7 DEF ReadHypothesis, Busy, Others, slot
  <2>2. job'[c].locked = Locked /\ \A d \in Calls : d # c => job'[d] = job[d]
    BY <1>2, <1>7 DEF ReadHypothesis, Job
  <2>3. \A d \in Calls : d # c => ~Busy(d) /\ ~Busy(d)' /\ job'[d].step \notin {"noted", "renoted"}
    BY <1>1, <2>1, <2>2 DEF OneAtATime, Busy
  <2>4. repair' = "idle" /\ (Locked <=> Locked')
    BY <1>1, <2>1 DEF OneAtATime, Locked
  <2> QED BY <2>2, <2>3, <2>4 DEF OneAtATime, Locked
<1>8. ASSUME NEW c \in Calls,
             ConsiderReuse(c) \/ LoseSource(c) \/ PersistLineage(c) \/ Verify(c) \/ LinkOutcome(c)
             \/ Append(c) \/ Crash(c)
      PROVE  OneAtATime'
  BY <1>4, <1>5, <1>8 DEF ConsiderReuse, LoseSource, PersistLineage, Verify, LinkOutcome, Append, Crash, Others, Busy
<1>9. ASSUME NEW c \in Calls, CheckCoverage(c) PROVE OneAtATime'
  BY <1>4, <1>5, <1>9 DEF CheckCoverage, Busy
<1>10. ASSUME NEW c \in Calls,
              WriteHypothesis(c) \/ ReadLineup(c) \/ FindListedPost(c) \/ MissListedPost(c) \/ LinkReused(c)
       PROVE  OneAtATime'
  BY <1>2, <1>3, <1>10 DEF WriteHypothesis, ReadLineup, FindListedPost, MissListedPost, LinkReused, Gets,
     Others, Busy, Job
<1>11. ASSUME NEW c \in Calls, FindExact(c) PROVE OneAtATime'
  BY <1>2, <1>3, <1>11 DEF FindExact, Others, Busy, Job
<1>12. ASSUME NEW c \in Calls, FindById(c) PROVE OneAtATime'
  <2>1. CASE job' = [job EXCEPT ![c].step = "gated"]
    BY <1>2, <1>3, <1>12, <2>1 DEF FindById, Others, Busy, Job
  <2>2. CASE job' = [job EXCEPT ![c].step = "uncovered", ![c].found = NoPost]
    BY <1>2, <1>3, <1>12, <2>2 DEF FindById, Others, Busy, Job
  <2> QED BY <1>12, <2>1, <2>2 DEF FindById
<1>13. ASSUME NEW c \in Calls, Create(c) PROVE OneAtATime'
  <2>1. PICK n : Gets(c, n, "created")
    BY <1>13 DEF Create
  <2> QED BY <1>2, <1>3, <1>13, <2>1 DEF Create, Gets, Others, Busy, Job
<1>14. CASE UNCHANGED <<job, repair, hyp>>
  BY <1>1, <1>14 DEF OneAtATime, Busy, Locked
<1>15. CASE LookForMissing
  BY <1>1, <1>15 DEF LookForMissing, Noticed, OneAtATime, Busy, slot, Locked
\* Under a repair no call is under way, so none holds a reading of the hypothesis.
<1>16. CASE repair # "idle" /\ UNCHANGED job
  BY <1>1, <1>16 DEF OneAtATime, Busy
<1>17. CASE InspectPlan \/ AbandonRepair \/ \E s \in Sources : Displace(s) \/ RefreshSource(s)
  BY <1>16, <1>17 DEF InspectPlan, AbandonRepair, Displace, RefreshSource
<1> QED BY <1>6, <1>7, <1>8, <1>9, <1>10, <1>11, <1>12, <1>13, <1>14, <1>15, <1>17
  DEF Next, slot, Others, CheckDeletable, Claim, CheckReviewable, DeletePost, UnlinkDrafts, RetireLineup,
      RetireBatch, AbandonDeletion, Keep

LEMMA LockInvHolds == Spec => []LockInv
<1>1. Init => LockInv
  <2> SUFFICES ASSUME Init PROVE LockInv
    OBVIOUS
  <2>1. repair = "idle" /\ (\A c \in Calls : job[c].step = "idle")
    BY DEF Init, NoJob
  <2> QED BY <2>1, InitTyped DEF LockInv, OneAtATime, Busy
<1>2. ASSUME LockInv, [Next]_vars PROVE LockInv'
  <2>1. CASE Next
    BY <1>2, <2>1, TypeStep, OneAtATimeStep DEF LockInv
  <2>2. CASE UNCHANGED vars
    <3>1. TypeOK'
      BY <1>2, TypeStep DEF LockInv
    <3> QED BY <1>2, <2>2, <3>1 DEF vars, slot, counts, LockInv, OneAtATime, Busy, Locked
  <2> QED BY <1>2, <2>1, <2>2
<1> QED BY <1>1, <1>2, PTL DEF Spec

\* No step replaces the content of a hypothesis that is locked.
LEMMA LockedStep ==
  ASSUME LockInv, Next, "calls" \notin overlaps, Locked
  PROVE  hyp'.of = hyp.of
<1>1. OneAtATime /\ hyp \in Hypothesis
  BY DEF LockInv, TypeOK
<1>2. ASSUME NEW c \in Calls, WriteHypothesis(c) PROVE hyp'.of = hyp.of
  BY <1>1, <1>2 DEF WriteHypothesis, NotedHypothesis, OneAtATime
<1>3. ASSUME NEW c \in Calls, LinkReused(c) \/ LoseSource(c) \/ PersistLineage(c) \/ LinkOutcome(c)
      PROVE  hyp'.of = hyp.of
  BY <1>1, <1>3 DEF LinkReused, LoseSource, PersistLineage, LinkOutcome, LinkedHypothesis, Hypothesis
<1>4. ASSUME NEW s \in Sources, Displace(s) PROVE hyp'.of = hyp.of
  BY <1>1, <1>4 DEF Displace, Hypothesis
<1> QED BY <1>2, <1>3, <1>4 DEF Next, slot,
  Match, ReadHypothesis, ReadLineup, FindListedPost, MissListedPost, ConsiderReuse, FindExact, FindById,
  CheckCoverage, Create, Verify, Append, Crash, LookForMissing, InspectPlan, RefreshSource, AbandonRepair,
  CheckDeletable, Claim, CheckReviewable, DeletePost, UnlinkDrafts, RetireLineup, RetireBatch, AbandonDeletion, Keep

\* What was predicted for a scheduled post is not rewritten by a later call.
THEOREM LockedHypothesisKept == Spec => LockedHypothesisStands
<1>1. ASSUME LockInv, [Next]_vars
      PROVE  [Locked /\ Locked' /\ "calls" \notin overlaps => hyp'.of = hyp.of]_vars
  BY <1>1, LockedStep
<1> QED BY <1>1, LockInvHolds, PTL DEF Spec, LockedHypothesisStands
-----------------------------------------------------------------------------
\* Why a persisted post stays linked.  A live post is at home when the draft of its
\* own candidate is linked to it: only that candidate's call writes that draft, and
\* as the row exists its call finds this very post.  So a settled post, at home for
\* as long as it lives, stays settled, and every post that a lineup row, an event or
\* a call past its creation names is settled.
Home(p) == posts[p].op \in Operations /\ draft[posts[p].op] = p
Settled(p) == posts[p].status # "unborn" /\ (Live(p) => Home(p))

\* What a call may persist: a settled post or its own candidate's, and no other row
\* of its candidate is there.
Fitting(c, p) ==
  /\ Settled(p) \/ (posts[p].status # "unborn" /\ posts[p].op = job[c].op)
  /\ \A q \in Ids : Live(q) /\ posts[q].op = job[c].op => q = p

Apart ==
  /\ \A c \in Calls : Busy(c) => job[c].op \in Operations
  /\ \A c \in Calls : ~Busy(c) => job[c].op = None
  /\ \A c, d \in Calls : Busy(c) /\ Busy(d) /\ job[c].op = job[d].op => c = d
DeletionRight ==
  /\ deletion.step # "idle" => deletion.post \in Ids
  /\ deletion.step \in {"deleted", "unlinked"} => posts[deletion.post].status = "deleted"

HoldsPost == {"created", "linked", "verified", "unverified", "persisted", "failed", "reused"}
Names(c) ==
  /\ job[c].step \in {"lineup", "reuse", "relink", "byid"} => job[c].found \in Ids
  /\ job[c].step = "uncovered" => job[c].found = NoPost
  /\ job[c].step \in HoldsPost => job[c].post \in Ids
Carries(c) ==
  /\ job[c].step \in {"lineup", "reuse", "relink", "exact", "byid"} /\ job[c].found \in Ids => Settled(job[c].found)
  /\ job[c].step = "byid" => \A q \in Ids : Live(q) => posts[q].op # job[c].op
  /\ job[c].step \in {"gated", "renoted", "ready"} /\ job[c].found \in Ids => Fitting(c, job[c].found)
  /\ job[c].step = "created" => Fitting(c, job[c].post)
  /\ job[c].step \in HoldsPost \ {"created"} => Settled(job[c].post)
RecordsSettled ==
  /\ lineup.post \in Ids => Settled(lineup.post)
  /\ \A o \in Operations : Finished(event[o]) => event[o].post \in Ids /\ Settled(event[o].post)
Linkage ==
  /\ Apart
  /\ DeletionRight
  /\ RecordsSettled
  /\ \A c \in Calls : Names(c) /\ Carries(c)
InOrder == overlaps \cap {"retry", "deletion"} = {}
LinkInv == TypeOK /\ (InOrder => Linkage)

\* The steps of one call, and that they leave the others alone.
Moves(c) ==
  \/ \E o \in Operations : Match(c, o)
  \/ ReadHypothesis(c) \/ WriteHypothesis(c) \/ ReadLineup(c) \/ FindListedPost(c) \/ MissListedPost(c)
  \/ ConsiderReuse(c) \/ LinkReused(c) \/ FindExact(c) \/ FindById(c) \/ CheckCoverage(c) \/ LoseSource(c)
  \/ Create(c) \/ PersistLineage(c) \/ Verify(c) \/ LinkOutcome(c) \/ Append(c) \/ Crash(c)

Elsewhere ==
  \/ LookForMissing \/ InspectPlan \/ AbandonRepair \/ \E s \in Sources : Displace(s) \/ RefreshSource(s)
  \/ \E p \in Ids : CheckDeletable(p) \/ Claim(p) \/ CheckReviewable(p)
  \/ DeletePost \/ UnlinkDrafts \/ RetireLineup \/ RetireBatch \/ AbandonDeletion
  \/ Keep

LEMMA NextParts == Next <=> (\E c \in Calls : Moves(c)) \/ Elsewhere
BY DEF Next, Moves, Elsewhere

\* Who writes what.
LEMMA MovesWrite ==
  ASSUME NEW c \in Calls, Moves(c)
  PROVE  /\ UNCHANGED <<repair, deletion, review>>
         /\ UNCHANGED posts \/ Create(c)
         /\ UNCHANGED draft \/ PersistLineage(c)
         /\ UNCHANGED event \/ Append(c)
         /\ UNCHANGED lineup \/ PersistLineage(c) \/ MissListedPost(c)
<1> USE DEF Others, slot
<1>1. CASE \E o \in Operations : Match(c, o)
  BY <1>1 DEF Match
<1>2. CASE ReadHypothesis(c) \/ WriteHypothesis(c) \/ ReadLineup(c) \/ FindListedPost(c) \/ MissListedPost(c)
  BY <1>2 DEF ReadHypothesis, WriteHypothesis, ReadLineup, FindListedPost, MissListedPost
<1>3. CASE ConsiderReuse(c) \/ LinkReused(c) \/ FindExact(c) \/ FindById(c) \/ CheckCoverage(c) \/ LoseSource(c)
  BY <1>3 DEF ConsiderReuse, LinkReused, FindExact, FindById, CheckCoverage, LoseSource
<1>4. CASE Create(c) \/ PersistLineage(c) \/ Verify(c)
  BY <1>4 DEF Create, PersistLineage, Verify
<1>5. CASE LinkOutcome(c) \/ Append(c) \/ Crash(c)
  BY <1>5 DEF LinkOutcome, Append, Crash
<1> QED BY <1>1, <1>2, <1>3, <1>4, <1>5 DEF Moves

LEMMA ElsewhereWrites ==
  ASSUME TypeOK, Elsewhere
  PROVE  /\ UNCHANGED <<job, event>>
         /\ UNCHANGED posts \/ posts' = Deleted(deletion.post) \/ \E p \in Ids : Claim(p)
         /\ UNCHANGED draft \/ UnlinkDrafts \/ RetireBatch
         /\ lineup'.post = lineup.post \/ lineup'.post = NoPost
<1> DEFINE Goal == /\ UNCHANGED <<job, event>>
                   /\ UNCHANGED posts \/ posts' = Deleted(deletion.post) \/ \E p \in Ids : Claim(p)
                   /\ UNCHANGED draft \/ UnlinkDrafts \/ RetireBatch
                   /\ lineup'.post = lineup.post \/ lineup'.post = NoPost
<1> SUFFICES Goal
  OBVIOUS
<1> USE DEF slot
<1>1. lineup \in Lineup
  BY DEF TypeOK
<1>2. CASE LookForMissing \/ InspectPlan \/ AbandonRepair
  BY <1>2 DEF LookForMissing, InspectPlan, AbandonRepair
<1>3. ASSUME NEW s \in Sources, Displace(s) PROVE Goal
  BY <1>1, <1>3 DEF Displace, Lineup
<1>4. ASSUME NEW s \in Sources, RefreshSource(s) PROVE Goal
  BY <1>4 DEF RefreshSource
<1>5. ASSUME NEW p \in Ids, CheckDeletable(p) PROVE Goal
  BY <1>5 DEF CheckDeletable
<1>6. ASSUME NEW p \in Ids, Claim(p) PROVE Goal
  <2>1. UNCHANGED <<job, event, draft, lineup>>
    BY <1>6 DEF Claim
  <2> QED BY <1>6, <2>1
<1>7. ASSUME NEW p \in Ids, CheckReviewable(p) PROVE Goal
  BY <1>7 DEF CheckReviewable
<1>8. CASE DeletePost \/ AbandonDeletion
  BY <1>8 DEF DeletePost, AbandonDeletion
<1>9. lineup' = Retired(deletion.post) => lineup'.post = lineup.post
  BY <1>1 DEF Retired, Lineup
<1>10. CASE UnlinkDrafts
  <2>1. UNCHANGED <<job, event, posts, lineup>>
    BY <1>10 DEF UnlinkDrafts
  <2> QED BY <1>10, <2>1
<1>11. CASE RetireLineup
  BY <1>9, <1>11 DEF RetireLineup
<1>12. CASE RetireBatch
  <2>1. UNCHANGED <<job, event>> /\ posts' = Deleted(deletion.post) /\ lineup' = Retired(deletion.post)
    BY <1>12 DEF RetireBatch
  <2> QED BY <1>9, <1>12, <2>1
<1>13. CASE Keep
  BY <1>1, <1>13 DEF Keep, Lineup
<1> HIDE DEF Goal
<1> QED BY <1>2, <1>3, <1>4, <1>5, <1>6, <1>7, <1>8, <1>10, <1>11, <1>12, <1>13 DEF Elsewhere

LEMMA MovesAlone ==
  ASSUME TypeOK, NEW c \in Calls, Moves(c), NEW d \in Calls, d # c
  PROVE  job'[d] = job[d]
<1>1. job \in [Calls -> Job]
  BY DEF TypeOK
<1>2. ASSUME NEW j, job' = [job EXCEPT ![c] = j] PROVE job'[d] = job[d]
  BY <1>1, <1>2
<1>5. CASE \E p, step : Gets(c, p, step)
  BY <1>1, <1>5 DEF Gets
<1>6. CASE \E o \in Operations : Match(c, o)
  BY <1>2, <1>6 DEF Match
<1>7. CASE ReadHypothesis(c) \/ WriteHypothesis(c) \/ ReadLineup(c) \/ FindListedPost(c) \/ MissListedPost(c)
  BY <1>1, <1>7 DEF ReadHypothesis, WriteHypothesis, ReadLineup, FindListedPost, MissListedPost
<1>8. CASE FindExact(c) \/ FindById(c)
  BY <1>1, <1>8 DEF FindExact, FindById
<1>9. CASE ConsiderReuse(c)
  BY <1>1, <1>9 DEF ConsiderReuse, Goto, End
<1>3. ASSUME NEW step, Goto(c, step) PROVE job'[d] = job[d]
  BY <1>1, <1>3 DEF Goto
<1>4. CASE End(c)
  BY <1>2, <1>4 DEF End
<1>10. CASE CheckCoverage(c) \/ LinkOutcome(c)
  <2>1. End(c) \/ (\E step : Goto(c, step))
    BY <1>10 DEF CheckCoverage, LinkOutcome
  <2> QED BY <1>3, <1>4, <2>1
<1>12. CASE LoseSource(c) \/ PersistLineage(c) \/ Verify(c) \/ Append(c) \/ Crash(c)
  BY <1>1, <1>12 DEF LoseSource, PersistLineage, Verify, Append, Crash, Goto, End
<1>11. CASE LinkReused(c) \/ Create(c)
  BY <1>5, <1>11 DEF LinkReused, Create
<1> QED BY <1>6, <1>7, <1>8, <1>9, <1>10, <1>11, <1>12 DEF Moves

\* A row is born once, with the candidate it keeps, and never lives again.
LEMMA RowsAge ==
  ASSUME TypeOK, Next, NEW p \in Ids
  PROVE  /\ posts[p].status # "unborn" =>
              posts'[p].status # "unborn" /\ posts'[p].op = posts[p].op /\ (Live(p)' => Live(p))
         /\ posts[p].status = "deleted" => posts'[p].status = "deleted"
         /\ posts[p].status = "unborn" /\ posts'[p].status # "unborn" =>
              \E c \in Calls : Create(c) /\ job[c].found = NoPost /\ posts'[p].op = job[c].op
<1>1. posts \in [Ids -> Post]
  BY DEF TypeOK
<1>2. CASE UNCHANGED posts
  BY <1>2 DEF Live
<1>3. ASSUME NEW c \in Calls, Create(c), posts' # posts
      PROVE  \E q \in Ids : /\ posts[q].status = "unborn" /\ job[c].found = NoPost
                            /\ posts' = [posts EXCEPT ![q] = [op |-> job[c].op, status |-> "approved"]]
  BY <1>3 DEF Create
<1>4. ASSUME NEW c \in Calls, Create(c), posts' # posts
      PROVE  /\ posts[p].status # "unborn" => posts'[p] = posts[p]
             /\ posts[p].status = "unborn" /\ posts'[p].status # "unborn" =>
                  job[c].found = NoPost /\ posts'[p].op = job[c].op
  BY <1>1, <1>3, <1>4
<1>5. ASSUME NEW d, posts' = Deleted(d)
      PROVE  /\ posts'[p].op = posts[p].op
             /\ posts[p].status = "unborn" <=> posts'[p].status = "unborn"
             /\ Live(p)' => Live(p)
             /\ posts[p].status = "deleted" => posts'[p].status = "deleted"
  BY <1>1, <1>5 DEF Deleted, Live, Post
<1>6. ASSUME NEW d \in Ids, Claim(d)
      PROVE  /\ posts'[p].op = posts[p].op
             /\ posts[p].status = "unborn" <=> posts'[p].status = "unborn"
             /\ Live(p)' => Live(p)
             /\ posts[p].status = "deleted" => posts'[p].status = "deleted"
  BY <1>1, <1>6 DEF Claim, Live, Post
<1>7. CASE \E c \in Calls : Create(c)
  BY <1>2, <1>4, <1>7 DEF Live
<1>8. \/ UNCHANGED posts
      \/ \E c \in Calls : Create(c)
      \/ \E d \in Ids : Claim(d)
      \/ posts' = Deleted(deletion.post)
  BY NextParts, MovesWrite, ElsewhereWrites
<1> QED BY <1>2, <1>5, <1>6, <1>7, <1>8

LEMMA DeletionRightStep ==
  ASSUME TypeOK, DeletionRight, Next, InOrder'
  PROVE  DeletionRight'
<1>1. deletion \in Deletion /\ posts \in [Ids -> Post]
  BY DEF TypeOK
<1>2. \A p \in Ids : posts[p].status = "deleted" => posts'[p].status = "deleted"
  BY RowsAge
<1>3. CASE UNCHANGED deletion
  BY <1>2, <1>3 DEF DeletionRight
<1>4. ASSUME NEW p \in Ids, CheckDeletable(p) PROVE DeletionRight'
  BY <1>4 DEF CheckDeletable, DeletionRight
<1>5. CASE DeletePost
  <2>1. deletion.post \in Ids /\ posts[deletion.post].status = "approved"
    BY <1>5 DEF DeletePost, DeletionRight, Noticed, InOrder
  <2>2. posts'[deletion.post].status = "deleted"
    BY <1>1, <1>5, <2>1 DEF DeletePost, Deleted, Post
  <2>3. deletion'.post = deletion.post
    BY <1>1, <1>5 DEF DeletePost, Deletion
  <2> QED BY <2>1, <2>2, <2>3 DEF DeletionRight
<1>6. CASE UnlinkDrafts
  BY <1>1, <1>6 DEF UnlinkDrafts, DeletionRight, Deletion
<1>7. CASE deletion' = NoDeletion
  BY <1>7 DEF DeletionRight, NoDeletion
<1>8. CASE \E c \in Calls : Moves(c)
  BY <1>3, <1>8, MovesWrite
<1>9. CASE Elsewhere
  BY <1>3, <1>4, <1>5, <1>6, <1>7, <1>9 DEF Elsewhere, Others, LookForMissing, InspectPlan, Displace, RefreshSource,
     AbandonRepair, Claim, CheckReviewable, RetireLineup, RetireBatch, AbandonDeletion, Keep
<1> QED BY <1>8, <1>9, NextParts

\* A settled post stays settled: its own candidate's call links no other post, and a
\* deletion unlinks only the post it has deleted.
LEMMA SettledStep ==
  ASSUME TypeOK, Linkage, Next, InOrder', NEW p \in Ids, Settled(p)
  PROVE  Settled(p)'
<1>1. posts'[p].status # "unborn" /\ posts'[p].op = posts[p].op /\ (Live(p)' => Live(p))
  BY RowsAge DEF Settled
<1>2. SUFFICES ASSUME Live(p)' PROVE draft'[posts[p].op] = p
  BY <1>1 DEF Settled, Home
<1>3. Live(p) /\ posts[p].op \in Operations /\ draft[posts[p].op] = p
  BY <1>1, <1>2 DEF Settled, Home
<1>4. draft \in [Operations -> MaybePost] /\ posts \in [Ids -> Post] /\ deletion \in Deletion
  BY DEF TypeOK
<1>5. CASE UNCHANGED draft
  BY <1>3, <1>5
<1>6. ASSUME NEW c \in Calls, PersistLineage(c) PROVE draft'[posts[p].op] = p
  <2>1. draft' = [draft EXCEPT ![job[c].op] = job[c].post]
    BY <1>6 DEF PersistLineage
  <2>2. posts[p].op = job[c].op => p = job[c].post
    BY <1>3, <1>6 DEF PersistLineage, Linkage, Carries, Fitting
  <2> QED BY <1>3, <1>4, <2>1, <2>2
<1>7. CASE UnlinkDrafts
  <2>1. deletion.post \in Ids /\ posts[deletion.post].status = "deleted"
    BY <1>7 DEF UnlinkDrafts, Linkage, DeletionRight
  <2>2. p # deletion.post
    BY <1>3, <2>1 DEF Live
  <2> QED BY <1>3, <1>7, <2>2 DEF UnlinkDrafts, Unlinked
<1>8. CASE RetireBatch
  <2>1. deletion.post \in Ids /\ posts[deletion.post].status = "approved"
    BY <1>8 DEF RetireBatch, Linkage, DeletionRight, Noticed, InOrder
  <2>2. posts'[deletion.post].status = "deleted"
    BY <1>4, <1>8, <2>1 DEF RetireBatch, Deleted, Post
  <2>3. p # deletion.post
    BY <1>2, <2>2 DEF Live
  <2> QED BY <1>3, <1>8, <2>3 DEF RetireBatch, Unlinked
<1> QED BY <1>5, <1>6, <1>7, <1>8, NextParts, MovesWrite, ElsewhereWrites

\* While a call is under way only it creates a row of its candidate.
LEMMA RivalsStep ==
  ASSUME TypeOK, Linkage, Next, NEW c \in Calls, Busy(c), ~Create(c),
         NEW q \in Ids, Live(q)', posts'[q].op = job[c].op
  PROVE  Live(q) /\ posts[q].op = job[c].op
<1>1. posts'[q].status # "unborn"
  BY DEF Live
<1>2. CASE posts[q].status # "unborn"
  BY <1>2, RowsAge
<1>3. CASE posts[q].status = "unborn"
  <2>1. PICK d \in Calls : Create(d) /\ posts'[q].op = job[d].op
    BY <1>1, <1>3, RowsAge
  <2>2. Busy(d)
    BY <2>1 DEF Create, Busy
  <2> QED BY <2>1, <2>2 DEF Linkage, Apart
<1> QED BY <1>2, <1>3

LEMMA FittingStep ==
  ASSUME TypeOK, Linkage, Next, InOrder', NEW c \in Calls, Busy(c), ~Create(c), job'[c].op = job[c].op,
         NEW p \in Ids, Fitting(c, p)
  PROVE  Fitting(c, p)'
<1>1. Settled(p) => Settled(p)'
  BY SettledStep
<1>2. posts[p].status # "unborn" => posts'[p].status # "unborn" /\ posts'[p].op = posts[p].op
  BY RowsAge
<1>3. \A q \in Ids : Live(q)' /\ posts'[q].op = job[c].op => Live(q) /\ posts[q].op = job[c].op
  BY RivalsStep
<1> QED BY <1>1, <1>2, <1>3 DEF Fitting

\* A call that rests keeps what it carries.
LEMMA CarriesKept ==
  ASSUME TypeOK, Linkage, Next, InOrder', NEW c \in Calls, job'[c] = job[c]
  PROVE  Names(c)' /\ Carries(c)'
<1>1. Names(c) /\ Carries(c)
  BY DEF Linkage
<1>2. ~Create(c)
  <2> SUFFICES ASSUME Create(c) PROVE FALSE
    OBVIOUS
  <2>1. PICK n : Gets(c, n, "created")
    BY DEF Create
  <2>2. job'[c].step = "created"
    BY <2>1 DEF TypeOK, Gets, Job
  <2> QED BY <2>2 DEF Create
<1>3. \A p \in Ids : Settled(p) => Settled(p)'
  BY SettledStep
<1>4. Busy(c) => \A p \in Ids : Fitting(c, p) => Fitting(c, p)'
  BY <1>2, FittingStep
<1>5. Busy(c) => \A q \in Ids : Live(q)' /\ posts'[q].op = job[c].op => Live(q) /\ posts[q].op = job[c].op
  BY <1>2, RivalsStep
<1>6. Names(c)'
  BY <1>1 DEF Names
<1> QED BY <1>1, <1>3, <1>4, <1>5, <1>6 DEF Carries, Names, Busy, HoldsPost

LEMMA ApartStep ==
  ASSUME TypeOK, Apart, Next, InOrder'
  PROVE  Apart'
<1>1. job \in [Calls -> Job]
  BY DEF TypeOK
<1>2. CASE UNCHANGED job
  BY <1>2 DEF Apart, Busy
<1>3. ASSUME NEW c \in Calls, Moves(c), Busy(c), job'[c].op = job[c].op, Busy(c)' PROVE Apart'
  <2>1. \A d \in Calls : job'[d].op = job[d].op /\ (Busy(d) <=> Busy(d)')
    BY <1>3, MovesAlone DEF Busy
  <2> QED BY <2>1 DEF Apart
<1>4. ASSUME NEW c \in Calls, Moves(c), End(c) PROVE Apart'
  <2>1. job'[c].op = None /\ ~Busy(c)'
    BY <1>1, <1>4 DEF End, NoJob, Busy
  <2>2. \A d \in Calls : d # c => job'[d].op = job[d].op /\ (Busy(d) <=> Busy(d)')
    BY <1>4, MovesAlone DEF Busy
  <2> QED BY <2>1, <2>2 DEF Apart
<1>5. ASSUME NEW c \in Calls, NEW o \in Operations, Match(c, o) PROVE Apart'
  <2>1. \A d \in Calls : job[d].op # o
    BY <1>5 DEF Match, InOrder
  <2>2. job'[c].op = o /\ Busy(c)'
    BY <1>1, <1>5 DEF Match, NoJob, Busy
  <2>3. \A d \in Calls : d # c => job'[d].op = job[d].op /\ (Busy(d) <=> Busy(d)')
    BY <1>5, MovesAlone DEF Moves, Busy
  <2> QED BY <2>1, <2>2, <2>3 DEF Apart
<1>6. ASSUME NEW c \in Calls, Moves(c), NEW step, step # "idle", Goto(c, step), Busy(c) PROVE Apart'
  <2>1. job'[c].step = step /\ job'[c].op = job[c].op
    BY <1>1, <1>6 DEF Goto, Job
  <2> QED BY <1>3, <1>6, <2>1 DEF Busy
<1>7. ASSUME NEW c \in Calls, Moves(c),
             ReadHypothesis(c) \/ WriteHypothesis(c) \/ ReadLineup(c) \/ FindListedPost(c) \/ MissListedPost(c)
      PROVE  Apart'
  <2>1. Busy(c) /\ job'[c].op = job[c].op /\ Busy(c)'
    BY <1>1, <1>7 DEF ReadHypothesis, WriteHypothesis, ReadLineup, FindListedPost, MissListedPost, Busy, Job
  <2> QED BY <1>3, <1>7, <2>1
<1>8. ASSUME NEW c \in Calls, Moves(c), FindExact(c) PROVE Apart'
  <2>1. Busy(c) /\ job'[c].op = job[c].op /\ Busy(c)'
    BY <1>1, <1>8 DEF FindExact, Busy, Job
  <2> QED BY <1>3, <1>8, <2>1
<1>9. ASSUME NEW c \in Calls, Moves(c), FindById(c) PROVE Apart'
  <2>1. CASE job' = [job EXCEPT ![c].step = "gated"]
    <3>1. Busy(c) /\ job'[c].op = job[c].op /\ Busy(c)'
      BY <1>1, <1>9, <2>1 DEF FindById, Busy, Job
    <3> QED BY <1>3, <1>9, <3>1
  <2>2. CASE job' = [job EXCEPT ![c].step = "uncovered", ![c].found = NoPost]
    <3>1. Busy(c) /\ job'[c].op = job[c].op /\ Busy(c)'
      BY <1>1, <1>9, <2>2 DEF FindById, Busy, Job
    <3> QED BY <1>3, <1>9, <3>1
  <2> QED BY <1>9, <2>1, <2>2 DEF FindById
<1>10. ASSUME NEW c \in Calls, Moves(c), ConsiderReuse(c) \/ CheckCoverage(c) PROVE Apart'
  BY <1>4, <1>6, <1>10 DEF ConsiderReuse, CheckCoverage, Busy
<1>11. ASSUME NEW c \in Calls, Moves(c), PersistLineage(c) \/ Verify(c) \/ LinkOutcome(c) PROVE Apart'
  BY <1>6, <1>11 DEF PersistLineage, Verify, LinkOutcome, Busy
<1>12. ASSUME NEW c \in Calls, Moves(c), LoseSource(c) \/ Append(c) \/ Crash(c) PROVE Apart'
  BY <1>4, <1>12 DEF LoseSource, Append, Crash
<1>13. ASSUME NEW c \in Calls, Moves(c), NEW n, NEW step \in {"reused", "created"}, Gets(c, n, step), Busy(c)
       PROVE  Apart'
  <2>1. job'[c].op = job[c].op /\ Busy(c)'
    BY <1>1, <1>13 DEF Gets, Busy, Job
  <2> QED BY <1>3, <1>13, <2>1
<1>14. ASSUME NEW c \in Calls, Moves(c), LinkReused(c) \/ Create(c) PROVE Apart'
  BY <1>13, <1>14 DEF LinkReused, Create, Busy
<1> QED BY <1>2, <1>5, <1>7, <1>8, <1>9, <1>10, <1>11, <1>12, <1>14, NextParts, ElsewhereWrites DEF Moves

\* What a call carries after each of its steps.
LEMMA CarriesStep ==
  ASSUME TypeOK, Linkage, Next, InOrder', NEW c \in Calls, Moves(c)
  PROVE  Names(c)' /\ Carries(c)'
<1> SUFFICES Names(c)' /\ Carries(c)'
  OBVIOUS
<1>1. job \in [Calls -> Job] /\ job[c] \in Job /\ lineup \in Lineup /\ posts \in [Ids -> Post]
  BY DEF TypeOK
<1>2. Names(c) /\ Carries(c)
  BY DEF Linkage
<1>3. \A p \in Ids : Settled(p) => Settled(p)'
  BY SettledStep
<1>4. \A p \in Ids : Fitting(c, p) /\ Busy(c) /\ ~Create(c) /\ job'[c].op = job[c].op => Fitting(c, p)'
  BY FittingStep
<1>5. NoPost \notin Ids
  BY DEF NoPost, Ids
<1>6. CASE job'[c].step \in {"idle", "matched", "noted", "admitted"}
  BY <1>6 DEF Names, Carries, HoldsPost
<1>7. CASE End(c)
  BY <1>1, <1>6, <1>7 DEF End, NoJob
<1>8. CASE \E o \in Operations : Match(c, o)
  BY <1>1, <1>6, <1>8 DEF Match, NoJob
\* A call that goes on with the post it found or got.
<1>9. ASSUME job'[c].found = job[c].found, job'[c].op = job[c].op, Busy(c), ~Create(c),
             job[c].step \in {"gated", "renoted", "ready"}, job'[c].step \in {"gated", "renoted", "ready"}
      PROVE  Names(c)' /\ Carries(c)'
  BY <1>2, <1>4, <1>9 DEF Names, Carries, HoldsPost
<1>10. ASSUME job'[c].post = job[c].post, job[c].step \in HoldsPost \ {"created"},
              job'[c].step \in HoldsPost \ {"created"}
       PROVE  Names(c)' /\ Carries(c)'
  BY <1>2, <1>3, <1>10 DEF Names, Carries, HoldsPost
<1>11. CASE ReadHypothesis(c)
  <2>1. job'[c].found = job[c].found /\ job'[c].op = job[c].op
        /\ job'[c].step = IF job[c].step = "matched" THEN "noted" ELSE "renoted"
    BY <1>1, <1>11 DEF ReadHypothesis, Job
  <2> QED BY <1>6, <1>9, <1>11, <2>1 DEF ReadHypothesis, Busy, Create
<1>12. CASE WriteHypothesis(c)
  <2>1. job'[c].found = job[c].found /\ job'[c].op = job[c].op
        /\ job'[c].step = IF job[c].step = "noted" THEN "admitted" ELSE "ready"
    BY <1>1, <1>12 DEF WriteHypothesis, Job
  <2> QED BY <1>6, <1>9, <1>12, <2>1 DEF WriteHypothesis, Busy, Create
<1>13. CASE ReadLineup(c)
  <2>1. job'[c].found = lineup.post /\ job'[c].step = IF lineup.post = NoPost THEN "exact" ELSE "lineup"
    BY <1>1, <1>13 DEF ReadLineup, Job
  <2>2. lineup.post \in Ids => Settled(lineup.post)
    BY DEF Linkage, RecordsSettled
  <2>3. lineup.post # NoPost => lineup.post \in Ids
    BY <1>1 DEF Lineup, MaybePost
  <2> QED BY <1>3, <1>5, <2>1, <2>2, <2>3 DEF Names, Carries, HoldsPost
<1>14. CASE FindListedPost(c)
  <2>1. job'[c].found = job[c].found /\ job'[c].step \in {"reuse", "exact"} /\ job[c].step = "lineup"
    BY <1>1, <1>14 DEF FindListedPost, Job
  <2> QED BY <1>2, <1>3, <2>1 DEF Names, Carries, HoldsPost
<1>15. CASE MissListedPost(c)
  <2>1. job'[c].found = NoPost /\ job'[c].step = "exact"
    BY <1>1, <1>15 DEF MissListedPost, Job
  <2> QED BY <1>5, <2>1 DEF Names, Carries, HoldsPost
<1>16. ASSUME NEW step \in {"exact", "relink"}, Goto(c, step), job[c].step = "reuse"
       PROVE  Names(c)' /\ Carries(c)'
  <2>1. job'[c].found = job[c].found /\ job'[c].step = step
    BY <1>1, <1>16 DEF Goto, Job
  <2> QED BY <1>2, <1>3, <1>16, <2>1 DEF Names, Carries, HoldsPost
<1>17. CASE ConsiderReuse(c)
  BY <1>7, <1>16, <1>17 DEF ConsiderReuse
<1>18. CASE LinkReused(c)
  <2>1. job'[c].post = job[c].found /\ job'[c].step = "reused" /\ job[c].step = "relink"
    BY <1>1, <1>18 DEF LinkReused, Gets, Job
  <2> QED BY <1>2, <1>3, <2>1 DEF Names, Carries, HoldsPost
\* The row of this candidate is the only one.
<1>19. ASSUME UNCHANGED posts, job'[c].op = job[c].op, NEW p \in RowsOf(job[c].op)
       PROVE  p \in Ids /\ Fitting(c, p)'
  <2>1. p \in Ids /\ Live(p) /\ posts[p].op = job[c].op
    BY <1>19 DEF RowsOf
  <2>2. \A q \in Ids : Live(q) /\ posts[q].op = job[c].op => q = p
    BY <2>1 DEF TypeOK
  <2> QED BY <1>19, <2>1, <2>2 DEF Fitting, Live
<1>20. CASE FindExact(c)
  <2>1. UNCHANGED posts /\ job[c].step = "exact"
    BY <1>20 DEF FindExact, slot
  <2>2. CASE RowsOf(job[c].op) # {}
    <3>1. PICK p \in RowsOf(job[c].op) : job' = [job EXCEPT ![c].found = p, ![c].step = "gated"]
      BY <1>20, <2>2 DEF FindExact
    <3>2. job'[c].found = p /\ job'[c].step = "gated" /\ job'[c].op = job[c].op
      BY <1>1, <3>1 DEF Job
    <3>3. Fitting(c, p)'
      BY <1>19, <2>1, <3>2
    <3> QED BY <3>2, <3>3 DEF Names, Carries, HoldsPost
  <2>3. CASE RowsOf(job[c].op) = {}
    <3>1. /\ job'[c].found = job[c].found /\ job'[c].op = job[c].op
          /\ job'[c].step = IF job[c].found = NoPost THEN "uncovered" ELSE "byid"
      BY <1>1, <1>20, <2>3 DEF FindExact, Job
    <3>2. job[c].found # NoPost => job[c].found \in Ids
      BY <1>1 DEF Job, MaybePost
    <3>3. \A q \in Ids : Live(q)' => posts'[q].op # job[c].op
      BY <2>1, <2>3 DEF RowsOf, Live
    <3> QED BY <1>2, <1>3, <2>1, <3>1, <3>2, <3>3 DEF Names, Carries, HoldsPost
  <2> QED BY <2>2, <2>3
<1>21. CASE FindById(c)
  <2>1. UNCHANGED posts /\ job[c].step = "byid" /\ job[c].found \in Ids
    BY <1>2, <1>21 DEF FindById, slot, Names
  <2>2. CASE job' = [job EXCEPT ![c].step = "gated"]
    <3>1. job'[c].found = job[c].found /\ job'[c].op = job[c].op /\ job'[c].step = "gated"
      BY <1>1, <2>2 DEF Job
    <3>2. Fitting(c, job[c].found)
      BY <1>2, <2>1 DEF Carries, Fitting
    <3>3. Busy(c) /\ ~Create(c)
      BY <2>1 DEF Busy, Create
    <3> QED BY <1>4, <2>1, <3>1, <3>2, <3>3 DEF Names, Carries, HoldsPost
  <2>3. CASE job' = [job EXCEPT ![c].step = "uncovered", ![c].found = NoPost]
    <3>1. job'[c].found = NoPost /\ job'[c].step = "uncovered"
      BY <1>1, <2>3 DEF Job
    <3> QED BY <3>1 DEF Names, Carries, HoldsPost
  <2> QED BY <1>21, <2>2, <2>3 DEF FindById
<1>22. CASE CheckCoverage(c)
  <2>1. CASE Goto(c, "gated")
    <3>1. job'[c].found = job[c].found /\ job'[c].step = "gated"
      BY <1>1, <2>1 DEF Goto, Job
    <3>2. job[c].found \notin Ids
      BY <1>2, <1>5, <1>22 DEF CheckCoverage, Names
    <3> QED BY <3>1, <3>2 DEF Names, Carries, HoldsPost
  <2> QED BY <1>7, <1>22, <2>1 DEF CheckCoverage
<1>23. ASSUME NEW p \in Ids, Gets(c, p, "created"), Fitting(c, p)' PROVE Names(c)' /\ Carries(c)'
  <2>1. job'[c].post = p /\ job'[c].step = "created"
    BY <1>1, <1>23 DEF Gets, Job
  <2> QED BY <1>23, <2>1 DEF Names, Carries, HoldsPost
<1>24. CASE Create(c)
  <2>1. ASSUME NEW p, Gets(c, p, "created") PROVE job'[c].op = job[c].op
    BY <1>1, <2>1 DEF Gets, Job
  <2>2. CASE job[c].found # NoPost
    <3>1. job[c].found \in Ids /\ Gets(c, job[c].found, "created") /\ UNCHANGED <<posts, draft>>
      BY <1>1, <1>24, <2>2 DEF Create, Job, MaybePost
    <3>2. job[c].step = "ready"
      BY <1>24 DEF Create
    <3>3. PICK p \in Ids : p = job[c].found
      BY <3>1
    <3>4. Fitting(c, p) /\ job'[c].op = job[c].op
      BY <1>2, <2>1, <3>1, <3>2, <3>3 DEF Carries
    <3>5. Fitting(c, p)'
      BY <3>1, <3>4 DEF Fitting, Settled, Home, Live
    <3> QED BY <1>23, <3>1, <3>3, <3>5
  <2>3. CASE job[c].found = NoPost /\ RowsOf(job[c].op) # {}
    <3>1. PICK p \in RowsOf(job[c].op) : Gets(c, p, "created") /\ UNCHANGED posts
      BY <1>24, <2>3 DEF Create
    <3> QED BY <1>19, <1>23, <2>1, <3>1
  <2>4. CASE job[c].found = NoPost /\ RowsOf(job[c].op) = {}
    <3>1. PICK p \in Ids : /\ posts[p].status = "unborn"
                           /\ posts' = [posts EXCEPT ![p] = [op |-> job[c].op, status |-> "approved"]]
                           /\ Gets(c, p, "created")
      BY <1>24, <2>4 DEF Create
    <3>2. posts'[p].op = job[c].op /\ posts'[p].status = "approved"
      BY <1>1, <3>1
    <3>3. \A q \in Ids : q # p /\ Live(q)' => posts'[q].op # job[c].op
      BY <1>1, <2>4, <3>1 DEF RowsOf, Live
    <3>4. Fitting(c, p)'
      BY <2>1, <3>1, <3>2, <3>3 DEF Fitting
    <3> QED BY <1>23, <3>1, <3>4
  <2> QED BY <2>2, <2>3, <2>4
<1>25. CASE PersistLineage(c)
  <2>1. job[c].step = "created" /\ UNCHANGED posts /\ draft' = [draft EXCEPT ![job[c].op] = job[c].post]
    BY <1>25 DEF PersistLineage
  <2>2. PICK p \in Ids : p = job[c].post
    BY <1>2, <2>1 DEF Names, HoldsPost
  <2>3. job'[c].post = p /\ job'[c].step = "linked"
    BY <1>1, <1>25, <2>2 DEF PersistLineage, Goto, Job
  <2>4. Fitting(c, p)
    BY <1>2, <2>1, <2>2 DEF Carries
  <2>5. CASE posts[p].op = job[c].op
    <3>1. job[c].op \in Operations
      BY <2>1 DEF Linkage, Apart, Busy
    <3>2. posts[p].status # "unborn"
      BY <2>4 DEF Fitting, Settled
    <3>3. draft'[job[c].op] = p
      BY <2>1, <2>2, <3>1 DEF TypeOK
    <3>4. Settled(p)'
      BY <2>1, <2>5, <3>1, <3>2, <3>3 DEF Settled, Home
    <3> QED BY <2>3, <3>4 DEF Names, Carries, HoldsPost
  <2>6. CASE posts[p].op # job[c].op
    <3>1. Settled(p)'
      BY <1>3, <2>4, <2>6 DEF Fitting
    <3> QED BY <2>3, <3>1 DEF Names, Carries, HoldsPost
  <2> QED BY <2>5, <2>6
<1>26. CASE Verify(c) \/ LinkOutcome(c)
  <2>1. PICK step \in {"verified", "unverified", "persisted", "failed"} : Goto(c, step)
    BY <1>26 DEF Verify, LinkOutcome
  <2>2. job'[c].post = job[c].post /\ job'[c].step = step
    BY <1>1, <2>1 DEF Goto, Job
  <2> QED BY <1>10, <1>26, <2>2 DEF Verify, LinkOutcome, HoldsPost
<1>27. CASE LoseSource(c) \/ Append(c) \/ Crash(c)
  BY <1>7, <1>27 DEF LoseSource, Append, Crash
<1> QED BY <1>8, <1>11, <1>12, <1>13, <1>14, <1>15, <1>17, <1>18, <1>20, <1>21, <1>22, <1>24, <1>25, <1>26, <1>27
  DEF Moves

LEMMA RecordsSettledStep ==
  ASSUME TypeOK, Linkage, Next, InOrder'
  PROVE  RecordsSettled'
<1>1. \A p \in Ids : Settled(p) => Settled(p)'
  BY SettledStep
<1>2. RecordsSettled
  BY DEF Linkage
<1>3. NoPost \notin Ids
  BY DEF NoPost, Ids
<1>4. lineup \in Lineup /\ job \in [Calls -> Job] /\ event \in [Operations -> Event]
  BY DEF TypeOK
<1>5. ASSUME NEW p \in Ids, p = lineup'.post PROVE Settled(p)'
  <2>1. CASE p = lineup.post
    BY <1>1, <1>2, <2>1 DEF RecordsSettled
  <2>2. ASSUME NEW c \in Calls, PersistLineage(c) PROVE Settled(p)'
    <3>1. p = job[c].post
      BY <1>5, <2>2 DEF PersistLineage, Listed
    <3>2. job'[c].post = p /\ job'[c].step = "linked"
      BY <1>4, <2>2, <3>1 DEF PersistLineage, Goto, Job
    <3>3. Carries(c)'
      BY <2>2, CarriesStep DEF Moves
    <3> QED BY <3>2, <3>3 DEF Carries, HoldsPost
  <2>3. ASSUME NEW c \in Calls, MissListedPost(c) PROVE p = lineup.post
    BY <1>3, <1>4, <1>5, <2>3 DEF MissListedPost, Lineup
  <2>4. p = lineup.post \/ (\E c \in Calls : PersistLineage(c) \/ MissListedPost(c))
    BY <1>3, <1>5, NextParts, MovesWrite, ElsewhereWrites
  <2> QED BY <2>1, <2>2, <2>3, <2>4
<1>6. ASSUME NEW o \in Operations, Finished(event'[o])
      PROVE  event'[o].post \in Ids /\ \A p \in Ids : p = event'[o].post => Settled(p)'
  <2>1. CASE event'[o] = event[o]
    BY <1>1, <1>2, <1>6, <2>1 DEF RecordsSettled
  <2>2. ASSUME NEW c \in Calls, Append(c), event'[o] # event[o]
        PROVE  job[c].step \in {"reused", "persisted"} /\ event'[o].post = job[c].post
    BY <1>4, <1>6, <2>2 DEF Append, Finished
  <2>3. ASSUME NEW c \in Calls, Append(c), event'[o] # event[o]
        PROVE  event'[o].post \in Ids /\ Settled(event'[o].post)
    BY <2>2, <2>3 DEF Linkage, Names, Carries, HoldsPost
  <2>4. event'[o] = event[o] \/ \E c \in Calls : Append(c)
    BY NextParts, MovesWrite, ElsewhereWrites
  <2> QED BY <1>1, <2>1, <2>3, <2>4
<1> QED BY <1>5, <1>6 DEF RecordsSettled

LEMMA LinkInvHolds == Spec => []LinkInv
<1>1. Init => LinkInv
  <2> SUFFICES ASSUME Init PROVE LinkInv
    OBVIOUS
  <2>1. NoPost \notin Ids
    BY DEF NoPost, Ids
  <2>2. \A c \in Calls : job[c].step = "idle" /\ job[c].op = None
    BY DEF Init, NoJob
  <2>3. deletion.step = "idle" /\ lineup.post = NoPost /\ \A o \in Operations : event[o].type = None
    BY DEF Init, NoDeletion
  <2>4. Apart /\ DeletionRight /\ RecordsSettled
    BY <2>1, <2>2, <2>3 DEF Apart, DeletionRight, RecordsSettled, Busy, Finished, None
  <2>5. \A c \in Calls : Names(c) /\ Carries(c)
    BY <2>2 DEF Names, Carries, HoldsPost
  <2> QED BY <2>4, <2>5, InitTyped DEF LinkInv, Linkage
<1>2. ASSUME LinkInv, [Next]_vars PROVE LinkInv'
  <2>1. TypeOK'
    BY <1>2, TypeStep DEF LinkInv
  <2>2. ASSUME Next, InOrder' PROVE Linkage'
    <3>1. TypeOK /\ Linkage
      BY <1>2, <2>2, OverlapsGrow DEF LinkInv, InOrder
    <3>2. Apart' /\ DeletionRight' /\ RecordsSettled'
      BY <2>2, <3>1, ApartStep, DeletionRightStep, RecordsSettledStep DEF Linkage
    <3>3. \A c \in Calls : Names(c)' /\ Carries(c)'
      BY <2>2, <3>1, NextParts, MovesAlone, CarriesStep, CarriesKept, ElsewhereWrites
    <3> QED BY <3>2, <3>3 DEF Linkage
  <2>3. CASE UNCHANGED vars
    BY <1>2, <2>1, <2>3 DEF LinkInv, InOrder, vars, slot, counts, Linkage, Apart, DeletionRight, RecordsSettled,
       Names, Carries, Fitting, Settled, Home, Live, Busy
  <2> QED BY <1>2, <2>1, <2>2, <2>3 DEF LinkInv
<1> QED BY <1>1, <1>2, PTL DEF Spec

\* What an operation reported as persisted or reused keeps its link for as long as
\* the post is there, whatever other calls, repairs, reviews and deletions do.
THEOREM PersistedPostStaysLinked == Spec => []PersistedStaysLinked
<1>1. LinkInv => PersistedStaysLinked
  BY DEF LinkInv, InOrder, Linkage, RecordsSettled, Settled, Home, PersistedStaysLinked, Linked
<1> QED BY <1>1, LinkInvHolds, PTL

-----------------------------------------------------------------------------
\* Why the lineup row and the hypothesis agree.  When calls and repairs come one at
\* a time, the lineup row that a call read is the lineup row until it writes it, so a
\* call that reaches the source check or a creation found no scheduled post there: a
\* scheduled live one is linked, and would have been reused.
Scheduled == lineup.status = "scheduled" /\ Live(lineup.post)
Stands(c) ==
  /\ job[c].step = "lineup" => job[c].found = lineup.post /\ (~job[c].listed => lineup.status # "scheduled")
  /\ job[c].step \in {"reuse", "relink"} => job[c].found = lineup.post
  /\ job[c].step \in {"exact", "byid", "uncovered", "gated", "renoted", "ready", "created"} => ~Scheduled
  /\ job[c].step \in {"linked", "verified", "persisted"} =>
       /\ lineup.post = job[c].post /\ lineup.op = job[c].op
       /\ hyp.post = job[c].post /\ hyp.status = "scheduled"
       /\ plan.status = "scheduled"
       /\ Live(job[c].post) => draft[job[c].op] = job[c].post /\ lineup.status \in {"scheduled", "kept"}
  /\ job[c].step \in {"unverified", "failed"} => ~Live(job[c].post) /\ lineup.post = job[c].post
Agreed ==
  /\ "retry" \notin overlaps
  /\ lineup.status = "scheduled" => lineup.post \in Ids
  /\ Scheduled => hyp.post = lineup.post /\ Locked
  /\ \A c \in Calls : Stands(c)
Quiet == overlaps \cap {"calls", "deletion"} = {}
AgreeInv == LinkInv /\ LockInv /\ (Quiet => Agreed)

\* Rows that only age: no post comes alive, the lineup row keeps its post, which is
\* kept or retired, and a live post keeps its drafts.
LEMMA AgreedErodes ==
  ASSUME TypeOK, Linkage, Agreed, UNCHANGED <<job, hyp, plan>>, "retry" \notin overlaps',
         lineup'.post = lineup.post, lineup'.op = lineup.op,
         lineup'.status = "scheduled" => lineup.status = "scheduled",
         \A p \in Ids : Live(p)' => Live(p),
         \A p \in Ids : Live(p)' /\ lineup.post = p /\ lineup.status \in {"scheduled", "kept"} =>
                          lineup'.status \in {"scheduled", "kept"},
         \A o \in Operations, p \in Ids : Live(p)' /\ draft[o] = p => draft'[o] = p
  PROVE  Agreed'
<1>1. lineup'.status = "scheduled" => lineup'.post \in Ids
  BY DEF Agreed
<1>2. Scheduled' => Scheduled
  BY <1>1 DEF Scheduled
<1>3. Scheduled' => hyp'.post = lineup'.post /\ Locked'
  BY <1>2 DEF Agreed, Locked
<1>4. ASSUME NEW c \in Calls PROVE Stands(c)'
  <2>1. Stands(c) /\ Names(c) /\ job'[c] = job[c]
    BY DEF Agreed, Linkage
  <2>2. Busy(c) => job[c].op \in Operations
    BY DEF Linkage, Apart
  <2>3. job[c].step \in {"linked", "verified", "persisted", "unverified", "failed"} => job[c].post \in Ids
    BY <2>1 DEF Names, HoldsPost
  <2> QED BY <1>2, <2>1, <2>2, <2>3 DEF Stands, Busy
<1> QED BY <1>1, <1>3, <1>4 DEF Agreed

LEMMA AgreedElsewhere ==
  ASSUME TypeOK, Linkage, DeletionRight', OneAtATime, Agreed, Elsewhere, Quiet'
  PROVE  Agreed'
<1>1. lineup \in Lineup /\ posts \in [Ids -> Post] /\ hyp \in Hypothesis /\ deletion \in Deletion
      /\ draft \in [Operations -> MaybePost]
  BY DEF TypeOK
<1>2. "retry" \notin overlaps
  BY DEF Agreed
<1>3. "retry" \notin overlaps'
  BY <1>2 DEF Elsewhere, Others, Noticed, LookForMissing, InspectPlan, Displace, RefreshSource, AbandonRepair,
     CheckDeletable, Claim, CheckReviewable, DeletePost, UnlinkDrafts, RetireLineup, RetireBatch, AbandonDeletion,
     Keep
<1>4. UNCHANGED job
  BY ElsewhereWrites
<1>5. CASE UNCHANGED slot
  BY <1>3, <1>4, <1>5, AgreedErodes DEF slot, Live
\* Under a repair no call is under way, and it leaves no scheduled post.
<1>6. ASSUME repair # "idle", UNCHANGED job PROVE \A c \in Calls : Stands(c)'
  BY <1>6 DEF OneAtATime, Busy, Stands
<1>7. ASSUME NEW s \in Sources, Displace(s) PROVE Agreed'
  <2>1. lineup'.status # "scheduled"
    BY <1>1, <1>7 DEF Displace, Lineup, None
  <2> QED BY <1>3, <1>6, <1>7, <2>1 DEF Displace, Agreed, Scheduled
<1>8. ASSUME NEW s \in Sources, RefreshSource(s) PROVE Agreed'
  <2>1. UNCHANGED <<posts, lineup, hyp>>
    BY <1>8 DEF RefreshSource
  <2> QED BY <1>3, <1>6, <1>8, <2>1 DEF RefreshSource, Agreed, Scheduled, Live, Locked
<1>9. ASSUME NEW p \in Ids, Claim(p) PROVE Agreed'
  <2>1. \A q \in Ids : Live(q)' => Live(q)
    BY <1>1, <1>9 DEF Claim, Live
  <2> QED BY <1>3, <1>4, <1>9, <2>1, AgreedErodes DEF Claim
<1>10. posts' = Deleted(deletion.post) => \A q \in Ids : Live(q)' => Live(q)
  BY <1>1 DEF Deleted, Live, Post
<1>11. CASE DeletePost
  <2>1. posts' = Deleted(deletion.post) /\ UNCHANGED <<lineup, hyp, plan, draft>>
    BY <1>11 DEF DeletePost
  <2> QED BY <1>3, <1>4, <1>10, <2>1, AgreedErodes
\* A post whose deletion went on to its records is gone.
<1>12. CASE UnlinkDrafts
  <2>1. deletion.post \in Ids /\ ~Live(deletion.post)
    BY <1>12 DEF UnlinkDrafts, Linkage, DeletionRight, Live
  <2>2. UNCHANGED <<posts, lineup, hyp, plan>> /\ draft' = Unlinked(deletion.post)
    BY <1>12 DEF UnlinkDrafts
  <2>3. \A q \in Ids : Live(q)' <=> Live(q)
    BY <2>2 DEF Live
  <2> QED BY <1>3, <1>4, <2>1, <2>2, <2>3, AgreedErodes DEF Unlinked
<1>13. lineup' = Retired(deletion.post) =>
         /\ lineup'.post = lineup.post /\ lineup'.op = lineup.op
         /\ lineup'.status = "scheduled" => lineup.status = "scheduled"
         /\ lineup.post # deletion.post => lineup' = lineup
  BY <1>1 DEF Retired, Lineup
<1>14. CASE RetireLineup
  <2>1. deletion.post \in Ids /\ ~Live(deletion.post)
    BY <1>14 DEF RetireLineup, Linkage, DeletionRight, Live
  <2>2. UNCHANGED <<posts, draft, hyp, plan>> /\ lineup' = Retired(deletion.post)
    BY <1>14 DEF RetireLineup
  <2>3. \A q \in Ids : Live(q)' <=> Live(q)
    BY <2>2 DEF Live
  <2> QED BY <1>3, <1>4, <1>13, <2>1, <2>2, <2>3, AgreedErodes
<1>15. CASE RetireBatch
  <2>1. deletion.post \in Ids /\ posts[deletion.post].status = "approved"
    BY <1>15 DEF RetireBatch, Linkage, DeletionRight, Noticed, Quiet
  <2>2. /\ UNCHANGED <<hyp, plan>> /\ posts' = Deleted(deletion.post)
        /\ lineup' = Retired(deletion.post) /\ draft' = Unlinked(deletion.post)
    BY <1>15 DEF RetireBatch
  <2>3. posts'[deletion.post].status = "deleted"
    BY <1>1, <2>1, <2>2 DEF Deleted, Post
  <2>4. \A q \in Ids : Live(q)' => Live(q) /\ q # deletion.post
    BY <1>10, <2>2, <2>3 DEF Live
  <2> QED BY <1>3, <1>4, <1>13, <2>2, <2>4, AgreedErodes DEF Unlinked
<1>16. CASE Keep
  <2>1. /\ lineup'.post = lineup.post /\ lineup'.op = lineup.op
        /\ lineup'.status \in {lineup.status, "kept"}
    BY <1>1, <1>16 DEF Keep, Lineup
  <2>2. UNCHANGED <<posts, draft, hyp, plan>>
    BY <1>16 DEF Keep
  <2>3. \A q \in Ids : Live(q)' <=> Live(q)
    BY <2>2 DEF Live
  <2> QED BY <1>3, <1>4, <2>1, <2>2, <2>3, AgreedErodes
<1> QED BY <1>5, <1>7, <1>8, <1>9, <1>11, <1>12, <1>14, <1>15, <1>16 DEF Elsewhere, LookForMissing, InspectPlan,
  AbandonRepair, CheckDeletable, CheckReviewable, AbandonDeletion

\* The step of the call that is under way.
LEMMA AgreedMoves ==
  ASSUME TypeOK, Linkage, OneAtATime, OneAtATime', Agreed, Next, NEW c \in Calls, Moves(c), Quiet'
  PROVE  Agreed'
<1>1. job \in [Calls -> Job] /\ job[c] \in Job /\ lineup \in Lineup /\ posts \in [Ids -> Post]
      /\ hyp \in Hypothesis /\ plan \in Plan /\ draft \in [Operations -> MaybePost]
  BY DEF TypeOK
<1>2. /\ Stands(c) /\ Names(c) /\ Carries(c)
      /\ lineup.status = "scheduled" => lineup.post \in Ids
      /\ Scheduled => hyp.post = lineup.post /\ Locked
  BY DEF Agreed, Linkage
<1>3. NoPost \notin Ids
  BY DEF NoPost, Ids
<1>4. ASSUME NEW d \in Calls, d # c PROVE Stands(d)'
  <2>1. job'[d] = job[d]
    BY <1>4, MovesAlone
  <2>2. CASE Busy(c)
    BY <1>4, <2>1, <2>2 DEF OneAtATime, Busy, Stands
  <2>3. CASE \E o \in Operations : Match(c, o)
    <3>1. Busy(c)'
      BY <1>1, <2>3 DEF Match, NoJob, Busy
    <3> QED BY <1>4, <2>1, <3>1 DEF OneAtATime, Busy, Stands
  <2>4. Busy(c) \/ \E o \in Operations : Match(c, o)
    BY DEF Moves, Busy, ReadHypothesis, WriteHypothesis, ReadLineup, FindListedPost, MissListedPost, ConsiderReuse,
       LinkReused, FindExact, FindById, CheckCoverage, LoseSource, Create, PersistLineage, Verify, LinkOutcome,
       Append, Crash
  <2> QED BY <2>2, <2>3, <2>4
<1>5. "retry" \notin overlaps'
  <2>1. "retry" \notin overlaps
    BY DEF Agreed
  <2>2. ASSUME NEW o \in Operations, Match(c, o) PROVE "retry" \notin overlaps'
    <3>1. \A d \in Calls : ~Busy(d)
      BY <2>2 DEF Match, Quiet
    <3>2. \A d \in Calls : job[d].op # o
      BY <3>1, OperationsAssumption DEF Linkage, Apart
    <3> QED BY <2>1, <2>2, <3>2 DEF Match
  <2>3. CASE CheckCoverage(c)
    BY <2>1, <2>3 DEF CheckCoverage, Noticed
  <2>4. UNCHANGED overlaps \/ CheckCoverage(c) \/ \E o \in Operations : Match(c, o)
    BY DEF Moves, Others, ReadHypothesis, WriteHypothesis, ReadLineup, FindListedPost, MissListedPost, ConsiderReuse,
       LinkReused, FindExact, FindById, LoseSource, Create, PersistLineage, Verify, LinkOutcome, Append, Crash
  <2> QED BY <2>1, <2>2, <2>3, <2>4
\* No step brings the lineup row's post to life.
<1>6. lineup' = lineup => (Scheduled' => Scheduled)
  BY <1>2, RowsAge DEF Scheduled, Linkage, RecordsSettled, Settled
<1>7. ASSUME lineup' = lineup, hyp' = hyp, Stands(c)' PROVE Agreed'
  BY <1>2, <1>4, <1>5, <1>6, <1>7 DEF Agreed, Locked
<1>8. ASSUME lineup' = lineup, ~Scheduled, Stands(c)' PROVE Agreed'
  BY <1>2, <1>4, <1>5, <1>6, <1>8 DEF Agreed
<1>9. job'[c].step \in {"idle", "matched", "noted", "admitted", "reused"} => Stands(c)'
  BY DEF Stands
<1>10. End(c) => Stands(c)'
  BY <1>1, <1>9 DEF End, NoJob
\* On the way from a search without result to the creation.
<1>11. ASSUME lineup' = lineup, job'[c].step \in {"exact", "byid", "uncovered", "gated", "renoted", "ready", "created"},
              ~Scheduled
       PROVE  Stands(c)'
  BY <1>6, <1>11 DEF Stands
<1>12. job[c].step \in {"exact", "byid", "uncovered", "gated", "renoted", "ready", "created"} => ~Scheduled
  BY <1>2 DEF Stands
<1>13. CASE \E o \in Operations : Match(c, o)
  <2>1. job'[c].step = "matched"
    BY <1>1, <1>13 DEF Match, NoJob
  <2> QED BY <1>7, <1>9, <1>13, <2>1 DEF Match, slot
<1>14. CASE ReadHypothesis(c)
  <2>1. job'[c].step = IF job[c].step = "matched" THEN "noted" ELSE "renoted"
    BY <1>1, <1>14 DEF ReadHypothesis, Job
  <2> QED BY <1>7, <1>9, <1>11, <1>12, <1>14, <2>1 DEF ReadHypothesis, slot
<1>15. CASE WriteHypothesis(c)
  <2>1. job'[c].step = IF job[c].step = "noted" THEN "admitted" ELSE "ready"
    BY <1>1, <1>15 DEF WriteHypothesis, Job
  <2>2. lineup' = lineup
    BY <1>15 DEF WriteHypothesis
  <2>3. Scheduled' => hyp'.post = lineup'.post /\ Locked'
    <3>1. hyp'.post = hyp.post /\ (hyp.status # None => hyp'.status = hyp.status)
      BY <1>1, <1>15 DEF WriteHypothesis, NotedHypothesis, Hypothesis
    <3> QED BY <1>2, <1>6, <2>2, <3>1 DEF Locked, None
  <2>4. Stands(c)'
    BY <1>9, <1>11, <1>12, <1>15, <2>1, <2>2 DEF WriteHypothesis
  <2> QED BY <1>2, <1>4, <1>5, <2>2, <2>3, <2>4 DEF Agreed
<1>16. CASE ReadLineup(c)
  <2>1. /\ job'[c].found = lineup.post /\ job'[c].listed = (lineup.status = "scheduled")
        /\ job'[c].step = IF lineup.post = NoPost THEN "exact" ELSE "lineup"
    BY <1>1, <1>16 DEF ReadLineup, Job
  <2>2. UNCHANGED <<lineup, hyp>>
    BY <1>16 DEF ReadLineup, slot
  <2>3. lineup.post = NoPost => ~Scheduled
    BY <1>2, <1>3 DEF Scheduled
  <2> QED BY <1>7, <1>11, <2>1, <2>2, <2>3 DEF Stands
<1>17. CASE FindListedPost(c)
  <2>1. job'[c].found = job[c].found /\ job'[c].step = IF job[c].listed THEN "reuse" ELSE "exact"
    BY <1>1, <1>17 DEF FindListedPost, Job
  <2>2. UNCHANGED <<lineup, hyp>> /\ job[c].step = "lineup"
    BY <1>17 DEF FindListedPost, slot
  <2>3. job[c].found = lineup.post /\ (~job[c].listed => ~Scheduled)
    BY <1>2, <2>2 DEF Stands, Scheduled
  <2> QED BY <1>1, <1>7, <1>11, <2>1, <2>2, <2>3 DEF Stands, Job
<1>18. CASE MissListedPost(c)
  <2>1. job'[c].step = "exact"
    BY <1>1, <1>18 DEF MissListedPost, Job
  <2>2. lineup'.status = "stale"
    BY <1>1, <1>2, <1>18 DEF MissListedPost, Stands, Lineup
  <2>3. ~Scheduled'
    BY <2>2 DEF Scheduled
  <2>4. Stands(c)'
    BY <2>1, <2>3 DEF Stands
  <2> QED BY <1>4, <1>5, <2>2, <2>3, <2>4 DEF Agreed
\* A scheduled live post is linked, so that the call does not look for another.
<1>19. CASE ConsiderReuse(c)
  <2>1. UNCHANGED <<lineup, hyp>> /\ job[c].step = "reuse"
    BY <1>19 DEF ConsiderReuse, slot
  <2>2. job[c].found = lineup.post
    BY <1>2, <2>1 DEF Stands
  <2>3. Scheduled => Linked(job[c].found)
    BY <1>2, <2>2 DEF Scheduled, Linkage, RecordsSettled, Settled, Home, Linked
  <2>4. CASE End(c)
    BY <1>7, <1>10, <2>1, <2>4
  <2>5. CASE Goto(c, "exact") /\ ~Linked(job[c].found)
    <3>1. job'[c].step = "exact"
      BY <1>1, <2>5 DEF Goto, Job
    <3> QED BY <1>7, <1>11, <2>1, <2>3, <2>5, <3>1
  <2>6. CASE Goto(c, "relink")
    <3>1. job'[c].step = "relink" /\ job'[c].found = job[c].found
      BY <1>1, <2>6 DEF Goto, Job
    <3>2. Stands(c)'
      BY <2>1, <2>2, <3>1 DEF Stands
    <3> QED BY <1>7, <2>1, <3>2
  <2> QED BY <1>19, <2>4, <2>5, <2>6 DEF ConsiderReuse
<1>20. CASE LinkReused(c)
  <2>1. UNCHANGED lineup /\ job[c].found = lineup.post
    BY <1>2, <1>20 DEF LinkReused, Stands
  <2>2. hyp'.post = job[c].found /\ hyp'.status = "reused"
    BY <1>1, <1>20 DEF LinkReused, LinkedHypothesis, Hypothesis
  <2>3. job'[c].step = "reused"
    BY <1>1, <1>20 DEF LinkReused, Gets, Job
  <2> QED BY <1>2, <1>4, <1>5, <1>9, <2>1, <2>2, <2>3 DEF Agreed, Locked
<1>21. CASE FindExact(c)
  <2>1. job'[c].step \in {"gated", "uncovered", "byid"} /\ job[c].step = "exact"
    BY <1>1, <1>21 DEF FindExact, Job
  <2> QED BY <1>7, <1>11, <1>12, <1>21, <2>1 DEF FindExact, slot
<1>22. CASE FindById(c)
  <2>1. CASE job' = [job EXCEPT ![c].step = "gated"]
    <3>1. job'[c].step = "gated"
      BY <1>1, <2>1 DEF Job
    <3> QED BY <1>7, <1>11, <1>12, <1>22, <3>1 DEF FindById, slot
  <2>2. CASE job' = [job EXCEPT ![c].step = "uncovered", ![c].found = NoPost]
    <3>1. job'[c].step = "uncovered"
      BY <1>1, <2>2 DEF Job
    <3> QED BY <1>7, <1>11, <1>12, <1>22, <3>1 DEF FindById, slot
  <2> QED BY <1>22, <2>1, <2>2 DEF FindById
<1>23. CASE CheckCoverage(c)
  <2>1. UNCHANGED <<lineup, hyp>> /\ job[c].step = "uncovered"
    BY <1>23 DEF CheckCoverage, slot
  <2>2. Goto(c, "gated") => job'[c].step = "gated"
    BY <1>1 DEF Goto, Job
  <2> QED BY <1>7, <1>10, <1>11, <1>12, <1>23, <2>1, <2>2 DEF CheckCoverage
<1>24. CASE LoseSource(c)
  BY <1>8, <1>10, <1>12, <1>24 DEF LoseSource
<1>25. CASE Create(c)
  <2>1. PICK n : Gets(c, n, "created")
    BY <1>25 DEF Create
  <2>2. job'[c].step = "created"
    BY <1>1, <2>1 DEF Gets, Job
  <2> QED BY <1>7, <1>11, <1>12, <1>25, <2>2 DEF Create
<1>26. CASE PersistLineage(c)
  <2> DEFINE p == job[c].post
             o == job[c].op
  <2>1. p \in Ids /\ o \in Operations
    BY <1>2, <1>26 DEF PersistLineage, Names, HoldsPost, Linkage, Apart, Busy
  <2>2. lineup' = [status |-> "scheduled", post |-> p, op |-> o]
    BY <1>26 DEF PersistLineage, Listed
  <2>3. hyp'.post = p /\ hyp'.status = "scheduled" /\ plan'.status = "scheduled" /\ draft'[o] = p
    BY <1>1, <1>26, <2>1 DEF PersistLineage, LinkedHypothesis, Hypothesis, Plan
  <2>4. job'[c].step = "linked" /\ job'[c].post = p /\ job'[c].op = o
    BY <1>1, <1>26 DEF PersistLineage, Goto, Job
  <2>5. Stands(c)'
    BY <2>2, <2>3, <2>4 DEF Stands
  <2> QED BY <1>4, <1>5, <2>1, <2>2, <2>3, <2>5 DEF Agreed, Locked
<1>27. CASE Verify(c)
  <2>1. UNCHANGED <<posts, lineup, hyp, plan, draft>> /\ job[c].step = "linked"
    BY <1>27 DEF Verify, slot
  <2>2. PICK step \in {"verified", "unverified"} :
          /\ Goto(c, step)
          /\ step = "unverified" => ~Live(job[c].post)
    <3>1. job[c].op \in Operations
      BY <2>1 DEF Linkage, Apart, Busy
    <3> QED BY <1>2, <1>27, <2>1, <3>1, OperationsAssumption DEF Verify, Stands
  <2>3. job'[c].step = step /\ job'[c].post = job[c].post /\ job'[c].op = job[c].op
    BY <1>1, <2>2 DEF Goto, Job
  <2>4. Stands(c)'
    BY <1>2, <2>1, <2>2, <2>3 DEF Stands, Live
  <2> QED BY <1>7, <2>1, <2>4
<1>28. CASE LinkOutcome(c)
  <2>1. UNCHANGED <<posts, lineup, plan, draft>>
    BY <1>28 DEF LinkOutcome
  <2>2. CASE job[c].step = "verified"
    <3>1. hyp'.post = job[c].post /\ hyp'.status = "scheduled"
      BY <1>1, <1>28, <2>2 DEF LinkOutcome, LinkedHypothesis, Hypothesis
    <3>2. job'[c].step = "persisted" /\ job'[c].post = job[c].post /\ job'[c].op = job[c].op
      BY <1>1, <1>28, <2>2 DEF LinkOutcome, Goto, Job
    <3>3. Stands(c)'
      BY <1>2, <2>1, <2>2, <3>1, <3>2 DEF Stands, Live
    <3>4. lineup.post = job[c].post
      BY <1>2, <2>2 DEF Stands
    <3> QED BY <1>2, <1>4, <1>5, <2>1, <3>1, <3>3, <3>4 DEF Agreed, Locked
  <2>3. CASE job[c].step = "unverified"
    <3>1. job'[c].step = "failed" /\ job'[c].post = job[c].post
      BY <1>1, <1>28, <2>3 DEF LinkOutcome, Goto, Job
    <3>2. Stands(c)' /\ ~Scheduled
      BY <1>2, <2>1, <2>3, <3>1 DEF Stands, Scheduled, Live
    <3> QED BY <1>8, <2>1, <3>2
  <2> QED BY <1>28, <2>2, <2>3 DEF LinkOutcome
<1>29. CASE Append(c) \/ Crash(c)
  BY <1>7, <1>10, <1>29 DEF Append, Crash, slot
<1> QED BY <1>13, <1>14, <1>15, <1>16, <1>17, <1>18, <1>19, <1>20, <1>21, <1>22, <1>23, <1>24, <1>25, <1>26, <1>27,
  <1>28, <1>29 DEF Moves

LEMMA AgreeInvHolds == Spec => []AgreeInv
<1>1. Init => Agreed
  <2> SUFFICES ASSUME Init PROVE Agreed
    OBVIOUS
  <2>1. lineup.status = None /\ overlaps = {} /\ \A c \in Calls : job[c].step = "idle"
    BY DEF Init, NoJob
  <2> QED BY <2>1 DEF Agreed, Scheduled, Stands, None
<1>2. ASSUME LinkInv, LockInv, LinkInv', LockInv', Quiet => Agreed, [Next]_vars, Quiet' PROVE Agreed'
  <2>1. CASE Next
    <3>1. Quiet /\ Agreed
      BY <1>2, <2>1, OverlapsGrow DEF LockInv, Quiet
    <3>2. TypeOK /\ Linkage /\ OneAtATime /\ OneAtATime'
      BY <1>2, <3>1 DEF LinkInv, LockInv, Quiet, Agreed, InOrder
    <3>3. DeletionRight' \/ "retry" \in overlaps'
      BY <1>2 DEF LinkInv, InOrder, Quiet, Linkage
    <3>4. CASE \E c \in Calls : Moves(c)
      BY <1>2, <2>1, <3>1, <3>2, <3>4, AgreedMoves
    <3>5. CASE Elsewhere
      <4>1. "retry" \notin overlaps'
        BY <3>1, <3>5 DEF Agreed, Elsewhere, Others, Noticed, LookForMissing, InspectPlan, Displace, RefreshSource,
           AbandonRepair, CheckDeletable, Claim, CheckReviewable, DeletePost, UnlinkDrafts, RetireLineup,
           RetireBatch, AbandonDeletion, Keep
      <4> QED BY <1>2, <3>1, <3>2, <3>3, <3>5, <4>1, AgreedElsewhere
    <3> QED BY <2>1, <3>4, <3>5, NextParts
  <2>2. CASE UNCHANGED vars
    BY <1>2, <2>2 DEF vars, slot, counts, Quiet, Agreed, Scheduled, Stands, Live, Locked
  <2> QED BY <1>2, <2>1, <2>2
<1> QED BY <1>1, <1>2, LinkInvHolds, LockInvHolds, PTL DEF Spec, AgreeInv

\* A post that the lineup row calls scheduled is the one the slot's hypothesis is
\* locked for.
THEOREM LineupAndHypothesisStayAgreed == Spec => []LineupAndHypothesisAgree
<1>1. AgreeInv => LineupAndHypothesisAgree
  BY DEF AgreeInv, Quiet, Agreed, Scheduled, LineupAndHypothesisAgree
<1> QED BY <1>1, AgreeInvHolds, PTL

\* The event post_persisted is written only when the lineage it calls complete is
\* all in place.
LEMMA AppendIsComplete ==
  ASSUME AgreeInv, Quiet, NEW c \in Calls, Append(c), job[c].step = "persisted", Live(job[c].post)
  PROVE  Complete(job[c].op, job[c].post)
BY DEF AgreeInv, Agreed, Stands, Complete, Locked

THEOREM PersistedRecordsAreComplete == Spec => PersistedIsComplete
<1>1. ASSUME AgreeInv, [Next]_vars, NEW o \in Operations,
             event[o].type # "post_persisted", event'[o].type = "post_persisted", Live(event'[o].post), Quiet
      PROVE  Complete(o, event'[o].post)
  <2>1. event' # event
    BY <1>1
  <2>2. PICK c \in Calls : Append(c)
    BY <1>1, <2>1, NextParts, MovesWrite, ElsewhereWrites DEF AgreeInv, LinkInv, vars, slot
  <2>3. event \in [Operations -> Event]
    BY <1>1 DEF AgreeInv, LinkInv, TypeOK
  <2>4. o = job[c].op /\ job[c].step = "persisted" /\ event'[o].post = job[c].post
    BY <1>1, <2>2, <2>3 DEF Append
  <2> QED BY <1>1, <2>2, <2>4, AppendIsComplete
<1>2. AgreeInv /\ [Next]_vars =>
        [\A o \in Operations :
           /\ event[o].type # "post_persisted" /\ event'[o].type = "post_persisted"
           /\ Live(event'[o].post)
           /\ overlaps \cap {"calls", "deletion"} = {}
           => Complete(o, event'[o].post)]_vars
  BY <1>1 DEF Quiet
<1> QED BY <1>2, AgreeInvHolds, PTL DEF Spec, PersistedIsComplete
=============================================================================
