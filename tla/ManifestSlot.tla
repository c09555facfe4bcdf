---------------------------- MODULE ManifestSlot ----------------------------
(***************************************************************************)
(* One slot of a Manifest cycle: the candidates submitted for it, and the  *)
(* rows that a persisted candidate leaves behind (lensically-worker/src/   *)
(* operatorManifestPersistenceAdmissionService.ts, operatorManifest-       *)
(* PersistenceService.ts, manifestIntelligence.ts and the callers' queries *)
(* in index.ts), with the deletion, review and publication of its posts    *)
(* and the repair of its plan item.                                        *)
(*                                                                         *)
(* An operation is an operation id with its candidate: the id names the    *)
(* draft and the event, the candidate's text and time name the scheduled   *)
(* post.  A step is one statement or one DB.batch; anything may run in     *)
(* between.  A call that a gate refuses, that fails or is evicted ends     *)
(* where it stands (Crash); the client may submit the operation again.     *)
(***************************************************************************)
EXTENDS Naturals

CONSTANTS
  Operations, \* candidates for the slot
  Sources,    \* source cards
  SourceOf,   \* the source card of each candidate
  Calls,      \* executions of persistOperatorManifestCandidate
  MaxPosts,   \* bound on the ids given to scheduled posts
  MaxSubmits, \* bound on the calls
  MaxRepairs, \* bound on the repairs
  MaxDeletions \* bound on the deletions

None == "none"
NoPost == 0

ASSUME OperationsAssumption == None \notin Operations
ASSUME SourceOfAssumption == SourceOf \in [Operations -> Sources]
ASSUME MaxPostsAssumption == MaxPosts \in Nat
ASSUME MaxSubmitsAssumption == MaxSubmits \in Nat
ASSUME MaxRepairsAssumption == MaxRepairs \in Nat

Ids == 1..MaxPosts
MaybePost == Ids \cup {NoPost}
MaybeOperation == Operations \cup {None}

VARIABLES
  posts,    \* the rows of scheduled_posts in the slot, deleted ones included
  lineup,   \* the row of operator_autonomous_lineup_items
  hyp,      \* the row of operator_manifest_post_hypotheses
  plan,     \* the row of operator_manifest_cycle_plan_items
  draft,    \* scheduled_post_id of the draft of each operation
  event,    \* the event persist:<operation id> of each operation
  job,      \* [Calls -> Job]
  repair,   \* the execution of repairMissingPlanItem
  deletion, \* the execution of deleteScheduledPostForAppUser or of a batch retirement
  review,   \* the post whose review "keep" passed its check
  submits,  \* calls so far
  repairs,  \* repairs so far
  deletions, \* deletions so far
  overlaps  \* which windows were hit, see OverlapKinds

slot == <<posts, lineup, hyp, plan, draft, event>>
counts == <<submits, repairs, deletions>>
vars == <<slot, job, repair, deletion, review, overlaps, counts>>

\* op is the candidate whose text the row has; "taken" is posting or posted.
Post == [op : MaybeOperation, status : {"unborn", "approved", "taken", "deleted"}]
\* "kept" is owner_kept, "retired" is retired_unobserved; op tells the draft_id.
Lineup == [status : {None, "scheduled", "kept", "retired", "stale"}, post : MaybePost, op : MaybeOperation]
\* of tells whose hypothesis, model evaluation and trace the row has.
Hypothesis == [status : {None, "proposed", "scheduled", "reused", "lineage_failed",
                         "source_lineage_failed", "superseded"},
               post : MaybePost, of : MaybeOperation]
Plan == [status : {"planned", "scheduled"}, source : Sources]
Event == [type : {None, "post_persisted", "post_reused", "lineage_failed"}, post : MaybePost]

\* found is existingScheduledPostId or exactScheduled, listed the lineup's status
\* as it was read, locked what recordManifestPostHypothesis read, post the
\* scheduled post that the candidate gets.  Each is cleared after its last use.
Steps == {"idle", "matched", "noted", "admitted", "lineup", "reuse", "relink", "reused", "exact",
          "byid", "uncovered", "gated", "renoted", "ready", "created", "linked", "verified",
          "unverified", "persisted", "failed"}
Job == [step : Steps, op : MaybeOperation, found : MaybePost, listed : BOOLEAN,
        locked : BOOLEAN, post : MaybePost]
NoJob == [step |-> "idle", op |-> None, found |-> NoPost, listed |-> FALSE, locked |-> FALSE, post |-> NoPost]

Repair == {"idle", "missing", "displacing", "refreshing"}
Deletion == [step : {"idle", "checked", "deleted", "unlinked"}, post : MaybePost]
NoDeletion == [step |-> "idle", post |-> NoPost]

\* "coverage": two candidates were past the coverage check and not created; "calls":
\* two calls, or a call and a repair, were under way together; "retry": two calls of
\* one operation; "deletion": the post was claimed after the deletion's check.
OverlapKinds == {"coverage", "calls", "retry", "deletion"}

Live(p) == posts[p].status \in {"approved", "taken"}

\* buildManifestAutonomousCoverageLedger.
\* Broken: a post that is being published no longer occupies the slot.
CoveredByApproved == \E p \in Ids : posts[p].status = "approved"
Covered == \E p \in Ids : Live(p)

\* SELECT id FROM scheduled_posts WHERE idempotency_key = ?
\* Broken: only while the row waits to be published.
ApprovedRowsOf(o) == {p \in Ids : posts[p].status = "approved" /\ posts[p].op = o}
RowsOf(o) == {p \in Ids : Live(p) /\ posts[p].op = o}

Locked == hyp.status \in {"scheduled", "reused"}

\* idempotency_key of scheduled_posts is unique.
TypeOK ==
  /\ posts \in [Ids -> Post]
  /\ \A p, q \in Ids : Live(p) /\ Live(q) /\ posts[p].op = posts[q].op => p = q
  /\ lineup \in Lineup
  /\ hyp \in Hypothesis
  /\ plan \in Plan
  /\ draft \in [Operations -> MaybePost]
  /\ event \in [Operations -> Event]
  /\ job \in [Calls -> Job]
  /\ repair \in Repair
  /\ deletion \in Deletion
  /\ review \in MaybePost
  /\ submits \in Nat
  /\ repairs \in Nat
  /\ deletions \in Nat
  /\ overlaps \subseteq OverlapKinds

\* A locked cycle with an empty slot.
Init ==
  /\ posts = [p \in Ids |-> [op |-> None, status |-> "unborn"]]
  /\ lineup = [status |-> None, post |-> NoPost, op |-> None]
  /\ hyp = [status |-> None, post |-> NoPost, of |-> None]
  /\ plan \in [status : {"planned"}, source : Sources]
  /\ draft = [o \in Operations |-> NoPost]
  /\ event = [o \in Operations |-> [type |-> None, post |-> NoPost]]
  /\ job = [c \in Calls |-> NoJob]
  /\ repair = "idle"
  /\ deletion = NoDeletion
  /\ review = NoPost
  /\ submits = 0
  /\ repairs = 0
  /\ deletions = 0
  /\ overlaps = {}

-----------------------------------------------------------------------------
Goto(c, step) == job' = [job EXCEPT ![c].step = step]
End(c) == job' = [job EXCEPT ![c] = NoJob]
Gets(c, p, step) == job' = [job EXCEPT ![c].post = p, ![c].found = NoPost, ![c].step = step]
Others == <<repair, deletion, review, overlaps, counts>>

Busy(c) == job[c].step # "idle"
Noticed(kind, happened) == overlaps' = IF happened THEN overlaps \cup {kind} ELSE overlaps

(***************************************************************************)
(* admitOperatorManifestPersistence: the candidate must match the plan     *)
(* item, whatever the item's status.                                       *)
(***************************************************************************)
Match(c, o) ==
  /\ ~Busy(c)
  /\ plan.source = SourceOf[o]
  /\ submits < MaxSubmits
  /\ submits' = submits + 1
  /\ job' = [job EXCEPT ![c] = [NoJob EXCEPT !.step = "matched", !.op = o]]
  /\ overlaps' = overlaps \cup (IF repair # "idle" \/ (\E d \in Calls : Busy(d)) THEN {"calls"} ELSE {})
                        \cup (IF \E d \in Calls : job[d].op = o THEN {"retry"} ELSE {})
  /\ UNCHANGED <<slot, repair, deletion, review, repairs, deletions>>

\* recordManifestPostHypothesis, called on admission and again before creation:
\* a locked row is left as it is, another gets this candidate's content.
ReadHypothesis(c) ==
  /\ job[c].step \in {"matched", "gated"}
  /\ job' = [job EXCEPT ![c].locked = Locked,
                        ![c].step = IF job[c].step = "matched" THEN "noted" ELSE "renoted"]
  /\ UNCHANGED <<slot, Others>>

\* Broken: the content is replaced whatever the status.
NotedAlways(o, locked) ==
  [hyp EXCEPT !.of = o, !.status = IF hyp.status = None THEN "proposed" ELSE hyp.status]
NotedHypothesis(o, locked) ==
  IF locked THEN hyp
  ELSE [hyp EXCEPT !.of = o, !.status = IF hyp.status = None THEN "proposed" ELSE hyp.status]

WriteHypothesis(c) ==
  /\ job[c].step \in {"noted", "renoted"}
  /\ hyp' = NotedHypothesis(job[c].op, job[c].locked)
  /\ job' = [job EXCEPT ![c].locked = FALSE, ![c].step = IF job[c].step = "noted" THEN "admitted" ELSE "ready"]
  /\ UNCHANGED <<posts, lineup, plan, draft, event, Others>>

ReadLineup(c) ==
  /\ job[c].step = "admitted"
  /\ job' = [job EXCEPT ![c].found = lineup.post, ![c].listed = lineup.status = "scheduled",
                        ![c].step = IF lineup.post = NoPost THEN "exact" ELSE "lineup"]
  /\ UNCHANGED <<slot, Others>>

\* Is the lineup's post still a row?  If not, the lineup row is marked stale.
FindListedPost(c) ==
  /\ job[c].step = "lineup"
  /\ Live(job[c].found)
  /\ job' = [job EXCEPT ![c].listed = FALSE, ![c].step = IF job[c].listed THEN "reuse" ELSE "exact"]
  /\ UNCHANGED <<slot, Others>>
MissListedPost(c) ==
  /\ job[c].step = "lineup"
  /\ ~Live(job[c].found)
  /\ lineup' = IF lineup.post = job[c].found
               THEN [lineup EXCEPT !.status = "stale", !.post = NoPost] ELSE lineup
  /\ job' = [job EXCEPT ![c].found = NoPost, ![c].listed = FALSE, ![c].step = "exact"]
  /\ UNCHANGED <<posts, hyp, plan, draft, event, Others>>

\* getScheduledPostPublishLineageStatus and readPersistEvent: the existing post is
\* reused if a draft is linked to it, and returned if this operation persisted it.
Linked(p) == \E o \in Operations : draft[o] = p

ConsiderReuse(c) ==
  LET e == event[job[c].op] IN
  /\ job[c].step = "reuse"
  /\ IF ~Linked(job[c].found) THEN Goto(c, "exact")
     ELSE IF e.type \in {"post_persisted", "post_reused"} /\ e.post = job[c].found THEN End(c)
     ELSE Goto(c, "relink")
  /\ UNCHANGED <<slot, Others>>

\* linkManifestHypothesisResult and the batch's UPDATE: no condition on the row.
\* Broken: a status that a failure or a repair left behind stays.
LinkedHypothesisProposed(p, status) ==
  [hyp EXCEPT !.post = p, !.status = IF hyp.status = "proposed" THEN status ELSE hyp.status]
LinkedHypothesis(p, status) == [hyp EXCEPT !.post = p, !.status = status]

LinkReused(c) ==
  /\ job[c].step = "relink"
  /\ hyp' = LinkedHypothesis(job[c].found, "reused")
  /\ Gets(c, job[c].found, "reused")
  /\ UNCHANGED <<posts, lineup, plan, draft, event, Others>>

-----------------------------------------------------------------------------
(***************************************************************************)
(* persistOperatorManifestCandidate                                        *)
(***************************************************************************)
\* readExactScheduledByKey: the row with this candidate's text, else the lineup's.
FindExact(c) ==
  /\ job[c].step = "exact"
  /\ job' = IF RowsOf(job[c].op) # {}
            THEN [job EXCEPT ![c].found = CHOOSE p \in RowsOf(job[c].op) : TRUE, ![c].step = "gated"]
            ELSE [job EXCEPT ![c].step = IF job[c].found = NoPost THEN "uncovered" ELSE "byid"]
  /\ UNCHANGED <<slot, Others>>

FindById(c) ==
  /\ job[c].step = "byid"
  /\ job' = IF Live(job[c].found) THEN [job EXCEPT ![c].step = "gated"]
            ELSE [job EXCEPT ![c].step = "uncovered", ![c].found = NoPost]
  /\ UNCHANGED <<slot, Others>>

\* d passed the coverage check and has not created its post.
Creating(d) == job[d].step \in {"gated", "renoted", "ready"} /\ job[d].found = NoPost

CheckCoverage(c) ==
  /\ job[c].step = "uncovered"
  /\ IF Covered THEN End(c) ELSE Goto(c, "gated")
  /\ Noticed("coverage", \E d \in Calls : Creating(d) /\ job[d].op # job[c].op)
  /\ UNCHANGED <<slot, repair, deletion, review, counts>>

\* The source card is no longer locked.
LoseSource(c) ==
  /\ job[c].step = "gated"
  /\ hyp' = [hyp EXCEPT !.status = "source_lineage_failed"]
  /\ End(c)
  /\ UNCHANGED <<posts, lineup, plan, draft, event, Others>>

\* createScheduledPostForAppUser: the row of this text if there is one by now.
Create(c) ==
  LET o == job[c].op IN
  /\ job[c].step = "ready"
  /\ \/ /\ job[c].found # NoPost
        /\ Gets(c, job[c].found, "created")
        /\ UNCHANGED posts
     \/ /\ job[c].found = NoPost
        /\ RowsOf(o) # {}
        /\ Gets(c, CHOOSE p \in RowsOf(o) : TRUE, "created")
        /\ UNCHANGED posts
     \/ \E p \in Ids :
        /\ job[c].found = NoPost
        /\ RowsOf(o) = {}
        /\ posts[p].status = "unborn"
        /\ \A q \in Ids : q < p => posts[q].status # "unborn"
        /\ posts' = [posts EXCEPT ![p] = [op |-> o, status |-> "approved"]]
        /\ Gets(c, p, "created")
  /\ UNCHANGED <<lineup, hyp, plan, draft, event, Others>>

\* INSERT ... ON CONFLICT(cycle_id, slot_key) DO UPDATE of the lineup row.
\* Broken: the conflict leaves the status alone.
ListedKeepsStatus(p, o) ==
  [lineup EXCEPT !.post = p, !.op = o, !.status = IF lineup.status = None THEN "scheduled" ELSE lineup.status]
Listed(p, o) == [status |-> "scheduled", post |-> p, op |-> o]

\* persistManifestAutonomousLineageRecords, one batch.
PersistLineage(c) ==
  LET p == job[c].post o == job[c].op IN
  /\ job[c].step = "created"
  /\ draft' = [draft EXCEPT ![o] = p]
  /\ lineup' = Listed(p, o)
  /\ hyp' = LinkedHypothesis(p, "scheduled")
  /\ plan' = [plan EXCEPT !.status = "scheduled"]
  /\ Goto(c, "linked")
  /\ UNCHANGED <<posts, event, Others>>

\* readManifestAutonomousLineageStatus: one query over the lineup row and what it
\* names.  It asks neither for the post itself nor for the lineup's status.
Verify(c) ==
  LET p == job[c].post IN
  /\ job[c].step = "linked"
  /\ Goto(c, IF /\ lineup.post = p
                /\ lineup.op # None /\ draft[lineup.op] = p
                /\ hyp.post = p /\ hyp.status = "scheduled"
                /\ plan.status = "scheduled"
             THEN "verified" ELSE "unverified")
  /\ UNCHANGED <<slot, Others>>

\* linkManifestHypothesisResult with the outcome.
LinkOutcome(c) ==
  /\ job[c].step \in {"verified", "unverified"}
  /\ hyp' = LinkedHypothesis(job[c].post, IF job[c].step = "verified" THEN "scheduled" ELSE "lineage_failed")
  /\ Goto(c, IF job[c].step = "verified" THEN "persisted" ELSE "failed")
  /\ UNCHANGED <<posts, lineup, plan, draft, event, Others>>

\* appendManifestCycleEvent: an event stands; another outcome for it throws.
Append(c) ==
  LET o == job[c].op
      type == IF job[c].step = "reused" THEN "post_reused"
              ELSE IF job[c].step = "persisted" THEN "post_persisted" ELSE "lineage_failed" IN
  /\ job[c].step \in {"reused", "persisted", "failed"}
  /\ event' = IF event[o].type = None
              THEN [event EXCEPT ![o] = [type |-> type, post |-> job[c].post]] ELSE event
  /\ End(c)
  /\ UNCHANGED <<posts, lineup, hyp, plan, draft, Others>>

Crash(c) ==
  /\ Busy(c)
  /\ End(c)
  /\ UNCHANGED <<slot, Others>>

-----------------------------------------------------------------------------
(***************************************************************************)
(* repairMissingPlanItem of the hourly coverage                            *)
(***************************************************************************)
LookForMissing ==
  /\ repair = "idle"
  /\ ~Covered
  /\ repairs < MaxRepairs
  /\ repairs' = repairs + 1
  /\ repair' = "missing"
  /\ Noticed("calls", \E c \in Calls : Busy(c))
  /\ UNCHANGED <<slot, job, deletion, review, submits, deletions>>

\* A planned item whose source is still eligible needs no repair (AbandonRepair);
\* one whose source has a newer version is refreshed.
InspectPlan ==
  /\ repair = "missing"
  /\ repair' \in IF plan.status = "scheduled" THEN {"displacing"} ELSE {"displacing", "refreshing"}
  /\ UNCHANGED <<slot, job, deletion, review, overlaps, counts>>

Displace(s) ==
  /\ repair = "displacing"
  /\ s # plan.source
  /\ plan' = [status |-> "planned", source |-> s]
  /\ lineup' = [lineup EXCEPT !.status = IF lineup.status = None THEN None ELSE "stale", !.post = NoPost]
  /\ hyp' = [hyp EXCEPT !.status = IF hyp.status = None THEN None ELSE "superseded", !.post = NoPost]
  /\ repair' = "idle"
  /\ UNCHANGED <<posts, draft, event, job, deletion, review, overlaps, counts>>

RefreshSource(s) ==
  /\ repair = "refreshing"
  /\ s # plan.source
  /\ plan' = [plan EXCEPT !.source = s]
  /\ repair' = "idle"
  /\ UNCHANGED <<posts, lineup, hyp, draft, event, job, deletion, review, overlaps, counts>>

AbandonRepair ==
  /\ repair # "idle"
  /\ repair' = "idle"
  /\ UNCHANGED <<slot, job, deletion, review, overlaps, counts>>

-----------------------------------------------------------------------------
(***************************************************************************)
(* deleteScheduledPostForAppUser, the audited batch retirement             *)
(***************************************************************************)
CheckDeletable(p) ==
  /\ deletion = NoDeletion
  /\ deletions < MaxDeletions
  /\ deletions' = deletions + 1
  /\ posts[p].status = "approved"
  /\ deletion' = [step |-> "checked", post |-> p]
  /\ UNCHANGED <<slot, job, repair, review, overlaps, submits, repairs>>

Deleted(p) == IF posts[p].status = "approved" THEN [posts EXCEPT ![p].status = "deleted"] ELSE posts
\* Broken: every draft of the slot is unlinked.
UnlinkedSlot(p) == [o \in Operations |-> NoPost]
Unlinked(p) == [o \in Operations |-> IF draft[o] = p THEN NoPost ELSE draft[o]]
Retired(p) == IF lineup.post = p THEN [lineup EXCEPT !.status = "retired"] ELSE lineup

DeletePost ==
  /\ deletion.step = "checked"
  /\ posts' = Deleted(deletion.post)
  /\ deletion' = [deletion EXCEPT !.step = "deleted"]
  /\ Noticed("deletion", posts[deletion.post].status # "approved")
  /\ UNCHANGED <<lineup, hyp, plan, draft, event, job, repair, review, counts>>

UnlinkDrafts ==
  /\ deletion.step = "deleted"
  /\ draft' = Unlinked(deletion.post)
  /\ deletion' = [deletion EXCEPT !.step = "unlinked"]
  /\ UNCHANGED <<posts, lineup, hyp, plan, event, job, repair, review, overlaps, counts>>

RetireLineup ==
  /\ deletion.step = "unlinked"
  /\ lineup' = Retired(deletion.post)
  /\ deletion' = NoDeletion
  /\ UNCHANGED <<posts, hyp, plan, draft, event, job, repair, review, overlaps, counts>>

\* The batch retirement does all three in one batch.
RetireBatch ==
  /\ deletion.step = "checked"
  /\ posts' = Deleted(deletion.post)
  /\ draft' = Unlinked(deletion.post)
  /\ lineup' = Retired(deletion.post)
  /\ deletion' = NoDeletion
  /\ Noticed("deletion", posts[deletion.post].status # "approved")
  /\ UNCHANGED <<hyp, plan, event, job, repair, review, counts>>

AbandonDeletion ==
  /\ deletion # NoDeletion
  /\ deletion' = NoDeletion
  /\ UNCHANGED <<slot, job, repair, review, overlaps, counts>>

-----------------------------------------------------------------------------
\* The publisher claims the row; ScheduledDelivery tells the rest.
Claim(p) ==
  /\ posts[p].status = "approved"
  /\ posts' = [posts EXCEPT ![p].status = "taken"]
  /\ UNCHANGED <<lineup, hyp, plan, draft, event, job, Others>>

\* reviewOperatorManifestScheduledPost with action keep.
CheckReviewable(p) ==
  /\ review = NoPost
  /\ posts[p].status = "approved"
  /\ review' = p
  /\ UNCHANGED <<slot, job, repair, deletion, overlaps, counts>>

Keep ==
  /\ review # NoPost
  /\ lineup' = IF lineup.post = review THEN [lineup EXCEPT !.status = "kept"] ELSE lineup
  /\ review' = NoPost
  /\ UNCHANGED <<posts, hyp, plan, draft, event, job, repair, deletion, overlaps, counts>>

Next ==
  \/ \E c \in Calls :
       \/ \E o \in Operations : Match(c, o)
       \/ ReadHypothesis(c)
       \/ WriteHypothesis(c)
       \/ ReadLineup(c)
       \/ FindListedPost(c)
       \/ MissListedPost(c)
       \/ ConsiderReuse(c)
       \/ LinkReused(c)
       \/ FindExact(c)
       \/ FindById(c)
       \/ CheckCoverage(c)
       \/ LoseSource(c)
       \/ Create(c)
       \/ PersistLineage(c)
       \/ Verify(c)
       \/ LinkOutcome(c)
       \/ Append(c)
       \/ Crash(c)
  \/ LookForMissing
  \/ InspectPlan
  \/ \E s \in Sources : Displace(s) \/ RefreshSource(s)
  \/ AbandonRepair
  \/ \E p \in Ids : CheckDeletable(p) \/ Claim(p) \/ CheckReviewable(p)
  \/ DeletePost
  \/ UnlinkDrafts
  \/ RetireLineup
  \/ RetireBatch
  \/ AbandonDeletion
  \/ Keep

Spec == Init /\ [][Next]_vars

-----------------------------------------------------------------------------
(***************************************************************************)
(* Properties.                                                             *)
(***************************************************************************)
\* The slot never has two posts, through retries, deletions, repairs and the
\* publication of the first, unless two different candidates had both passed the
\* coverage check before either was created.
OnePostPerSlot ==
  "coverage" \notin overlaps => \A p, q \in Ids : Live(p) /\ Live(q) => p = q

Finished(e) == e.type \in {"post_persisted", "post_reused"}

\* A post that an operation reported as persisted or reused keeps a draft that is
\* linked to it, which its publication asks for: neither another candidate's call
\* nor the deletion of another post takes it away.  Left out: an operation
\* submitted again while it is under way, and a deletion overtaken by the publisher.
PersistedStaysLinked ==
  overlaps \cap {"retry", "deletion"} = {} =>
    \A o \in Operations : Finished(event[o]) /\ Live(event[o].post) => Linked(event[o].post)

\* While the lineup row says that a post is scheduled, the slot's hypothesis is
\* locked and is that post's, whatever failed or was retried, deleted, repaired or
\* reviewed before, as long as calls and repairs came one at a time.
LineupAndHypothesisAgree ==
  /\ overlaps \cap {"calls", "deletion"} = {}
  /\ lineup.status = "scheduled" /\ Live(lineup.post)
  => hyp.post = lineup.post /\ Locked

\* A locked hypothesis keeps its content: a retry, another candidate or a reuse
\* does not replace what was predicted for a post that is scheduled.
LockedHypothesisStands ==
  [][Locked /\ Locked' /\ "calls" \notin overlaps => hyp'.of = hyp.of]_vars

\* When an operation is recorded as persisted and its post is still there, the
\* lineage that the record calls complete is in place: the lineup row, the draft,
\* the hypothesis and the plan item all are this post's.
Complete(o, p) ==
  /\ lineup.status \in {"scheduled", "kept"} /\ lineup.post = p /\ lineup.op = o
  /\ draft[o] = p
  /\ hyp.post = p /\ Locked
  /\ plan.status = "scheduled"
PersistedIsComplete ==
  [][\A o \in Operations :
       /\ event[o].type # "post_persisted" /\ event'[o].type = "post_persisted"
       /\ Live(event'[o].post)
       /\ overlaps \cap {"calls", "deletion"} = {}
       => Complete(o, event'[o].post)]_vars
=============================================================================
