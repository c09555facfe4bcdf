-------------------------- MODULE ScheduledDelivery --------------------------
(***************************************************************************)
(* Delivery of scheduled posts by the Lensically worker                    *)
(* (lensically-worker/src/index.ts): the rows of table scheduled_posts,    *)
(* the concurrent executions of processDueScheduledPosts and of the retry  *)
(* routes, the Threads API they publish to, and the operator's edits,      *)
(* deletions and overdue recoveries that run in between.                   *)
(*                                                                         *)
(* A step is one statement (or one atomic batch) on the database, or one   *)
(* half of the call to the Threads API; between two steps of an execution  *)
(* anything else may run, because each of them is an await in the code.    *)
(* Post text and revisions are the subject of another module.              *)
(***************************************************************************)
EXTENDS Naturals, FiniteSets

CONSTANTS
  Posts,            \* row ids of scheduled_posts
  Workers,          \* executions: cron and alarm runs, UI and MCP retries
  LineageRequired,  \* the posts of the account whose lineage is mandatory
  BatchSize,        \* rows one run selects at most
  MaxTime,          \* bound on the clock
  MaxReopened       \* bound on the times recovery reopens one post

ASSUME PostsAssumption == Posts \subseteq Nat \ {0}
ASSUME WorkersAssumption == IsFiniteSet(Workers)
ASSUME LineageAssumption == LineageRequired \subseteq Posts
ASSUME BoundsAssumption ==
  /\ BatchSize \in Nat \ {0}
  /\ MaxTime \in Nat
  /\ MaxReopened \in Nat

VARIABLES
  now,       \* the clock
  row,       \* [Posts -> Row]: the scheduled_posts table
  draft,     \* [Posts -> DraftStatus]: the gpt_generation_drafts row of a post
  deletion,  \* posts with a scheduled_post_deletions record
  removal,   \* [Posts -> RemovalStep]: the deletion in progress, if any
  pc,        \* [Workers -> Step]
  batch,     \* [Workers -> SUBSET Posts]: selected rows not yet looked at
  current,   \* [Workers -> Posts \cup {NoPost}]: the row being processed
  answer,    \* [Workers -> Nat]: the publication the provider call made
  commits,   \* [Posts -> Nat]: publications of the post on Threads
  reopened   \* [Posts -> Nat]: times recovery rescheduled it out of 'posting'

rowVars      == <<now, row>>
removalVars  == <<deletion, removal>>
workerVars   == <<pc, batch, current, answer>>
providerVars == <<commits, reopened>>
vars == <<rowVars, draft, removalVars, workerVars, providerVars>>

NoPost == 0   \* no row is being processed
NoId   == 0   \* published_post_id IS NULL

Times == 0..MaxTime

\* "absent" and "deleted" are ids without a row: ids are never reused.
Statuses == {"absent", "approved", "posting", "posted", "deleted"}
Errors   == {"none", "lineage", "failed", "unknown", "retired"}

\* processing_started_at: NULL, within the stale window, older than it.
Stamps   == {"null", "fresh", "stale"}

Row == [status : Statuses, cancelled : BOOLEAN, time : Times,
        pub : Nat, err : Errors, stamp : Stamps]

DraftStatus == {"none", "linked", "published", "retired"}
\* A single deletion has read the row, or also removed it; a batch retirement
\* has listed the row among those it will remove.
RemovalStep == {"idle", "checked", "removed", "listed"}

\* The steps of an execution that has claimed its row and not let go of it.
Attempting == {"claimed", "sent", "accepted", "rejected", "recording"}
Step == {"idle", "running", "checked"} \cup Attempting

TypeOK ==
  /\ now \in Times
  /\ row \in [Posts -> Row]
  /\ draft \in [Posts -> DraftStatus]
  /\ deletion \subseteq Posts
  /\ removal \in [Posts -> RemovalStep]
  /\ pc \in [Workers -> Step]
  /\ batch \in [Workers -> SUBSET Posts]
  /\ current \in [Workers -> Posts \cup {NoPost}]
  /\ answer \in [Workers -> Nat]
  /\ commits \in [Posts -> Nat]
  /\ reopened \in [Posts -> Nat]

Init ==
  /\ now = 0
  /\ row = [p \in Posts |-> [status |-> "absent", cancelled |-> FALSE, time |-> 0,
                             pub |-> NoId, err |-> "none", stamp |-> "null"]]
  /\ draft = [p \in Posts |-> "none"]
  /\ deletion = {}
  /\ removal = [p \in Posts |-> "idle"]
  /\ pc = [w \in Workers |-> "idle"]
  /\ batch = [w \in Workers |-> {}]
  /\ current = [w \in Workers |-> NoPost]
  /\ answer = [w \in Workers |-> NoId]
  /\ commits = [p \in Posts |-> 0]
  /\ reopened = [p \in Posts |-> 0]

-----------------------------------------------------------------------------
(***************************************************************************)
(* Reading the table.                                                      *)
(***************************************************************************)
Approved(p) == row[p].status = "approved"
Posting(p)  == row[p].status = "posting"
Due(p)      == row[p].time <= now
Exists(p)   == row[p].status \in {"approved", "posting", "posted"}

\* Posts an execution has claimed and not finished with.
InFlight(p) == {w \in Workers : current[w] = p /\ pc[w] \in Attempting}

\* The WHERE clause of getDueApprovedScheduledPosts.
Selectable(p) == Approved(p) /\ ~row[p].cancelled /\ Due(p) /\ row[p].pub = NoId

\* Its ORDER BY scheduled_time, id and LIMIT.
Before(p, q) == row[p].time < row[q].time \/ (row[p].time = row[q].time /\ p < q)
\* Broken: the order is lost in the LIMIT, and the last rows are taken.
LastDue(S, limit) ==
  LET due == {p \in S : Selectable(p)}
  IN  {p \in due : Cardinality({q \in due : Before(p, q)}) < limit}
FirstDue(S, limit) ==
  LET due == {p \in S : Selectable(p)}
  IN  {p \in due : Cardinality({q \in due : Before(q, p)}) < limit}

\* The WHERE clause of the recovery's claim and of listOverdueScheduledPosts.
Overdue(p) ==
  /\ Approved(p) \/ Posting(p)
  /\ ~row[p].cancelled
  /\ Due(p)
  /\ row[p].pub = NoId

\* Broken: the gate is left out.
LineageUnchecked(p) == TRUE

\* getScheduledPostPublishLineageStatus joins through the draft that is linked
\* to the post; unlinking the draft makes the lineage incomplete again.
LineageComplete(p) == p \notin LineageRequired \/ draft[p] \in {"linked", "published"}

-----------------------------------------------------------------------------
(***************************************************************************)
(* Scheduling and editing.                                                 *)
(***************************************************************************)
\* A time in the past is refused when the request is read; the row is written
\* some statements later, by which time may have passed, so any time is possible.
Create(p, t) ==
  /\ row[p].status = "absent"
  /\ row' = [row EXCEPT ![p].status = "approved", ![p].time = t]
  /\ UNCHANGED <<now, draft, removalVars, workerVars, providerVars>>

\* The workflow that generated the post links its draft to the row it created;
\* the autonomous cycle of the lineage account also clears the row's label.
LinkDraft(p) ==
  /\ Exists(p)
  /\ draft[p] = "none"
  /\ draft' = [draft EXCEPT ![p] = "linked"]
  /\ \/ row' = row
     \/ p \in LineageRequired /\ row' = [row EXCEPT ![p].err = "none"]
  /\ UNCHANGED <<now, removalVars, workerVars, providerVars>>

\* The same holds of an edit, which may also write back the time that it read
\* before.  Guarded on the status alone: a retired (cancelled) row is edited too.
Edit(p, t) ==
  /\ Approved(p)
  /\ row' = [row EXCEPT ![p].time = t]
  /\ UNCHANGED <<now, draft, removalVars, workerVars, providerVars>>

(***************************************************************************)
(* Deleting one post: the status is read, then the record is written and   *)
(* the row deleted if it is still approved, then the draft is unlinked     *)
(* whether or not a row went away.                                         *)
(***************************************************************************)
UnlinkDrafts(S) ==
  draft' = [p \in Posts |->
              IF p \in S /\ draft[p] \in {"linked", "published"} THEN "retired" ELSE draft[p]]

\* Broken: the DELETE does not look at the status again.
DropListed(S) ==
  row' = [p \in Posts |->
            IF p \in S THEN [row[p] EXCEPT !.status = "deleted"] ELSE row[p]]
DropApproved(S) ==
  row' = [p \in Posts |->
            IF p \in S /\ Approved(p) THEN [row[p] EXCEPT !.status = "deleted"] ELSE row[p]]

DeleteCheck(p) ==
  /\ removal[p] = "idle"
  /\ Approved(p)
  /\ removal' = [removal EXCEPT ![p] = "checked"]
  /\ UNCHANGED <<rowVars, draft, deletion, workerVars, providerVars>>

DeleteCommit(p) ==
  /\ removal[p] = "checked"
  /\ deletion' = deletion \cup {p}
  /\ DropApproved({p})
  /\ removal' = [removal EXCEPT ![p] = "removed"]
  /\ UNCHANGED <<now, draft, workerVars, providerVars>>

DeleteUnlink(p) ==
  /\ removal[p] = "removed"
  /\ UnlinkDrafts({p})
  /\ removal' = [removal EXCEPT ![p] = "idle"]
  /\ UNCHANGED <<rowVars, deletion, workerVars, providerVars>>

(***************************************************************************)
(* Retiring several posts: ids that already have a deletion record count   *)
(* as replayed; the others must all be approved when they are read, and    *)
(* one batch then writes the records, unlinks the drafts and deletes the   *)
(* rows still approved.  The verification that follows only reports.       *)
(***************************************************************************)
RetireCheck(S) ==
  LET pending == S \ deletion
  IN  /\ pending # {}
      /\ \A p \in pending : removal[p] = "idle" /\ Approved(p)
      /\ \A p \in Posts : removal[p] # "listed"
      /\ removal' = [p \in Posts |-> IF p \in pending THEN "listed" ELSE removal[p]]
      /\ UNCHANGED <<rowVars, draft, deletion, workerVars, providerVars>>

RetireCommit ==
  LET listed == {p \in Posts : removal[p] = "listed"}
  IN  /\ listed # {}
      /\ deletion' = deletion \cup listed
      /\ UnlinkDrafts(listed)
      /\ DropApproved(listed)
      /\ removal' = [p \in Posts |-> IF p \in listed THEN "idle" ELSE removal[p]]
      /\ UNCHANGED <<now, workerVars, providerVars>>

(***************************************************************************)
(* recoverOverdueScheduledPostRows(actions): one batch that claims every   *)
(* listed row and, only if it claimed them all, retires the rows of S \ R  *)
(* and reschedules those of R.  The claim marks are cleared in any case.   *)
(***************************************************************************)
Recover(S, R, t) ==
  /\ S # {} /\ R \subseteq S
  /\ \A p \in S : Overdue(p)
  /\ R # {} => t > now
  /\ \A p \in R : Posting(p) => reopened[p] < MaxReopened
  /\ row' = [p \in Posts |->
       IF p \in R THEN [row[p] EXCEPT !.status = "approved", !.time = t,
                                      !.err = "none", !.stamp = "null"]
       ELSE IF p \in S THEN [row[p] EXCEPT !.cancelled = TRUE,
                                           !.err = "retired", !.stamp = "null"]
       ELSE row[p]]
  /\ reopened' = [p \in Posts |->
       IF p \in R /\ Posting(p) THEN reopened[p] + 1 ELSE reopened[p]]
  /\ UNCHANGED <<now, draft, removalVars, workerVars, commits>>

RecoverRace(S) ==
  /\ \E p \in S : ~Overdue(p)
  /\ row' = [p \in Posts |->
       IF p \in S /\ Overdue(p) THEN [row[p] EXCEPT !.stamp = "null"] ELSE row[p]]
  /\ UNCHANGED <<now, draft, removalVars, workerVars, providerVars>>

-----------------------------------------------------------------------------
(***************************************************************************)
(* An execution.  Run is the beginning of processDueScheduledPosts; Retry  *)
(* is a retry route, which reads its one row instead; the rest is          *)
(* processScheduledPost, once for every row of the batch.                  *)
(***************************************************************************)
Goto(w, step) == pc' = [pc EXCEPT ![w] = step]

\* Let go of the current row; the run looks at the next one of its batch or,
\* after the last, ends.
NextRow(w) ==
  /\ Goto(w, IF batch[w] = {} THEN "idle" ELSE "running")
  /\ current' = [current EXCEPT ![w] = NoPost]
  /\ answer' = [answer EXCEPT ![w] = NoId]

\* Broken: a stale attempt goes back to the queue.
ReclaimStale ==
  row' = [p \in Posts |->
    IF Posting(p) /\ row[p].pub = NoId /\ row[p].stamp # "fresh"
    THEN [row[p] EXCEPT !.status = "approved"] ELSE row[p]]
\* Broken: timestamps compared without normalising their formats, so that only
\* an unstamped row counts as stale.
LabelUnstamped ==
  row' = [p \in Posts |->
    IF Posting(p) /\ row[p].pub = NoId /\ row[p].stamp = "null" /\ row[p].err = "none"
    THEN [row[p] EXCEPT !.err = "unknown"] ELSE row[p]]

\* recoverStalePostingScheduledPosts: unpublished posting rows that are
\* unstamped or past the stale window get a label, and nothing else.
LabelStale ==
  row' = [p \in Posts |->
    IF Posting(p) /\ row[p].pub = NoId /\ row[p].stamp # "fresh" /\ row[p].err = "none"
    THEN [row[p] EXCEPT !.err = "unknown"] ELSE row[p]]

\* Labelling and selecting are two statements, on disjoint rows.
Run(w, allowed, limit) ==
  /\ pc[w] = "idle"
  /\ LabelStale
  /\ batch' = [batch EXCEPT ![w] = FirstDue(allowed, limit)]
  /\ Goto(w, IF FirstDue(allowed, limit) = {} THEN "idle" ELSE "running")
  /\ UNCHANGED <<now, draft, removalVars, current, answer, providerVars>>

\* A normal run selects among all rows; a canary run has one allowed id.
RunNormal(w) == Run(w, Posts, BatchSize)
RunCanary(w) == \E p \in Posts : Run(w, {p}, 1)

\* The routes check the status (the operator's tool also the due time) but
\* neither looks at cancelled_at.
Retry(w, p) ==
  /\ pc[w] = "idle"
  /\ Approved(p)
  /\ batch' = [batch EXCEPT ![w] = {p}]
  /\ Goto(w, "running")
  /\ UNCHANGED <<rowVars, draft, removalVars, current, answer, providerVars>>

\* The rows of a batch are processed one after the other; one whose lineage is
\* incomplete stays approved, with a label.
CheckLineage(w, p) ==
  /\ pc[w] = "running"
  /\ p \in batch[w]
  /\ batch' = [batch EXCEPT ![w] = @ \ {p}]
  /\ \/ /\ LineageComplete(p)
        /\ current' = [current EXCEPT ![w] = p]
        /\ Goto(w, "checked")
        /\ row' = row
     \/ /\ ~LineageComplete(p)
        /\ row' = IF Approved(p) THEN [row EXCEPT ![p].err = "lineage"] ELSE row
        /\ Goto(w, IF batch[w] = {p} THEN "idle" ELSE "running")
        /\ current' = current
  /\ UNCHANGED <<now, draft, removalVars, answer, providerVars>>

\* Broken: a quarantined attempt can be claimed again.
ClaimableAgain(p) == Approved(p) \/ Posting(p)

\* transitionScheduledPostStatus(approved -> posting): a compare-and-set on the
\* status column; everything else the selection looked at may have changed.
Claimable(p) == Approved(p)

Claim(w) ==
  LET p == current[w]
  IN  /\ pc[w] = "checked"
      /\ \/ /\ Claimable(p)
            /\ row' = [row EXCEPT ![p].status = "posting", ![p].err = "none",
                                  ![p].stamp = "fresh"]
            /\ Goto(w, "claimed")
            /\ UNCHANGED <<current, answer>>
         \/ /\ ~Claimable(p)
            /\ NextRow(w)
            /\ row' = row
      /\ UNCHANGED <<now, draft, removalVars, batch, providerVars>>

(***************************************************************************)
(* The provider call.  Threads publishes at some moment of the call (Send);*)
(* the answer comes back later and may be lost or unreadable (Answer with  *)
(* "rejected").  Refuse is every failure before anything was published: no *)
(* connected account, a spoiler error, an HTTP error.                      *)
(***************************************************************************)
Send(w) ==
  LET p == current[w]
  IN  /\ pc[w] = "claimed"
      /\ commits' = [commits EXCEPT ![p] = @ + 1]
      /\ answer' = [answer EXCEPT ![w] = commits[p] + 1]
      /\ Goto(w, "sent")
      /\ UNCHANGED <<rowVars, draft, removalVars, batch, current, reopened>>

\* Broken: an error answer is taken for a publication.
RefuseAsAccepted(w) ==
  /\ pc[w] = "claimed"
  /\ Goto(w, "accepted")
  /\ UNCHANGED <<rowVars, draft, removalVars, batch, current, answer, providerVars>>
Refuse(w) ==
  /\ pc[w] = "claimed"
  /\ Goto(w, "rejected")
  /\ UNCHANGED <<rowVars, draft, removalVars, batch, current, answer, providerVars>>

\* Broken: a lost answer repeats the call.
AnswerRetries(w) ==
  /\ pc[w] = "sent"
  /\ Goto(w, "accepted") \/ Goto(w, "claimed")
  /\ UNCHANGED <<rowVars, draft, removalVars, batch, current, answer, providerVars>>
Answer(w) ==
  /\ pc[w] = "sent"
  /\ Goto(w, "accepted") \/ Goto(w, "rejected")
  /\ UNCHANGED <<rowVars, draft, removalVars, batch, current, answer, providerVars>>

\* Broken: a failed attempt goes back to the queue.
QuarantineToApproved(w) ==
  LET p == current[w]
  IN  /\ pc[w] = "rejected"
      /\ row' = IF Posting(p)
                THEN [row EXCEPT ![p].status = "approved", ![p].err = "failed"] ELSE row
      /\ NextRow(w)
      /\ UNCHANGED <<now, draft, removalVars, batch, providerVars>>

\* quarantineScheduledPostPublishAttempt: the row stays in 'posting'.
Quarantine(w) ==
  LET p == current[w]
  IN  /\ pc[w] = "rejected"
      /\ row' = IF Posting(p) /\ row[p].pub = NoId
                THEN [row EXCEPT ![p].err = "failed",
                                 ![p].stamp = IF @ = "null" THEN "fresh" ELSE @]
                ELSE row
      /\ NextRow(w)
      /\ UNCHANGED <<now, draft, removalVars, batch, providerVars>>

\* finalizeScheduledPostPublished, its read: a row that is gone ends it.
ReadForFinalize(w) ==
  /\ pc[w] = "accepted"
  /\ \/ /\ Exists(current[w])
        /\ Goto(w, "recording")
        /\ UNCHANGED <<current, answer>>
     \/ /\ ~Exists(current[w])
        /\ NextRow(w)
  /\ UNCHANGED <<rowVars, draft, removalVars, batch, providerVars>>

\* Its batch: WHERE id alone, so whatever happened to the status meanwhile.
Finalize(w) ==
  LET p == current[w]
  IN  /\ pc[w] = "recording"
      /\ row' = IF Exists(p)
                THEN [row EXCEPT ![p].status = "posted", ![p].pub = answer[w],
                                 ![p].err = "none", ![p].stamp = "null"]
                ELSE row
      /\ draft' = IF draft[p] = "linked" THEN [draft EXCEPT ![p] = "published"] ELSE draft
      /\ NextRow(w)
      /\ UNCHANGED <<now, removalVars, batch, providerVars>>

\* An exception while recording is logged and the run goes on.
FinalizeException(w) ==
  /\ pc[w] \in {"accepted", "recording"}
  /\ NextRow(w)
  /\ UNCHANGED <<rowVars, draft, removalVars, batch, providerVars>>

\* The isolate is evicted, or a database call outside a try throws: the run
\* and what it still had selected are gone.
Crash(w) ==
  /\ pc[w] # "idle"
  /\ Goto(w, "idle")
  /\ batch' = [batch EXCEPT ![w] = {}]
  /\ current' = [current EXCEPT ![w] = NoPost]
  /\ answer' = [answer EXCEPT ![w] = NoId]
  /\ UNCHANGED <<rowVars, draft, removalVars, providerVars>>

-----------------------------------------------------------------------------
Tick ==
  /\ now < MaxTime
  /\ now' = now + 1
  /\ UNCHANGED <<row, draft, removalVars, workerVars, providerVars>>

\* The stale window passes, even while the attempt is still running.
Age(p) ==
  /\ row[p].stamp = "fresh"
  /\ row' = [row EXCEPT ![p].stamp = "stale"]
  /\ UNCHANGED <<now, draft, removalVars, workerVars, providerVars>>

Operator ==
  \/ \E p \in Posts, t \in Times : Create(p, t)
  \/ \E p \in Posts : LinkDraft(p)
  \/ \E p \in Posts, t \in Times : Edit(p, t)
  \/ \E p \in Posts : DeleteCheck(p)
  \/ \E p \in Posts : DeleteCommit(p)
  \/ \E p \in Posts : DeleteUnlink(p)
  \/ \E S \in SUBSET Posts : RetireCheck(S)
  \/ RetireCommit
  \/ \E S, R \in SUBSET Posts, t \in Times : Recover(S, R, t)
  \/ \E S \in SUBSET Posts : RecoverRace(S)

Work(w) ==
  \/ \E p \in Posts : CheckLineage(w, p)
  \/ Claim(w)
  \/ Send(w)
  \/ Refuse(w)
  \/ Answer(w)
  \/ Quarantine(w)
  \/ ReadForFinalize(w)
  \/ Finalize(w)
  \/ FinalizeException(w)

Next ==
  \/ Operator
  \/ \E w \in Workers : RunNormal(w)
  \/ \E w \in Workers : RunCanary(w)
  \/ \E w \in Workers, p \in Posts : Retry(w, p)
  \/ \E w \in Workers : Work(w)
  \/ \E w \in Workers : Crash(w)
  \/ Tick
  \/ \E p \in Posts : Age(p)

Spec == Init /\ [][Next]_vars

(***************************************************************************)
(* Fairness: the cron trigger and the alarm start normal runs for ever, and *)
(* neither a canary nor operators' retries hold them back (strong fairness  *)
(* of RunNormal); a run takes its next step or is evicted; evictions come   *)
(* at any moment, but not each time at the same one (strong fairness of     *)
(* CheckLineage and Claim); clocks advance.  Nothing is assumed of the      *)
(* operator or of the provider's verdict.                                   *)
(***************************************************************************)
Fairness ==
  /\ SF_vars(\E w \in Workers : RunNormal(w))
  /\ \A w \in Workers : WF_vars(Work(w))
  /\ \A p \in Posts : SF_vars(\E w \in Workers : CheckLineage(w, p))
  /\ SF_vars(\E w \in Workers : Claim(w))
  /\ WF_vars(Tick)
  /\ \A p \in Posts : WF_vars(Age(p))

FairSpec == Spec /\ Fairness

-----------------------------------------------------------------------------
(***************************************************************************)
(* Safety.                                                                 *)
(***************************************************************************)

\* A post appears on Threads at most once for every approval it was given:
\* its scheduling, and each time an operator rescheduled an uncertain attempt.
\* Crashes, lost answers, overlapping runs and retries add nothing to it.
AtMostOncePerApproval == \A p \in Posts : commits[p] <= 1 + reopened[p]

\* Unless an operator reopened it, a published post is in 'posting' or 'posted',
\* where no selection, retry, edit or deletion can reach it: a lost answer or a
\* failed finalization never leaves it approved, and no published row is deleted.
PublishedIsOutOfReach ==
  \A p \in Posts :
    commits[p] > 0 /\ reopened[p] = 0 => row[p].status \in {"posting", "posted"}

\* Unless an operator reopened the post, the claim on the status column is a lock:
\* no two executions are in the middle of publishing it, and while one is, the
\* row says so.
OneAttemptAtATime ==
  \A p \in Posts : reopened[p] = 0 =>
    /\ \A v, w \in InFlight(p) : v = w
    /\ InFlight(p) # {} => row[p].status = "posting"

\* A row that says 'posted' carries the identifier of a publication that really
\* happened, and no other row carries one.
PostedIsPublished ==
  \A p \in Posts :
    IF row[p].status = "posted" THEN row[p].pub \in 1..commits[p] ELSE row[p].pub = NoId

\* No post of the account with mandatory lineage is published while its draft
\* was never linked, by a scheduled run or by a retry.
PublishedHasLineage ==
  \A p \in LineageRequired : commits[p] > 0 => draft[p] # "none"

\* 'posted' is final, and without a reopening so is the identifier recorded.
PostedIsFinal ==
  [][\A p \in Posts : row[p].status = "posted" =>
       /\ row'[p].status = "posted"
       /\ reopened[p] = 0 => row'[p].pub = row[p].pub]_vars

\* The implementation mapping to PublicationPermit: an approved row holds one
\* permit, and so does every execution that has claimed a row and not sent it.
Holding(p) == {w \in Workers : current[w] = p /\ pc[w] = "claimed"}
permitsOf == [p \in Posts |-> (IF Approved(p) THEN 1 ELSE 0) + Cardinality(Holding(p))]
grantedOf ==
  [p \in Posts |-> (IF row[p].status = "absent" THEN 0 ELSE 1) + reopened[p]]

Permit == INSTANCE PublicationPermit
            WITH granted <- grantedOf, permits <- permitsOf, published <- commits

\* Delivery implements PublicationPermit: every publication uses up a permit
\* that an approval granted.
ImplementsPermit == Permit!Spec

\* The implementation mapping to PostRows, the rows that SchedulerControl works
\* with: status, cancellation and due time of a row are one value, and a row is
\* held while an execution that claimed it is in flight.
SeenAs(p) ==
  IF row[p].status \in {"posting", "approved"} /\ row[p].cancelled
  THEN IF Posting(p) THEN "withdrawn" ELSE "retired"
  ELSE IF Approved(p) THEN IF Due(p) THEN "due" ELSE "future"
  ELSE IF row[p].status = "absent" THEN "future"
  ELSE IF row[p].status = "deleted" THEN "gone"
  ELSE row[p].status
rowsOf == [p \in Posts |-> SeenAs(p)]
heldOf == {p \in Posts : InFlight(p) # {}}

Rows == INSTANCE PostRows WITH row <- rowsOf, held <- heldOf

\* Delivery implements PostRows: a row is posted only by an execution that has
\* claimed it, is removed only while it is unclaimed, and comes back from an
\* attempt only by an operator's recovery.  What the scheduler relies on about
\* rows is true of every statement that delivery makes on them.
ImplementsRows == Rows!Spec

\* What the documentation says of recovery: an attempt that is still active is
\* never reclaimed.
ActiveAttemptNotReclaimed ==
  [][\A p \in Posts : Posting(p) /\ row'[p].status = "approved" => InFlight(p) = {}]_vars

(***************************************************************************)
(* Liveness, under FairSpec.                                               *)
(***************************************************************************)
\* The due rows that the batch takes before p, held back by their lineage or not.
Ahead(p) == {q \in Posts : Selectable(q) /\ Before(q, p)}
Ready(p) == Selectable(p) /\ LineageComplete(p) /\ Cardinality(Ahead(p)) < BatchSize

\* A due, approved post with its lineage complete and a place in the batch is
\* eventually attempted (or retired, deleted, moved, displaced), although rows
\* that are held back stand beside it and other rows are claimed and evicted.
\* Without the place nothing is promised: rows held back keep theirs.
DueIsAttempted == \A p \in Posts : Ready(p) ~> ~Ready(p)

\* An attempt that was abandoned (evicted, lost answer, failed recording) does
\* not stay unnoticed: the row ends with a label that asks for reconciliation,
\* or leaves 'posting'.
AbandonedIsLabelled ==
  \A p \in Posts : Posting(p) /\ row[p].err = "none" /\ InFlight(p) = {}
                    ~> ~Posting(p) \/ row[p].err # "none" \/ InFlight(p) # {}
=============================================================================
