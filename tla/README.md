# Lensically: specifications, model checking and proofs

This directory holds TLA+ specifications of Lensically, the private workspace
that schedules and publishes posts to Threads accounts and lets an operator (a
person, or a model through the operator MCP server) run that workspace. The
specifications are translated from the worker's source,
`src/lensically-worker/src/index.ts` (37,943 lines, "index.ts" below) and the
modules it imports. `PROJECT.json` says, for every definition, which lines it
models.

Contents: [system](#1-the-system) · [inventory](#2-inventory) ·
[ScheduledDelivery](#3-scheduleddelivery) · [SchedulerControl](#4-schedulercontrol) ·
[OperationReceipts](#5-operationreceipts) ·
[DecisionAuthorization](#6-decisionauthorization) ·
[PostRevisions](#7-postrevisions) · [ManifestSlot](#8-manifestslot) ·
[HardeningIncidents](#9-hardeningincidents) ·
[runs](#10-runs-and-bounds) · [proofs](#11-proofs) ·
[disagreements](#12-where-the-code-and-its-documents-disagree) ·
[not modelled](#13-what-is-not-modelled) · [plan](#14-plan).

## 1. The system

* **Worker** (`lensically-worker`): one Cloudflare Worker. Requests, the cron
  trigger and the alarm run in isolates that may be evicted between any two
  awaits. Durable state is in D1 (an SQLite database: single statements and
  `DB.batch` are atomic, nothing else is) and in the storage of one Durable
  Object, `ScheduledPostScheduler`.
* **Threads**: the external API that posts are published to. It has no
  idempotency key: a publication whose answer was lost cannot be asked for again.
* **Web** (`lensically-web`), **recovery worker**, **browser extension**,
  **scripts and CI**: clients and tools around the worker.

How the parts meet:

```
 cron trigger ──┐                            ┌── operators: edit, delete, retire,
                ▼                            ▼   recover, retry, pause, canary
   ScheduledPostScheduler ──runs──► processDueScheduledPosts ──► scheduled_posts (D1)
   control, health, alarm                    │  claim, publish, finalize      ▲
        ▲        ▲                           ▼                                │
  alarm ┘        └── /control, /arm     Threads API                     drafts, lineage
                     ▲                                                       ▲
   operator MCP dispatcher: receipt ► authorization ► tool ──────────────────┘
```

## 2. Inventory

| Component | State it keeps | Operations | What is hard | What makes it correct | Module |
|---|---|---|---|---|---|
| Scheduled-post delivery | `scheduled_posts` (status, `processing_started_at`, `published_post_id`, error) | select due rows, check lineage, claim, publish, finalize, quarantine, label stale, recover overdue, retry | overlapping runs, eviction around the publication, lost answers, recovery of a running attempt | at most one publication per approval; what was published is recorded or quarantined, never approved again; due posts are attempted | ScheduledDelivery |
| Threads publish client | none | create containers, publish | the answer is lost after the effect | an uncertain outcome is never reported as "not published" | ScheduledDelivery (Send, Answer, Refuse) |
| Editing and deletion | `scheduled_posts`, `scheduled_post_deletions`, draft links | create, edit, delete, retire in batch | read-then-write against the claim | a claimed row is not edited or deleted | ScheduledDelivery |
| Owner-edit revisions | revision rows, current revision of a post | record, learn | two edits from one revision | the current revision has the row's text; what is credited is what was sent | PostRevisions |
| Scheduler object and cron | control record, health, alarm | `/control`, `/arm`, `/recover-overdue`, executeOnce | a run reads the control once and writes it back; exceptions; evictions | a pause stands; a canary publishes its post only and proves delivery before it resumes; the heartbeat survives | SchedulerControl |
| Approved canary activation | decision rows, control | claim decision, arm | eviction between the two | a decision is executed or can be retried | DecisionAuthorization (the cron run), SchedulerControl (the stored canary) |
| MCP dispatcher, receipts | `operator_operation_receipts` | begin, reclaim, wait, replay, execute, complete, fail | duplicates, leases, eviction, failure after effect | one execution per operation; a durable result is replayed | OperationReceipts |
| Autonomy authorization | `operator_decision_proposals`, budget | begin, complete, mark executed | count then insert, late writes by id alone | the budget is not exceeded; only the owner reopens a decision | DecisionAuthorization |
| Immediate publish | idempotency rows | look up, publish, store | three steps, no claim | at most one publication per key | not modelled |
| Delivery incidents | incident rows | classify, reconcile, resolve | rows move meanwhile | a resolved incident is true of the row | not modelled |
| Hardening incidents | incident rows and their events | open, recur, advance, verify, close in five ways | a row is read, judged and written by id; its event follows in a statement of its own | stages in order, a journal that tells of them, no close without evidence, one open incident per failure class | HardeningIncidents |
| Work ledger | work items | intake, advance | duplicates | one active item per key | not modelled |
| Lifecycle tokens, continuity tokens | token rows | issue, consume, expire | replays | a token is used once | not modelled |
| Manifest autonomous cycle | lineup, plan, hypothesis, event and cycle rows | prepare, admit, persist, repair, review, complete | a call that stops half-way and is repeated; overlapping calls, deletions, repairs | no slot filled twice; the rows of a persisted post agree | ManifestSlot (one slot) |
| Source cards, drafts, gates, review batches | card, draft and batch rows | submit, gate, approve, schedule | mostly sequential | a scheduled draft was approved | only the draft link (`draft` of ScheduledDelivery) |
| Insights, follower refresh, token refresh | caches, tokens | refresh | partial failure of a loop | — | not modelled |
| GitHub ref update and retry | remote ref | update, reconcile | late answers | an update is not applied twice | not modelled |
| Commercial delivery, Stripe | orders, payments | deliver, reconcile | partial failure | — | not modelled |
| Observability, radar, directory, memory | read models | report | — | — | not modelled |
| Web, recovery worker, extension, scripts, CI | — | — | — | — | not modelled |

The hazards that the properties are for, each at its line, are listed in
`PROJECT.json`.

## 3. ScheduledDelivery

**What a step is.** One statement (or one `DB.batch`) on D1, or one half of a
call to Threads. Every await of the code separates two steps, so any other
execution may run there. `Workers` are executions of whatever origin: cron,
alarm, canary, retry routes.

**State.** `row` is `scheduled_posts`: status, the cancellation mark, scheduled
time, `published_post_id`, class of the error text, and `processing_started_at`
abstracted to NULL / within / past the stale window. `draft` is the draft linked
to the post (what the lineage check reads), `deletion` the deletion records,
`removal` the deletion in progress. `pc`, `batch`, `current`, `answer` are the
program counter and locals of an execution. `commits` counts the publications
that really happened on Threads and `reopened` the times that recovery put a
`posting` row back to `approved`. The worker sees neither: an action reads
`commits` only to give a publication its identifier, and `reopened` only for the
bound `MaxReopened`.

**Actions and code.**

| Actions | Code (index.ts) |
|---|---|
| Create, LinkDraft, Edit | createScheduledPostForAppUser, draft link, updateScheduledPostForAppUser |
| DeleteCheck, DeleteCommit, DeleteUnlink | deleteScheduledPostForAppUser: read, batch, unlink |
| RetireCheck, RetireCommit | deleteScheduledPostsForAppUserBatch |
| Recover, RecoverRace | recoverOverdueScheduledPostRows, and its failed claim |
| RunNormal, RunCanary, LabelStale, FirstDue | processDueScheduledPosts: stale labelling and selection |
| Retry | the retry route |
| CheckLineage, Claim, Send, Refuse, Answer, Quarantine | processScheduledPost and the publish client |
| ReadForFinalize, Finalize, FinalizeException | finalizeScheduledPostPublished |
| Crash | eviction of the isolate, at any step |

Create and Edit are one step each, the write. The code refuses a time in the past when
it reads the request, and an edit without a time writes back the one it read; both
happen some statements before the write, so the actions take any time: by then it may
have passed, or another edit may have replaced it. Recover does ask for a future time,
as if the clock stood still between its check and its batch.

`PublicationPermit` is the abstract specification: a publication uses up a permit
that an approval granted; permits may be withdrawn or lost. ScheduledDelivery
implements it: an approved row holds a permit, and so does an execution that has
claimed a row and not yet sent it (`permitsOf`, `grantedOf`).

`PostRows` is the other one: the rows as scheduler and delivery share them, with no
clock, no statements and no executions. A row is future, due, retired, posting,
withdrawn, posted or gone, and held while an execution that claimed it has not let go.
ScheduledDelivery implements it (`rowsOf`, `heldOf`): status, cancellation mark and due
time are one value, and a post in flight is held. So does SchedulerControl, whose own
`row` it is; this joins the two modules: every statement that delivery makes on a row is
a step that the scheduler's rows may take, and what the scheduler counts on (only what is
claimed is posted, posted and retired rows stay out of the queue) delivery keeps.

**Properties.** `AtMostOncePerApproval`, `PublishedIsOutOfReach`,
`OneAttemptAtATime`, `PostedIsPublished`, `PublishedHasLineage`, `PostedIsFinal`,
`ImplementsPermit`, `ImplementsRows`, and under fairness `DueIsAttempted` and `AbandonedIsLabelled`.
`DueIsAttempted` promises an attempt to a row that has its lineage and a place in the
batch: fewer than `BatchSize` due rows come before it in `ORDER BY scheduled_time, id`.
It says nothing of a row without such a place, and cannot: the selection takes rows held
back by their lineage like any others and leaves them approved, so when as many of them
as the batch takes stand at its head, the rows behind them wait until an operator acts.
Those that say "unless reopened" do so because the code really gives them up when
an operator's recovery reschedules an attempt that is still running
([section 12](#12-where-the-code-and-its-documents-disagree)).

**Fairness.** The cron trigger and the alarm start normal runs for ever, and
canaries and retries do not hold them back (strong fairness of RunNormal: the
scheduler starts one whenever the previous one is over). A run takes its next
step (weak fairness of each execution's work; a crash ends the run and satisfies
it too). Evictions may strike at any moment and for ever, but not each time at the
lineage check of the same post, nor always at the claim (strong fairness of CheckLineage
and Claim). Nothing is assumed of operators, nor of the verdict of Threads.

## 4. SchedulerControl

The scheduler object: its control record, the runs that read it once and may write
it back, and the operators. The storage operations of a Durable Object admit no
other event, so a sequence of them is one step; between two statements on D1
anything may come, except during a normal activation, which
`blockConcurrencyWhile` protects from the other events of the object (and not from
D1). What a run does to a row is reduced to claim and settle; the details are in
ScheduledDelivery.

**State.** `control` (mode, allowed ids, whether the reason's text is one of the
temporary ones, the mode to resume, and whether the temporary pause is past its
five minutes); `alarm`; `activation`, the progress of a normal activation; `row`,
what the scheduler sees of a row (as in `PostRows`); `retrying`, rows a retry route has claimed;
per run `step`, `seen` (the control it works with), `batch` and `current`. The
runs are one of the alarm (the platform does not overlap alarms) and those of
`CronRuns`.

| Actions | Code (index.ts) |
|---|---|
| Pause, ArmCanary | `POST /control`, setControl, the resume mode |
| ActivationCheck, ActivationRecheck, ActivateNormal | `POST /control` with mode normal |
| Arm, RecoverOverdue | `POST /arm`, `POST /recover-overdue` |
| Trigger, CheckOverdue, Select, Attempt, Settle, Inspect, Conclude, Finish, Fail | executeOnce, alarm() with its finally block, `/execute` |
| ComeDue, Reschedule, Remove, RetryClaim, RetrySettle | clock, edits, deletions, retry route |
| Age, Evict | the age of a temporary pause, reset of the object |

**Properties.**
* `AttemptsAuthorized`: a run holds no row that the control it read does not
  authorize (an empty list of ids would be no filter at all).
* `EmergencyPauseStands`: from the moment an emergency pause is stored and the runs
  that read something else are over, no run publishes and no run changes the
  control. Before that moment it is not true: a run under a canary writes the
  canary's outcome over a pause ordered meanwhile.
* `ResumeProvesDelivery`: a canary resumes normal delivery only when its row is posted.
* `AlarmSurvives`: exceptions and evictions do not lose the heartbeat.
* `TemporaryPauseEnds`, `CanaryEnds` (liveness).

**Fairness.** The alarm and the cron fire for ever; the steps of a run are strongly
fair, because evictions and exceptions do not always strike at the same step; an
activation that began ends. No fairness for operators or for the settling of a
claimed row beyond that a run goes on.

## 5. OperationReceipts

One idempotency key of the operator MCP server and the calls that resolve to it:
repetitions after an interruption, duplicates, calls with other arguments
(`Prints`, the request fingerprints). A step is one statement, the tool's effect,
or a decision taken right after a read. The lease is two Booleans: the receipt was
created, and was last updated, longer ago than the lease; the code uses the latter
to reclaim and the former to decide whether to wait. Timestamps count seconds, so a
reclaiming call may miss a write of the same second (`touched`).

| Actions | Code |
|---|---|
| Call, Begin, Reclaim, Insert | beginOperatorOperationReceipt (index.ts) |
| Look (Decide), Wait | dispatchOperatorMcpToolCall, before the execution |
| Act, Complete, FailReceipt | its authorization and execution; the outcome |
| Crash, Lapse | eviction, time |

**Properties.**
* `ExclusiveWithinLease`: within the first lease, and as long as no attempt has
  failed, at most one call executes or has executed. After the first lease the code
  does not keep this: the age that lets a call pass is counted from the creation.
* `SettledIsFinal`: a completed receipt under which no call is executing stays
  completed and the operation has no further effect, whatever calls were on their
  way to insert or reclaim it.
* `ExecutesWhatItRecords`: a call that executes has the arguments the receipt was
  created for.

No fairness and no liveness here: a call may be abandoned at any point, and the
lease, not a promise of progress, is the code's answer.

## 6. DecisionAuthorization

The owner approves a decision; protected tools run under it within a budget of
executions per tool; the cron arms the canaries of approved decisions by itself.
`decision` is the status of each row of `operator_decision_proposals`, `calls`,
`activations`, `failures` and `stuck` are the execution events (counted, by who
inserted them and how they ended), `pc`, `todo`, `at`, `tool` the progress of each
caller. A caller is in a *window* of a decision between the read that lets it use
the decision and the insert of its event; `contested` remembers the decisions that
two callers had in a window at once. `older` is the order of `approved_at` among the
approved rows: a new approval goes to the back (two approvals within one second, which
the code orders by creation, are taken in the order of their writes).

| Actions | Code (index.ts unless noted) |
|---|---|
| Propose, Supersede | proposeOperatorDecision |
| ResolveCheck, ResolveWrite (StampApproval) | resolveOperatorDecision: reads the status, writes by id alone |
| MarkCheck, MarkCount, MarkWrite | markOperatorDecisionExecuted |
| Ratify, List, Consider, Refuse, NoteCall, MarkExecuting | beginOperatorAutonomyAuthorization |
| Perform, CountStarted, Close | the tool (operatorMcpToolCallDispatcher.ts), completeOperatorAutonomyAuthorization |
| CronList (OldestApproved), CronConsider, CronNothing, CronMark, NoteActivation, Arm, RecordArmed, RecordRefused, CronClose | activateNextApprovedScheduledPostCanary |
| DropPost, Crash | the post of a canary decision goes; eviction |

**Properties.** `BudgetKept` and `ActivationsApproved` hold of every decision that is
not contested; for a contested one the code has no guard, because the count and the
insert are two statements. `ReopenedByOwner`: the many late writes by id alone
(closing, cron outcomes, resolutions) never make a decision that does not authorize
authorize again. `ApprovedCanaryActivated` is liveness: an approved canary is activated if
it is among the `ListLimit` oldest approved decisions (10 in the code). The cron reads no
more than those, and those it passes over (no canary tool, post gone or published, budget
spent) stay on the list, so ten of them hide an eligible one for as long as they are
approved; the property claims nothing of it. That one which the list holds is never
pushed out of it is proved (`NobodyGetsAhead`).

A caller considers the rows of its list in any order, the code in the order of approval:
the model has more behaviours.

**Fairness.** Runs of the cron start and go on for ever (weak fairness of the steps
of each); an eviction may end any run, but not every one at the same decision
(strong fairness of CronConsider and CronMark). Calls and owners owe nothing.

A database statement that throws after the canary was armed (the catch branch then
records a failure for a canary that is stored) is left out.

## 7. PostRevisions

One post, its text and the history of its revisions. An edit reads row, lineage and
history in three statements and writes row, revisions and draft in one batch; the
publication sends the text its selection read, and finalization credits it to the
revision the row has by then. `overlaps` remembers the windows that were hit: an
edit that wrote over something it had not read, an edit that committed between
selection and claim, a recovery of a running attempt.

| Actions | Code |
|---|---|
| EditRead, EditCommit | updateScheduledPostForAppUser (index.ts) |
| Trace, Plan, Stored | loadRevisionLineage, prepareScheduledPostRevisionPlan, revisionInsertStatement (operatorOwnerEditLearningService.ts) |
| Select, Claim, Send | getDueApprovedScheduledPosts, transitionScheduledPostStatus, processScheduledPost |
| FinalizeRead, EnsurePlan, EnsureCommit, Finalize | finalizeScheduledPostPublished, ensureScheduledPostCurrentRevision |
| Recover, Crash | recoverOverdueScheduledPostRows; eviction, refusal |

**Properties.** `CurrentIsRecorded`: the revision a row points at exists and has its
text. `CreditedIsSentOutsideWindows`: the text a posted row is credited with is the
one Threads got. `CreditStands`: an edit refused because the row was taken has
already rewritten the draft and perhaps added a revision; that changes no credit.
Each names the windows in which the code does not keep it; `CreditedIsSent`, without
them, is refuted in `revisions_credited`.

## 8. ManifestSlot

One slot of a locked Manifest cycle and the candidates submitted for it. Persisting a
candidate touches six tables in a dozen statements, and an operation that stopped
half-way is submitted again: what the call finds then is what these actions are about.
An operation is an operation id with its candidate; its post is identified by the
candidate's text (the idempotency key of `scheduled_posts`), its draft and its event by
the operation id, while lineup, hypothesis and plan item have one row per slot.

| Actions | Code |
|---|---|
| Match, ReadLineup, FindListedPost, MissListedPost, ConsiderReuse, LinkReused | admitOperatorManifestPersistence (operatorManifestPersistenceAdmissionService.ts) |
| ReadHypothesis, WriteHypothesis, LinkedHypothesis, Append | recordManifestPostHypothesis, linkManifestHypothesisResult, appendManifestCycleEvent (manifestIntelligence.ts) |
| FindExact, FindById, CheckCoverage, LoseSource, Create, LinkOutcome | persistOperatorManifestCandidate (operatorManifestPersistenceService.ts) |
| PersistLineage, Verify | persistManifestAutonomousLineageRecords, readManifestAutonomousLineageStatus (index.ts) |
| LookForMissing, InspectPlan, Displace, RefreshSource, AbandonRepair | the hourly coverage (operatorHourlyCoverageService.ts) and its repairMissingPlanItem (index.ts) |
| CheckDeletable, DeletePost, UnlinkDrafts, RetireLineup, RetireBatch, AbandonDeletion | deleteScheduledPostForAppUser, deleteScheduledPostsForAppUserBatch |
| CheckReviewable, Keep | reviewOperatorManifestScheduledPost with action keep |
| Claim, Crash | the publisher's claim; eviction, or refusal by a gate |

A gate (duplicate text, repetition, content) that refuses a candidate ends the call
where it stands and writes nothing the properties speak of, so refusals are Crash. An
event that conflicts with a stored one throws: the call ends there (Append).

**Properties.** `OnePostPerSlot`, unless two different candidates had both passed the
coverage check before either was created (nothing in the code keeps those apart).
`PersistedStaysLinked`: the draft that publication asks for is still linked, except
when two calls of one operation overlap or a claim overtook a deletion.
`LineupAndHypothesisAgree`, `LockedHypothesisStands` and `PersistedIsComplete` relate
the rows of the slot while calls and repairs come one at a time; with two at once the
unconditional updates of the hypothesis break all three, so that is stated as their
condition and kept in `overlaps`.

## 9. HardeningIncidents

Every failure of an operator call opens an incident, or is filed under one that is
open. An incident passes twelve stages (`HARDENING_STATE_ORDER`), each asking for more
evidence, and from `prevention_locked` on for a promoted prevention rule. Besides this
lifecycle, four other pieces of code close incidents by statements of their own.

A step is one statement or one batch. `incident` is the row (the failure it is about,
its severity, its stage, which evidence is filled in, its rule, and the incident that a
blocked call was about); `journal` the transitions in
`operator_hardening_incident_events`; `job` what a call has read and is about to write.
Two variables are history: `unseen` says which incidents a recorder could not have
found, because their first event was written after it looked; `lost` of which incidents
an eviction took an event. What a failure is called is abstract: two failures may have a
signature, a route or a request in common, which is all the queries ask.

| Actions | Code (index.ts unless noted) |
|---|---|
| Fail, LookFamily, Collide, Insert, NoteDetected | recordHardeningIncident |
| Succeed, CloseReplayed | closeResolvedHardeningIncidentsForRequest |
| ReadForAdvance, WriteState, NoteAdvance | advanceHardeningIncident |
| Required, Proven | validateHardeningTransition (mandatoryExecutionMap.ts) |
| ListClient, FindAnchor, FindTargets, CloseReconciled | reconcileSatisfiedClientPredispatchHardeningIncidents, at every status call |
| Sweep, SweepOne | closeExactRuntimeResumedHardeningIncidents, at every cron trigger |
| CleanUp | ensureOperatorMcpAdminTables, at the first call of an isolate |
| Crash | eviction, or a statement that fails |

**Properties.**
* `JournalNotAhead`, `JournalComplete`: the journal tells of no stage that was not
  reached, and of every stage that was. Neither is obvious, as the event follows the
  row in a second statement and is written even if the `UPDATE` matched nothing. They
  hold because two calls that advance one incident write the same transition. A
  reconciliation that an advance overtook does leave the event of a closing that did
  not happen, hence the exception for client failures.
* `ClosedIsProven`: what the lifecycle or a reconciliation closed has all its evidence
  and a promoted rule, although the evidence was judged before the write.
* `MovesForward`: nothing reopens a closed incident or overwrites what it was closed with.
* `OneOpenPerRoute`: two open incidents of one failure class are possible only if neither
  recorder could have seen the other's, and the unique index keeps their signatures apart.
* `ReconciledHasGround`: what a reconciliation closed rests on another incident that is
  still closed, read one statement earlier.
* `ResumedIsClosed` (liveness): the cron closes blocking incidents that have resumed.

**Fairness.** Weak fairness of the steps of each cron run: the trigger recurs and a run
that is not evicted goes on. Evictions are bounded by `MaxCrashes`. Calls and operators
owe nothing.

## 10. Runs and bounds

| Run | Instance | Shows |
|---|---|---|
| `delivery` | 2 executions over 1 post, 2 reopenings; or 1 execution over 2 posts, batches of 1; clock 0..1, under fairness (144k states) | the safety of delivery and its refinement of `PublicationPermit` and of `PostRows`, with crashes, lost answers, edits and reclaims; that a post with a place in the batch is attempted and an abandoned attempt labelled |
| `delivery_reclaim` | 1 post, 2 executions | a violation: section 12 |
| `scheduler_overlap` | an alarm and a cron run over 1 post; or alarm runs over 2 posts (1.5M) | the control of publication under overlapping runs, operators and evictions |
| `scheduler_promises` | 1 post, alarm runs, under fairness (18k) | what the scheduler promises to happen in the end |
| `receipts` | 3 calls, 2 fingerprints, symmetry (522k) | when an operation is executed again and what its receipt says |
| `receipts_replay` | 3 calls, 2 fingerprints | a violation: section 12 |
| `decisions` | a decision with a budget of one canary, 2 calls, 1 owner, 1 cron run, 2 approvals; or that decision beside one of no use to the cron, a list of 1, under fairness (520k) | how often a decision is spent, who reopens it, and that a canary the cron looks at is activated in the end |
| `revisions` | 2 texts, 2 editors, 1 publisher, 3 ids, symmetry (1.9M) | the chain of revisions and what is recorded of an edit |
| `revisions_credited` | 2 texts, 1 editor, 4 ids | a violation: section 12 |
| `manifest_slot` | 3 candidates (2 of one plan item, 1 of the source that displaces it), 2 calls, 2 posts, 1 repair, 1 deletion, symmetry (2.5M) | one post per slot, and that the rows about the slot agree |
| `hardening_recurrence` | from the empty table: 3 incidents, 2 failures of one route, 2 calls, 1 eviction, symmetry (111k) | when two incidents of one class are open |
| `hardening_late` | 2 live-verified incidents, 1 operator, 1 call, 1 cron run, 1 eviction, under fairness (305k) | the evidence, the ground and the journal of a closing, and that resumed work is closed in the end |

Three runs are of two scenes each, over one set of constants: the MC module conjoins
`Scene` to the next-state relation (`ScenesSpec`), so that a second post or decision is
there only while fewer callers are at work. The steps that fairness asks for remain
possible in each scene (in the second one of `delivery`, normal runs are `w1`'s).

* `delivery`: until the second row is created, two executions meet at the first. After
  that `w1` works alone (`Competing`), nothing is deleted, reopened or retired, and the
  second post needs no lineage; what remains is what decides whom the batch takes: due
  times, edits, the lineage of the first, claims, refusals and evictions.
* `scheduler_overlap`: the second row lies in the future and no control, run or retry
  names it (`Alone`), or the cron is idle.
* `decisions`: the second decision is absent (`Racing`; the owner has no answer half-way
  while both calls are under way), or no call has used the first (`Listed`).

Why the bounds are enough to be interesting. Most delivery properties concern one
post each, and executions meet only at a row (two executions race, a third adds no new
pair; two reopenings let one attempt outlive two recoveries). Posts meet only in a
batch: two posts and a batch of one let a row that is held back stand before or behind
one that is ready. The clock has two values: before and at the scheduled
time. In the scheduler two runs are what may overlap with an operator's order, and two
posts let a canary run take the wrong one; with
three calls a receipt can be held, reclaimed and begun again at once. For decisions,
two calls and a cron run are the three kinds of caller that share a window, two
approvals let a decision come back after it was spent, and a list of one with two
decisions is the smallest in which one hides the other. For revisions, two editors
overlap with each other and with the publication, and three ids are the baseline, the
text an owner had already changed and a new one. In a slot two calls and three
candidates give every pair (one operation twice, two of one plan item, two of
different sources), one deletion and one repair empty and refill it, and the second
post is the one that must not be there. For hardening incidents, two related failures
and three rows let an incident open, close and come back while another of its class is
recorded. Stages, evidence and reconciliation concern incidents that have come far, so
`hardening_late` starts (`LateFairSpec`) from rows that earlier calls took to their live
verification; an operator, a replay and the cron are the three kinds of caller that may
close a row under another. The proofs are about `Spec`, from the empty table and through
every stage. `BatchSize` is 1 where the code has 5, so that a sweep leaves something
behind.

Symmetry is used in `receipts`, `revisions`, `manifest_slot` and
`hardening_recurrence` (safety and action properties over interchangeable calls,
editors, texts, incidents, or the two candidates of one plan item); in no run that checks
liveness. Deadlock checking
is off where the modelled executions may all be done; the scheduler never stops. Most
safety properties are also proved for all values of the constants (section 11), so the
bounds matter to the others.

## 11. Proofs

The type invariants are proved for every module; the runs check those of PostRevisions
and ManifestSlot, which also hold a uniqueness that the tables enforce.
The theorems are proved by TLAPS for every set of posts, executions, runs, calls,
fingerprints, decisions, editors, texts, candidates, incidents and failures.

**`ScheduledDelivery_proofs`**, from the assumptions that posts are positive ids,
executions are finitely many and the bounds are naturals:
* `TypeCorrect`: `TypeInv`, which adds to `TypeOK` that an execution that holds a
  row knows which.
* `LockHolds`: `OneAttemptAtATime` and `PublishedIsOutOfReach` are inductive only
  together (`LockInv`): the claim that takes a row out of `approved` is the only one
  because nobody attempts an approved row and nothing of it was published, and the
  publication stays out of reach because its execution holds the claim. The steps of
  operators and of executions are summed up in two lemmas (`OperatorEffect`,
  `WorkerEffect`) that say which status changes a step can make.
  `PublishedStaysOutOfReach` follows from the same invariant.
* `PostedStaysFinal`, `PostedIsTrue`: `PostedInv` adds that the answer an execution
  carries is the number of a publication of its own row.
* `DeliveryImplementsPermit`: initial states map to initial states and every step
  maps to a permit step or a stutter. Counting the holders of a permit needs
  `Workers` to be finite.
* `DeliveryImplementsRows`: most statements leave status, time and cancellation of every
  row alone (`StillSteps`, `WorkerStill`) and at most let go of a row; each of the others
  (create, edit, delete, recover, claim, finalize, tick) is one action of `PostRows`. The
  mapping shows an id without a row as a future one, so no such id may be cancelled
  (`Uncancelled`, invariant as well). `RetiredStaysOut` follows on the abstract side: a row
  that a recovery retired never gets back into the queue, although the guard of an edit
  looks at the status alone and a retired row is still approved. So does `PostedByItsHolder`.
* `PublishedIsLinked`: `LineageInv` adds that what an execution holds it found
  linked; a draft once linked is retired, never forgotten (`DraftRemembered`).
* `PublishedAtMostOncePerApproval`: the budget (published + permits <= granted) is
  invariant under the permit steps; the refinement carries it to delivery.

**`SchedulerControl_proofs`**: `Inv` says what a run may hold at each of its steps:
nothing before it selected, nothing its control does not authorize, a canary's post
that is posted if it is about to resume; and that a stored canary names a post and a
mode (`Complete`). From it `RunsAreAuthorized`, `PauseStands`, `ResumeIsEarned`,
`HeartbeatSurvives`. The strengthening is needed because `EmergencyPauseStands` and
`ResumeProvesDelivery` speak of steps: a run in its last steps must not hold rows
that its control forbids. `SchedulerImplementsRows` needs that a run processes one row
at a time (`OneRowEach`): a run that settles lets go of that row and no other.

**`OperationReceipts_proofs`**: `Inv` says what a call knows of the receipt at each
step (`Knows`: whoever waits for, holds or reclaims the receipt has its arguments; a
reclaiming call has read "started" or "failed", and the receipt has failed or outlived
its first lease), that a free key has no calls past its insertion, and that the
first lease has one holder. From it `ExecutesRecorded`, `FirstLeaseIsExclusive`,
`SettledStaysFinal`.

**`DecisionAuthorization_proofs`**, from the assumptions that a budget is a number for
each tool and that calls and cron runs are different: `Inv` adds to the types that a
caller past its list knows its decision (`Held`), that nothing refers to a decision not
yet proposed (`Unborn`), that a call in a window still has a unit to spend
(`Spending`), and that behind every approved decision and every cron run about to
activate one stands an approval not used yet, one for each if there are both
(`Activating`). The last part is what makes `ActivationsApproved` inductive: a
decision approved again while a run is about to mark it needs two.
`OnlyTheOwnerReopens` needs `Held` and `Unborn`, for a late write to a decision.
Of the list of the cron: any two approved decisions are ordered (`ApprovalsAreOrdered`),
and none gets another one before it but by its own approval (`NobodyGetsAhead`); both
follow from what a step may do to the order (`OnlyAnApprovalStamps`).

**`PostRevisions_proofs`**: `Inv` says what a job's plan contains at each step
(`JobsInv`), that revision ids are fresh (`IdsInv`: those stored, those planned and
those of different jobs are apart), that outside the windows the row's revision is
recorded and the publisher's result is it (`RowInv`, `PublisherInv`), and that
what was sent is the row's text from the claim on (`SentInv`). From it
`RevisionsAreTyped`, `CurrentStaysRecorded`, `CreditedWasSent`, `CreditIsFinal`.

**`ManifestSlot_proofs`**: `SlotTypeCorrect` holds the uniqueness of the idempotency key
as well. `SlotHasOnePost` needs `Alone`: while the window was not hit, a call past the
coverage check and any live post of the slot, or two such calls, are of the same
operation; then the second creation finds the first one's row by its key.
`LockedHypothesisKept` needs `OneAtATime`: no call has read the lock while another
call or a repair is under way. The other three:
* `PersistedPostStaysLinked`, as long as no operation was submitted again while under way
  and no deletion was overtaken by the publisher (`InOrder`): `LinkInv`. A live post is *at home* if the draft of the candidate it was
  created for is linked to it, and *settled* if it is at home or no longer live. Nobody but
  a call of that candidate writes that draft, and such a call finds this very post, because
  its row exists and the key is unique; so a settled post stays settled (`SettledStep`).
  Whatever names a post names a settled one: the lineup row, the finished event of an
  operation, and every call that is past its creation (`Linkage`). Three side conditions
  make it inductive: an operation has one call (`Apart`), the post of a deletion past its
  DELETE is deleted (`DeletionRight`), and what a call is about to persist is settled or
  the only live row of its candidate (`Fitting`, in `Carries`).
* `LineupAndHypothesisStayAgreed`, as long as calls and repairs came one at a time
  (`Quiet`): `AgreeInv` adds to `LinkInv` and the lock what a single call knows at each
  step (`Stands`): the lineup row it read is still the lineup row; a call that got to the
  source check or the creation met no scheduled live post, because such a post is linked
  (from `LinkInv`) and would have been reused; and once lineage is persisted, lineup, draft,
  hypothesis and plan item are the post's, up to the event. Both invariants were checked
  on the instance of `manifest_slot` before they were proved.
* `PersistedRecordsAreComplete`: the event that says so is written by the one step that
  has looked (`AppendIsComplete`).

**`HardeningIncidents_proofs`**, from the assumptions on the constants (the convergence
rule is promoted, the provider's failures are client failures, cron runs are not calls):
`TypeInv` adds to `TypeOK` what a caller knows at each step (`Knows`): the incident it
works on exists, is at or past the stage it read, and past it once the row was written;
what it is about to write is proven for the next stage. What a step may do to rows,
journal and jobs is summed up in effect lemmas (`RowsStep`, `JobsStep`, `EventsStep`),
and the rest is invariant relative to that:
* `RowsProven`: an open row, or one closed by its lifecycle, has what its stage asks for;
* `Truthful`: an incident with an event has a row, and the event is not ahead of it;
* `Traced`: a stage without its event has a caller about to write that event, or an
  eviction took one of the incident's;
* `Separate`: two open incidents have different signatures and, if of one class, one
  could not have been found; whoever is about to insert has seen only closed ones;
* `Grounds`: what a reconciliation is about to close still has its ground.

From these, for every behaviour from the empty table: `IncidentsAreTyped`,
`IncidentsMoveForward`, `ClosedIsProvenAlways`, `JournalIsNotAhead`,
`JournalIsComplete`, `OneIsOpenPerRoute`, `ReconciledIsGrounded`.

**Only model-checked**: the six liveness properties (`DueIsAttempted`,
`AbandonedIsLabelled`, `TemporaryPauseEnds`, `CanaryEnds`, `ApprovedCanaryActivated`,
`ResumedIsClosed`: reasoning about fairness needs ENABLED, which is out of the prover's
reach), and the violations, which are counterexamples. Every invariant and every action
property that a passing run checks is a theorem.

## 12. Where the code and its documents disagree

* `ActiveAttemptNotReclaimed` (`delivery_reclaim`). `CURRENT_STATE.md:101` says active
  attempts are not reclaimed. The recovery batch takes every overdue unpublished row,
  `posting` ones included, whenever it was claimed.
* `DurableResultIsReplayed` (`receipts_replay`). `CURRENT_STATE.md:92` says that an
  interrupted operation replays its durable result. Completion and failure are
  written by key alone: a slow first executor that fails after its receipt was
  reclaimed and completed turns it to failed, and the next call executes again.
* `CreditedIsSent` (`revisions_credited`). The rule handed out with every source card
  (`index.ts:2143`) says that the exact published revision is the only text credited.
  An edit that commits between the selection and the claim is credited although
  Threads got the old text.

Not runs, but worth knowing:

* Once a review has set the lineup row to `owner_kept`, the row no longer counts as
  scheduled for the admission. The next candidate submitted for the slot falls back to
  the lineup's post, skips the coverage check and is reported as persisted, with
  complete lineage, although the post has the text of the first candidate
  (`operatorManifestPersistenceService.ts:325-337`). No second post comes of it.
* Once an operation has recorded `lineage_failed`, its event stands: a later attempt of
  the same operation that succeeds throws at the event, after its rows are in place.
* The tool description (`operatorMcpAdminRegistry.ts:190`) says that a canary returns to
  paused after its attempt. The code resumes normal delivery if the canary replaced
  normal or temporarily paused delivery (`ResumeOf` of SchedulerControl).
* `CURRENT_STATE.md:23` says that preventable incidents cannot close before promotion
  and enforcement. A success of the same request closes every open incident of it,
  whatever its stage and without a rule (`index.ts:18668`, CloseReplayed).
* The reconciliation gives as the cause of its closings (`index.ts:19073`) that the
  prevention of the provider's handling is durably closed and proven. But what it closes
  because a target is closed gets the same rule and the proof of the release, which is
  all that the next reconciliation asks of the incident it takes for that prevention
  (`IsAnchor`).
* Two lists are cut off before it is known which of their rows are of use, and what is of
  no use stays on them: the due posts (`index.ts:3067-3075`), of which those without lineage
  may fill every batch, and the approved decisions (`index.ts:37710-37715`), of which ten
  without a canary to activate hide every later one. `DueIsAttempted` and
  `ApprovedCanaryActivated` are stated for what is within the limit.

## 13. What is not modelled

Text generation, scoring, measurement and reporting have no protocol to check; they
are most of the repository's lines. Authentication, OAuth redirects, pages of the web
interface, the browser extension, scripts and CI are outside the running core. Within
the modelled parts:

* delivery: media containers and spoilers of the publish client; immediate publish
  (look up the key, publish, store, with no claim: a repeated request while the first
  is under way publishes twice, and the code has nothing that a property could rest on);
* scheduler: the health record and the log events, the time limit of
  `blockConcurrencyWhile`, the in-memory control that the worker answers with when the
  object is unreachable, the maintenance jobs of the cron trigger;
* receipts: routing, policies and tokens of the dispatcher. A tool is its effect and
  its outcome; whether a particular tool is idempotent by itself is not asked;
* decisions: the mission and the profile that decide which tools are protected;
* revisions: the observations learnt from edits;
* Manifest cycle: preparation, coverage counters, the receipt and the completion of a
  cycle, experiments and influence records, reviews that rewrite the text, the error
  text that a lineage failure leaves on the post (the next persistence clears it);
* hardening incidents: how a failure is classified, P0 against P1 (both block), the
  events of repeats, which change no stage, the limits of 100 and 50 rows on what is
  read, the texts of the evidence, the baselines of operational observations.

Delivery incidents, the work ledger, lifecycle and continuity tokens,
the GitHub ref update and commercial delivery are separate small protocols; each would
be a module of its own. Cleanups of tables are left out.

## 14. Plan

Next, in order: the Manifest cycle above its slots (coverage counters against live
occupancy, the receipt and its checks, completion); delivery incidents against the rows
of ScheduledDelivery; the GitHub ref update; the work ledger. Compositions:
DecisionAuthorization over SchedulerControl (the armed canary). Abstract specifications,
each with the proof that its module implements it: an at-most-once operation for receipts
within their lease; a budget for decisions; a journal for hardening incidents.
