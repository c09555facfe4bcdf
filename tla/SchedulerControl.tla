--------------------------- MODULE SchedulerControl ---------------------------
(***************************************************************************)
(* The scheduler control of the Lensically worker                          *)
(* (lensically-worker/src/index.ts, class ScheduledPostScheduler): the     *)
(* persisted control record, the runs of executeOnce that the alarm and    *)
(* the cron trigger start, which read it once and may write it back, and   *)
(* the operators that pause, arm a canary or activate normal delivery.     *)
(*                                                                         *)
(* The scheduler is one Durable Object.  Its storage operations admit no   *)
(* other event, so a sequence of them is one step; between two statements  *)
(* on the database any other event may come, except that                   *)
(* blockConcurrencyWhile keeps all of them out of a normal activation.     *)
(* What a run does to a post is in ScheduledDelivery; here it claims a row *)
(* and settles it.                                                         *)
(***************************************************************************)
EXTENDS Naturals, FiniteSets

CONSTANTS
  Posts,     \* rows of scheduled_posts
  CronRuns,  \* runs of the cron trigger that may overlap
  MaxPosts   \* rows a normal run selects at most

ASSUME RunsAssumption == "alarm" \notin CronRuns
ASSUME MaxPostsAssumption == MaxPosts \in Nat \ {0}

VARIABLES
  control,    \* the stored control record
  alarm,      \* the object's alarm is set
  activation, \* progress of an exclusive normal activation
  row,        \* [Posts -> RowStatus]: what the scheduler sees of a row
  retrying,   \* posts a retry route is publishing
  step,       \* [Runs -> RunStep]
  seen,       \* [Runs -> Control]: the control a run works with
  batch,      \* [Runs -> SUBSET Posts]: selected rows not yet looked at
  current     \* [Runs -> SUBSET Posts]: the claimed row, if any

objectVars == <<control, alarm, activation>>
rowVars    == <<row, retrying>>
runVars    == <<step, seen, batch, current>>
vars == <<objectVars, rowVars, runVars>>

Runs == {"alarm"} \cup CronRuns

Modes == {"normal", "paused", "canary"}

\* temporary stands for the reason's text: whether it is one of those that
\* isTemporarySchedulerPauseReason knows (a deployment smoke test, a canary that
\* ended); old, of a temporary pause: written longer ago than its maximal age.
Control == [mode : Modes, allowed : SUBSET Posts, temporary : BOOLEAN,
            resume : {"none", "paused", "normal"}, old : BOOLEAN]

\* Approved rows are "future", "due" or, cancelled by a recovery, "retired"; a
\* cancelled row in status posting is "withdrawn"; a deleted row is "gone".
RowStatus == {"future", "due", "retired", "posting", "withdrawn", "posted", "gone"}

\* An inspected run has read its canary's row and found it posted or not.
RunStep == {"idle", "started", "ready", "attempting", "ignoring",
            "posted", "unposted", "finishing"}

\* setControl: only a canary keeps an id and a mode to resume.
ControlOf(mode, S, temporary, resume) ==
  [mode |-> mode, allowed |-> IF mode = "canary" THEN S ELSE {},
   temporary |-> temporary, resume |-> IF mode = "canary" THEN resume ELSE "none",
   old |-> FALSE]

\* EMPTY_SCHEDULED_POST_SCHEDULER_CONTROL, read when nothing is stored.
Normal == ControlOf("normal", {}, FALSE, "none")
\* What a run writes whose canary failed.
Failed == ControlOf("paused", {}, FALSE, "none")

TypeOK ==
  /\ control \in Control
  /\ alarm \in BOOLEAN
  /\ activation \in {"none", "checked", "rechecked"}
  /\ row \in [Posts -> RowStatus]
  /\ retrying \subseteq Posts
  /\ step \in [Runs -> RunStep]
  /\ seen \in [Runs -> Control]
  /\ batch \in [Runs -> SUBSET Posts]
  /\ current \in [Runs -> SUBSET Posts]

Init ==
  /\ control = Normal
  /\ alarm = FALSE
  /\ activation = "none"
  /\ row \in [Posts -> {"future", "due"}]
  /\ retrying = {}
  /\ step = [r \in Runs |-> "idle"]
  /\ seen = [r \in Runs |-> Normal]
  /\ batch = [r \in Runs |-> {}]
  /\ current = [r \in Runs |-> {}]

-----------------------------------------------------------------------------
TemporaryPause(c) == c.mode = "paused" /\ c.temporary
EmergencyPause(c) == c.mode = "paused" /\ ~c.temporary

\* Broken: any pause expires.
AnyPauseExpired(c) == c.mode = "paused"
\* shouldAutoResumeTemporarySchedulerPause
PauseExpired(c) == TemporaryPause(c) /\ c.old

Due == {p \in Posts : row[p] = "due"}
\* listOverdueScheduledPosts also returns unpublished posting rows.
Overdue == {p \in Posts : row[p] \in {"due", "posting"}}
\* The claim looks at the status alone, so it takes a retired row too.
ClaimableRow(p) == row[p] \in {"due", "future", "retired"}
InPosting(status) == status \in {"posting", "withdrawn"}
ClaimRow(p) ==
  row' = [row EXCEPT ![p] = IF @ = "retired" THEN "withdrawn" ELSE "posting"]
\* Posted, unless the row is gone; or the attempt failed and changes nothing.
SettleRow(p) == row' \in {row, [row EXCEPT ![p] = IF @ = "gone" THEN @ ELSE "posted"]}

NoActivation == activation = "none"

-----------------------------------------------------------------------------
(***************************************************************************)
(* POST /control.  A pause or a canary takes effect at once and sets the   *)
(* alarm.  A canary remembers what to resume from the control it replaces. *)
(***************************************************************************)
Pause(temporary) ==
  /\ NoActivation
  /\ control' = ControlOf("paused", {}, temporary, "none")
  /\ alarm' = TRUE
  /\ UNCHANGED <<activation, rowVars, runVars>>

ResumeOf(c) == IF c.mode = "normal" \/ c.temporary THEN "normal" ELSE "paused"

ArmCanary(S, temporary) ==
  /\ NoActivation
  /\ Cardinality(S) = 1
  /\ control' = ControlOf("canary", S, temporary, ResumeOf(control))
  /\ alarm' = TRUE
  /\ UNCHANGED <<activation, rowVars, runVars>>

(***************************************************************************)
(* Normal activation excludes every other event of the object, but not the *)
(* database: no approved row may be overdue, twice, before it is written.  *)
(***************************************************************************)
ActivationCheck ==
  /\ NoActivation
  /\ Due = {}
  /\ activation' = "checked"
  /\ UNCHANGED <<control, alarm, rowVars, runVars>>

ActivationRecheck ==
  /\ activation = "checked"
  /\ activation' = IF Due = {} THEN "rechecked" ELSE "none"
  /\ UNCHANGED <<control, alarm, rowVars, runVars>>

ActivateNormal ==
  /\ activation = "rechecked"
  /\ activation' = "none"
  /\ control' = Normal
  /\ alarm' = TRUE
  /\ UNCHANGED <<rowVars, runVars>>

\* POST /arm, sent along with ordinary requests.
Arm ==
  /\ NoActivation
  /\ alarm' = TRUE
  /\ UNCHANGED <<control, activation, rowVars, runVars>>

\* POST /recover-overdue: reschedule (R) or retire overdue rows, exclusively;
\* the control stays as it is.
RecoverOverdue(S, R) ==
  /\ NoActivation
  /\ S # {} /\ S \subseteq Overdue
  /\ R \subseteq S
  /\ row' = [p \in Posts |->
       IF p \in R THEN "future"
       ELSE IF p \in S THEN (IF row[p] = "due" THEN "retired" ELSE "withdrawn")
       ELSE row[p]]
  /\ UNCHANGED <<objectVars, retrying, runVars>>

-----------------------------------------------------------------------------
(***************************************************************************)
(* What other executions do to the rows, past the object.                  *)
(***************************************************************************)
ComeDue(p) ==
  /\ row[p] = "future"
  /\ row' = [row EXCEPT ![p] = "due"]
  /\ UNCHANGED <<objectVars, retrying, runVars>>

Reschedule(p) ==
  /\ row[p] = "due"
  /\ row' = [row EXCEPT ![p] = "future"]
  /\ UNCHANGED <<objectVars, retrying, runVars>>

Remove(p) ==
  /\ ClaimableRow(p)
  /\ row' = [row EXCEPT ![p] = "gone"]
  /\ UNCHANGED <<objectVars, retrying, runVars>>

RetryClaim(p) ==
  /\ ClaimableRow(p)
  /\ ClaimRow(p)
  /\ retrying' = retrying \cup {p}
  /\ UNCHANGED <<objectVars, runVars>>

RetrySettle(p) ==
  /\ p \in retrying
  /\ retrying' = retrying \ {p}
  /\ SettleRow(p)
  /\ UNCHANGED <<objectVars, runVars>>

-----------------------------------------------------------------------------
(***************************************************************************)
(* A run of executeOnce.  Its statements on the database may take effect   *)
(* during an activation; its reads and writes of the control may not.      *)
(***************************************************************************)
Goto(r, s) == step' = [step EXCEPT ![r] = s]

\* executeOnce reads the control once.  An alarm that fires is no longer set.
Trigger(r) ==
  /\ NoActivation
  /\ step[r] = "idle"
  /\ r = "alarm" => alarm
  /\ alarm' = (IF r = "alarm" THEN FALSE ELSE alarm)
  /\ seen' = [seen EXCEPT ![r] = control]
  /\ Goto(r, "started")
  /\ UNCHANGED <<control, activation, rowVars, batch, current>>

\* Broken: the resumed control is not stored.
CheckOverdueUnstored(r) ==
  /\ NoActivation
  /\ step[r] = "started"
  /\ seen' = IF PauseExpired(seen[r]) /\ Overdue # {}
             THEN [seen EXCEPT ![r] = Normal] ELSE seen
  /\ Goto(r, "ready")
  /\ UNCHANGED <<objectVars, rowVars, batch, current>>
\* A temporary pause that expired while a row is overdue ends here.
CheckOverdue(r) ==
  /\ NoActivation
  /\ step[r] = "started"
  /\ IF PauseExpired(seen[r]) /\ Overdue # {}
     THEN control' = Normal /\ seen' = [seen EXCEPT ![r] = Normal]
     ELSE UNCHANGED <<control, seen>>
  /\ Goto(r, "ready")
  /\ UNCHANGED <<alarm, activation, rowVars, batch, current>>

\* Broken: the list of ids is not looked at.
SelectionUnfiltered(allowed, limit) ==
  {S \in SUBSET Due : Cardinality(S) = limit \/ (S = Due /\ Cardinality(S) <= limit)}
\* What getDueApprovedScheduledPosts may return: an empty list of ids is no
\* filter, and LIMIT keeps the first ones.
Selection(allowed, limit) ==
  LET due == IF allowed = {} THEN Due ELSE Due \cap allowed
  IN  {S \in SUBSET due : Cardinality(S) = limit \/ (S = due /\ Cardinality(S) <= limit)}

\* A canary run that selects nothing, like a paused run, leaves the control be.
Select(r) ==
  /\ step[r] = "ready"
  /\ \/ /\ seen[r].mode = "canary"
        /\ \E S \in Selection(seen[r].allowed, 1) :
             /\ batch' = [batch EXCEPT ![r] = S]
             /\ Goto(r, IF S = {} THEN "ignoring" ELSE "attempting")
     \/ /\ seen[r].mode = "normal"
        /\ \E S \in Selection({}, MaxPosts) : batch' = [batch EXCEPT ![r] = S]
        /\ Goto(r, "ignoring")
     \/ /\ seen[r].mode = "paused"
        /\ batch' = batch
        /\ Goto(r, "ignoring")
  /\ UNCHANGED <<objectVars, rowVars, seen, current>>

Working(r) == step[r] \in {"attempting", "ignoring"}

\* The row is claimed; or it is held back or somebody else has it.
Attempt(r, p) ==
  /\ Working(r)
  /\ p \in batch[r] /\ current[r] = {}
  /\ batch' = [batch EXCEPT ![r] = @ \ {p}]
  /\ \/ /\ ClaimableRow(p)
        /\ ClaimRow(p)
        /\ current' = [current EXCEPT ![r] = {p}]
     \/ UNCHANGED <<row, current>>
  /\ UNCHANGED <<objectVars, retrying, step, seen>>

Settle(r) ==
  /\ Working(r)
  /\ \E p \in current[r] : SettleRow(p)
  /\ current' = [current EXCEPT ![r] = {}]
  /\ UNCHANGED <<objectVars, retrying, step, seen, batch>>

Worked(r) == Working(r) /\ batch[r] = {} /\ current[r] = {}

\* Broken: an attempt counts as a success.
InspectAttempt(r) ==
  /\ step[r] = "attempting" /\ Worked(r)
  /\ Goto(r, IF \A p \in seen[r].allowed : row[p] # "due" THEN "posted" ELSE "unposted")
  /\ UNCHANGED <<objectVars, rowVars, seen, batch, current>>
\* Broken: a row the run could not claim is not inspected.
InspectClaimed(r) ==
  /\ step[r] = "attempting" /\ Worked(r)
  /\ Goto(r, IF \A p \in seen[r].allowed : row[p] = "posted" THEN "posted"
             ELSE IF Due \cap seen[r].allowed # {} THEN "finishing" ELSE "unposted")
  /\ UNCHANGED <<objectVars, rowVars, seen, batch, current>>
Inspect(r) ==
  /\ step[r] = "attempting" /\ Worked(r)
  /\ Goto(r, IF \A p \in seen[r].allowed : row[p] = "posted" THEN "posted" ELSE "unposted")
  /\ UNCHANGED <<objectVars, rowVars, seen, batch, current>>

\* The canary ends: whatever the control is by now, it is overwritten with the
\* outcome of the canary this run has seen.
Conclude(r) ==
  LET resume == seen[r].resume
  IN  /\ NoActivation
      /\ \/ /\ step[r] = "posted"
            /\ control' = ControlOf(resume, {}, resume = "paused", "none")
         \/ /\ step[r] = "unposted"
            /\ control' = Failed
      /\ Goto(r, "finishing")
      /\ UNCHANGED <<alarm, activation, rowVars, seen, batch, current>>

\* The run is over; alarm() sets the next alarm in a finally block.
EndRun(r) ==
  /\ Goto(r, "idle")
  /\ seen' = [seen EXCEPT ![r] = Normal]
  /\ batch' = [batch EXCEPT ![r] = {}]
  /\ current' = [current EXCEPT ![r] = {}]

Finish(r) ==
  /\ NoActivation
  /\ step[r] = "finishing" \/ (step[r] = "ignoring" /\ Worked(r))
  /\ EndRun(r)
  /\ alarm' = (alarm \/ r = "alarm")
  /\ UNCHANGED <<control, activation, rowVars>>

\* Broken: the next alarm is not set after an exception.
FailWithoutFinally(r) ==
  /\ NoActivation
  /\ step[r] # "idle"
  /\ control' = IF seen[r].mode = "canary" THEN Failed ELSE control
  /\ EndRun(r)
  /\ UNCHANGED <<alarm, activation, rowVars>>
\* A statement of the run throws: under a canary the scheduler is paused, even
\* if the run has already ended that canary.
Fail(r) ==
  /\ NoActivation
  /\ step[r] # "idle"
  /\ control' = IF seen[r].mode = "canary" THEN Failed ELSE control
  /\ EndRun(r)
  /\ alarm' = (alarm \/ r = "alarm")
  /\ UNCHANGED <<activation, rowVars>>

\* The object is reset: its runs and an activation are lost, and the platform
\* delivers an interrupted alarm again.
Evict ==
  /\ (activation # "none" \/ \E r \in Runs : step[r] # "idle")
  /\ activation' = "none"
  /\ alarm' = (alarm \/ step["alarm"] # "idle")
  /\ step' = [r \in Runs |-> "idle"]
  /\ seen' = [r \in Runs |-> Normal]
  /\ batch' = [r \in Runs |-> {}]
  /\ current' = [r \in Runs |-> {}]
  /\ UNCHANGED <<control, rowVars>>

\* The maximal age of a temporary pause passes; what a run has seen is never
\* younger than what is stored.
Aged(c) == [c EXCEPT !.old = TemporaryPause(c)]
Age ==
  /\ control' \in {control, Aged(control)}
  /\ seen' = [r \in Runs |-> Aged(seen[r])]
  /\ UNCHANGED <<alarm, activation, rowVars, step, batch, current>>

-----------------------------------------------------------------------------
Operate ==
  \/ \E temporary \in BOOLEAN : Pause(temporary)
  \/ \E S \in SUBSET Posts, temporary \in BOOLEAN : ArmCanary(S, temporary)
  \/ ActivationCheck
  \/ ActivationRecheck
  \/ ActivateNormal
  \/ Arm
  \/ \E S, R \in SUBSET Posts : RecoverOverdue(S, R)

Others ==
  \E p \in Posts : ComeDue(p) \/ Reschedule(p) \/ Remove(p) \/ RetryClaim(p) \/ RetrySettle(p)

RunSteps(r) ==
  \/ CheckOverdue(r)
  \/ Select(r)
  \/ \E p \in Posts : Attempt(r, p)
  \/ Settle(r)
  \/ Inspect(r)
  \/ Conclude(r)
  \/ Finish(r)
  \/ Fail(r)

Next ==
  \/ Operate
  \/ Others
  \/ \E r \in Runs : Trigger(r)
  \/ \E r \in Runs : RunSteps(r)
  \/ Evict
  \/ Age

Spec == Init /\ [][Next]_vars

(***************************************************************************)
(* Fairness: the platform fires a set alarm and the cron for ever; an      *)
(* activation ends; a run goes on, and neither evictions nor exceptions    *)
(* always strike at the same step (strong fairness of its steps).          *)
(***************************************************************************)
Fairness ==
  /\ WF_vars(ActivationRecheck) /\ WF_vars(ActivateNormal)
  /\ \A r \in Runs :
       /\ SF_vars(Trigger(r)) /\ SF_vars(CheckOverdue(r)) /\ SF_vars(Select(r))
       /\ SF_vars(\E p \in Posts : Attempt(r, p))
       /\ SF_vars(Inspect(r)) /\ SF_vars(Conclude(r))
       /\ WF_vars(RunSteps(r))

FairSpec == Spec /\ Fairness

-----------------------------------------------------------------------------
(***************************************************************************)
(* Safety.                                                                 *)
(***************************************************************************)

\* A run publishes only what the control it read authorizes: nothing under a
\* pause, and under a canary no post but the one the canary names.
AttemptsAuthorized ==
  \A r \in Runs :
    LET chosen == batch[r] \cup current[r]
    IN  /\ seen[r].mode = "paused" => chosen = {}
        /\ seen[r].mode = "canary" => chosen \subseteq seen[r].allowed

\* Once an emergency pause is stored and no run that read something else is
\* left, no run publishes anything and no run lifts it; only an operator does.
Quiet == EmergencyPause(control) /\ \A r \in Runs : step[r] = "idle" \/ EmergencyPause(seen[r])
RunWrites == control' # control /\ step' # step
EmergencyPauseStands ==
  [][Quiet => /\ ~RunWrites
              /\ \A p \in Posts :
                   ~InPosting(row[p]) /\ InPosting(row'[p]) => p \in retrying']_vars

\* A canary gives way to normal delivery only when its post was really
\* published, however many runs, retries and deletions meet at that row.
Concludes(r) == step[r] # "finishing" /\ step'[r] = "finishing"
ResumeProvesDelivery ==
  [][\A r \in Runs : Concludes(r) /\ control'.mode = "normal" =>
       \A p \in seen[r].allowed : row'[p] = "posted"]_vars

\* The heartbeat is never lost: once the alarm has been set it is set again by
\* the run it starts, whatever exception or eviction ends that run.
AlarmSurvives ==
  [][alarm \/ step["alarm"] # "idle" => alarm' \/ step'["alarm"] # "idle"]_vars

(***************************************************************************)
(* Liveness, under FairSpec.                                               *)
(***************************************************************************)

\* A temporary pause past its age does not hold back a due post for ever: a
\* run lifts it, unless the row or the control changes first.
TemporaryPauseEnds ==
  TemporaryPause(control) /\ control.old /\ Due # {}
    ~> ~(TemporaryPause(control) /\ control.old /\ Due # {})

\* A canary whose post is due comes to an end, or its post stops being due:
\* also when the post is held back and never claimed.
CanaryPending == control.mode = "canary" /\ control.allowed \subseteq Due
CanaryEnds == CanaryPending ~> ~CanaryPending
=============================================================================
