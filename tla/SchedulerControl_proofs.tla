------------------------ MODULE SchedulerControl_proofs ------------------------
(***************************************************************************)
(* Theorems about SchedulerControl, for any number of posts and of runs    *)
(* that overlap.  One inductive invariant says what a run may hold at each *)
(* of its steps; what runs may publish, what an emergency pause is worth   *)
(* and what a canary that resumes normal delivery proves follow from it.   *)
(***************************************************************************)
EXTENDS SchedulerControl, FiniteSetTheorems, TLAPS

\* A control that a canary run can work with: it names a post, and a mode.
Complete(c) == c.mode = "canary" => c.allowed # {} /\ c.resume \in {"paused", "normal"}

\* What a run may hold: nothing before it selected, never more than its control
\* authorizes, and a canary if it is on the way to conclude one.
Holds(r) ==
  /\ Complete(seen[r])
  /\ step[r] \in {"idle", "started", "ready"} => batch[r] = {} /\ current[r] = {}
  /\ step[r] \in {"attempting", "posted", "unposted"} => seen[r].mode = "canary"
  /\ seen[r].mode = "paused" => batch[r] = {} /\ current[r] = {}
  /\ seen[r].mode = "canary" => batch[r] \cup current[r] \subseteq seen[r].allowed
  /\ step[r] = "posted" => \A p \in seen[r].allowed : row[p] = "posted"

Inv == TypeOK /\ Complete(control) /\ \A r \in Runs : Holds(r)

\* What setControl stores is a control, and only a canary's has ids.
LEMMA ControlOfType ==
  ASSUME NEW mode \in Modes, NEW S \in SUBSET Posts, NEW temporary \in BOOLEAN,
         NEW resume \in {"none", "paused", "normal"}
  PROVE  /\ ControlOf(mode, S, temporary, resume) \in Control
         /\ ControlOf(mode, S, temporary, resume).mode = mode
         /\ mode # "canary" => Complete(ControlOf(mode, S, temporary, resume))
BY DEF ControlOf, Control, Modes, Complete

LEMMA NormalType == Normal \in Control /\ Normal.mode = "normal"
BY DEF Normal, ControlOf, Control, Modes

LEMMA FailedType == Failed \in Control /\ Failed.mode = "paused"
BY DEF Failed, ControlOf, Control, Modes

\* A canary that is armed names one post and what to resume.
LEMMA CanaryType ==
  ASSUME NEW S \in SUBSET Posts, NEW temporary \in BOOLEAN, NEW c, Cardinality(S) = 1
  PROVE  /\ ControlOf("canary", S, temporary, ResumeOf(c)) \in Control
         /\ Complete(ControlOf("canary", S, temporary, ResumeOf(c)))
<1>1. S # {}
  BY FS_EmptySet
<1>2. ResumeOf(c) \in {"paused", "normal"}
  BY DEF ResumeOf
<1> QED BY <1>1, <1>2 DEF ControlOf, Control, Modes, Complete

\* Time changes nothing of a control but its age.
LEMMA AgedType ==
  ASSUME NEW c \in Control
  PROVE  /\ Aged(c) \in Control
         /\ Aged(c).mode = c.mode /\ Aged(c).allowed = c.allowed
         /\ Aged(c).temporary = c.temporary /\ Aged(c).resume = c.resume
<1>1. TemporaryPause(c) \in BOOLEAN
  BY DEF TemporaryPause
<1> QED BY <1>1 DEF Aged, Control

-----------------------------------------------------------------------------
LEMMA InvInit == Init => Inv
BY NormalType DEF Init, Inv, TypeOK, Holds, Complete, RowStatus, RunStep

\* Orders that replace the control, set the alarm or move an activation on.
LEMMA ObjectStepKeepsInv ==
  ASSUME Inv, control' \in Control, Complete(control'), alarm' \in BOOLEAN,
         activation' \in {"none", "checked", "rechecked"}, UNCHANGED <<rowVars, runVars>>
  PROVE  Inv'
<1>1. TypeOK'
  BY DEF Inv, TypeOK, rowVars, runVars
<1>2. ASSUME NEW r \in Runs PROVE Holds(r)'
  BY DEF Inv, rowVars, runVars, Holds, Complete
<1> QED BY <1>1, <1>2 DEF Inv, Complete

\* The operators' orders touch no run; they may replace the control or move an
\* overdue row, which is not posted.
LEMMA OperateKeepsInv == ASSUME Inv, Operate PROVE Inv'
<1> USE DEF Inv, TypeOK
<1>1. CASE \E temporary \in BOOLEAN : Pause(temporary)
  <2>1. control' \in Control /\ Complete(control')
    BY <1>1, ControlOfType DEF Pause, Modes
  <2> QED BY <1>1, <2>1, ObjectStepKeepsInv DEF Pause
<1>2. CASE \E S \in SUBSET Posts, temporary \in BOOLEAN : ArmCanary(S, temporary)
  <2>1. control' \in Control /\ Complete(control')
    BY <1>2, CanaryType DEF ArmCanary
  <2> QED BY <1>2, <2>1, ObjectStepKeepsInv DEF ArmCanary
<1>3. CASE ActivationCheck \/ ActivationRecheck
  BY <1>3, ObjectStepKeepsInv DEF ActivationCheck, ActivationRecheck
<1>4. CASE ActivateNormal \/ Arm
  <2>1. control' \in Control /\ Complete(control')
    BY <1>4, NormalType DEF ActivateNormal, Arm, Complete
  <2> QED BY <1>4, <2>1, ObjectStepKeepsInv DEF ActivateNormal, Arm
<1>5. CASE \E S, R \in SUBSET Posts : RecoverOverdue(S, R)
  <2>1. row' \in [Posts -> RowStatus] /\ \A p \in Posts : row[p] = "posted" => row'[p] = "posted"
    BY <1>5 DEF RecoverOverdue, Overdue, RowStatus
  <2> QED BY <1>5, <2>1 DEF RecoverOverdue, objectVars, runVars, Holds, Complete, Control
<1> QED BY <1>1, <1>2, <1>3, <1>4, <1>5 DEF Operate

\* Nobody else takes a posted row back.
LEMMA OthersKeepInv == ASSUME Inv, Others PROVE Inv'
<1> USE DEF Inv, TypeOK
<1>1. row' \in [Posts -> RowStatus] /\ retrying' \subseteq Posts
  BY DEF Others, ComeDue, Reschedule, Remove, RetryClaim, RetrySettle,
         ClaimRow, SettleRow, RowStatus
<1>2. \A p \in Posts : row[p] = "posted" => row'[p] = "posted"
  BY DEF Others, ComeDue, Reschedule, Remove, RetryClaim, RetrySettle,
         ClaimRow, SettleRow, ClaimableRow, RowStatus
<1>3. UNCHANGED <<objectVars, runVars>>
  BY DEF Others, ComeDue, Reschedule, Remove, RetryClaim, RetrySettle
<1> QED BY <1>1, <1>2, <1>3 DEF objectVars, runVars, Holds, Complete, Control

\* A run that does not move keeps what it holds if posted rows stay posted.
LEMMA HoldsFrame ==
  ASSUME Inv, NEW r \in Runs, Holds(r),
         step'[r] = step[r], seen'[r] = seen[r], batch'[r] = batch[r],
         current'[r] = current[r],
         \A p \in Posts : row[p] = "posted" => row'[p] = "posted"
  PROVE  Holds(r)'
BY DEF Inv, TypeOK, Holds, Complete, Control

LEMMA TriggerKeepsInv == ASSUME Inv, NEW r \in Runs, Trigger(r) PROVE Inv'
<1> USE DEF Inv
<1>1. TypeOK'
  BY DEF TypeOK, Trigger, Goto, RunStep, rowVars
<1>2. Holds(r)'
  BY DEF TypeOK, Trigger, Goto, Holds, Complete, rowVars
<1>3. ASSUME NEW q \in Runs, q # r PROVE Holds(q)'
  BY <1>3, HoldsFrame DEF TypeOK, Trigger, Goto, rowVars
<1> QED BY <1>1, <1>2, <1>3 DEF Trigger

LEMMA CheckOverdueKeepsInv == ASSUME Inv, NEW r \in Runs, CheckOverdue(r) PROVE Inv'
<1> USE DEF Inv
<1>1. TypeOK' /\ Complete(control')
  BY NormalType DEF TypeOK, CheckOverdue, Goto, RunStep, rowVars, Complete
<1>2. Holds(r)'
  BY NormalType DEF TypeOK, CheckOverdue, Goto, Holds, Complete, rowVars
<1>3. ASSUME NEW q \in Runs, q # r PROVE Holds(q)'
  BY <1>3, HoldsFrame DEF TypeOK, CheckOverdue, Goto, rowVars
<1> QED BY <1>1, <1>2, <1>3

LEMMA SelectKeepsInv == ASSUME Inv, NEW r \in Runs, Select(r) PROVE Inv'
<1> USE DEF Inv
<1>1. TypeOK'
  BY DEF TypeOK, Select, Selection, Due, Goto, RunStep, objectVars, rowVars
<1>2. Holds(r)'
  <2>1. CASE seen[r].mode = "canary"
    BY <2>1 DEF TypeOK, Select, Selection, Goto, Holds, Complete, rowVars
  <2>2. CASE seen[r].mode # "canary"
    BY <2>2 DEF TypeOK, Select, Goto, Holds, Complete, rowVars
  <2> QED BY <2>1, <2>2
<1>3. ASSUME NEW q \in Runs, q # r PROVE Holds(q)'
  <2>1. /\ step'[q] = step[q] /\ batch'[q] = batch[q]
        /\ UNCHANGED <<seen, current, row, control>>
    BY <1>3 DEF TypeOK, Select, Goto, rowVars, objectVars
  <2> QED BY <2>1, HoldsFrame
<1> QED BY <1>1, <1>2, <1>3 DEF Select, objectVars

LEMMA AttemptKeepsInv ==
  ASSUME Inv, NEW r \in Runs, NEW p \in Posts, Attempt(r, p) PROVE Inv'
<1> USE DEF Inv
<1>1. TypeOK'
  BY DEF TypeOK, Attempt, ClaimRow, RowStatus, objectVars
<1>2. \A q \in Posts : row[q] = "posted" => row'[q] = "posted"
  BY DEF TypeOK, Attempt, ClaimRow, ClaimableRow
<1>3. Holds(r)'
  BY <1>2 DEF TypeOK, Attempt, ClaimRow, Working, Holds, Complete, Control
<1>4. ASSUME NEW q \in Runs, q # r PROVE Holds(q)'
  BY <1>2, <1>4, HoldsFrame DEF TypeOK, Attempt, ClaimRow
<1> QED BY <1>1, <1>3, <1>4 DEF Attempt, ClaimRow, objectVars

LEMMA SettleKeepsInv == ASSUME Inv, NEW r \in Runs, Settle(r) PROVE Inv'
<1> USE DEF Inv
<1>1. TypeOK'
  BY DEF TypeOK, Settle, SettleRow, RowStatus, objectVars
<1>2. \A q \in Posts : row[q] = "posted" => row'[q] = "posted"
  BY DEF TypeOK, Settle, SettleRow
<1>3. Holds(r)'
  BY <1>2 DEF TypeOK, Settle, SettleRow, Working, Holds, Complete, Control
<1>4. ASSUME NEW q \in Runs, q # r PROVE Holds(q)'
  BY <1>2, <1>4, HoldsFrame DEF TypeOK, Settle, SettleRow
<1> QED BY <1>1, <1>3, <1>4 DEF Settle, SettleRow, objectVars

LEMMA InspectKeepsInv == ASSUME Inv, NEW r \in Runs, Inspect(r) PROVE Inv'
<1> USE DEF Inv
<1>1. TypeOK'
  BY DEF TypeOK, Inspect, Goto, RunStep, objectVars, rowVars
<1>2. Holds(r)'
  BY DEF TypeOK, Inspect, Worked, Goto, Holds, Complete, rowVars
<1>3. ASSUME NEW q \in Runs, q # r PROVE Holds(q)'
  BY <1>3, HoldsFrame DEF TypeOK, Inspect, Goto, rowVars
<1> QED BY <1>1, <1>2, <1>3 DEF Inspect, objectVars

LEMMA ConcludeKeepsInv == ASSUME Inv, NEW r \in Runs, Conclude(r) PROVE Inv'
<1> USE DEF Inv
<1>1. control' \in Control /\ Complete(control')
  <2>1. CASE step[r] = "posted"
    <3>1. seen[r].resume \in {"paused", "normal"}
      BY <2>1 DEF Holds, Complete
    <3>2. control' = ControlOf(seen[r].resume, {}, seen[r].resume = "paused", "none")
      BY <2>1 DEF Conclude
    <3>3. CASE seen[r].resume = "paused"
      BY <3>2, <3>3 DEF ControlOf, Control, Modes, Complete
    <3>4. CASE seen[r].resume = "normal"
      BY <3>2, <3>4 DEF ControlOf, Control, Modes, Complete
    <3> QED BY <3>1, <3>3, <3>4
  <2>2. CASE step[r] = "unposted"
    BY <2>2, FailedType DEF Conclude, Complete
  <2> QED BY <2>1, <2>2 DEF Conclude
<1>2. TypeOK'
  BY <1>1 DEF TypeOK, Conclude, Goto, RunStep, rowVars
<1>3. Holds(r)'
  BY DEF TypeOK, Conclude, Goto, Holds, Complete, rowVars
<1>4. ASSUME NEW q \in Runs, q # r PROVE Holds(q)'
  BY <1>4, HoldsFrame DEF TypeOK, Conclude, Goto, rowVars
<1> QED BY <1>1, <1>2, <1>3, <1>4

\* The end of a run, whether it finished or failed.
LEMMA EndRunKeepsInv ==
  ASSUME Inv, NEW r \in Runs, EndRun(r), UNCHANGED <<activation, rowVars>>,
         alarm' \in BOOLEAN, control' \in {control, Failed}
  PROVE  Inv'
<1> USE DEF Inv
<1>1. TypeOK' /\ Complete(control')
  BY NormalType, FailedType DEF TypeOK, EndRun, Goto, RunStep, rowVars, Complete
<1>2. Holds(r)'
  BY NormalType DEF TypeOK, EndRun, Goto, Holds, Complete, rowVars
<1>3. ASSUME NEW q \in Runs, q # r PROVE Holds(q)'
  BY <1>3, HoldsFrame DEF TypeOK, EndRun, Goto, rowVars
<1> QED BY <1>1, <1>2, <1>3

LEMMA EvictKeepsInv == ASSUME Inv, Evict PROVE Inv'
BY NormalType DEF Inv, TypeOK, Evict, RunStep, rowVars, Holds, Complete

LEMMA AgeKeepsInv == ASSUME Inv, Age PROVE Inv'
<1> USE DEF Inv
<1>1. TypeOK'
  BY AgedType DEF TypeOK, Age, rowVars
<1>2. Complete(control')
  BY AgedType DEF TypeOK, Age, Complete
<1>3. ASSUME NEW r \in Runs PROVE Holds(r)'
  BY AgedType DEF TypeOK, Age, rowVars, Holds, Complete
<1> QED BY <1>1, <1>2, <1>3

LEMMA InvStep == Inv /\ [Next]_vars => Inv'
<1> SUFFICES ASSUME Inv, [Next]_vars PROVE Inv'
  OBVIOUS
<1>1. ASSUME NEW r \in Runs, RunSteps(r) PROVE Inv'
  <2>1. CASE Finish(r)
    BY <2>1, EndRunKeepsInv DEF Finish, Inv, TypeOK
  <2>2. CASE Fail(r)
    BY <2>2, EndRunKeepsInv DEF Fail, Inv, TypeOK
  <2> QED BY <1>1, <2>1, <2>2, CheckOverdueKeepsInv, SelectKeepsInv, AttemptKeepsInv,
             SettleKeepsInv, InspectKeepsInv, ConcludeKeepsInv DEF RunSteps
<1>2. CASE UNCHANGED vars
  BY <1>2 DEF vars, objectVars, rowVars, runVars, Inv, TypeOK, Holds, Complete, Control
<1> QED BY <1>1, <1>2, OperateKeepsInv, OthersKeepInv, TriggerKeepsInv, EvictKeepsInv,
           AgeKeepsInv DEF Next

\* Type correctness, and what every run may hold at each of its steps.
THEOREM RunsHoldWhatTheyMay == Spec => []Inv
BY InvInit, InvStep, PTL DEF Spec

\* The control, the alarm, the rows and what the runs hold are always typed.
THEOREM ControlIsTyped == Spec => []TypeOK
<1>1. Inv => TypeOK
  BY DEF Inv
<1> QED BY <1>1, RunsHoldWhatTheyMay, PTL

-----------------------------------------------------------------------------
\* A run publishes only what the control it read authorizes.
THEOREM RunsAreAuthorized == Spec => []AttemptsAuthorized
<1>1. Inv => AttemptsAuthorized
  BY DEF Inv, Holds, AttemptsAuthorized
<1> QED BY <1>1, RunsHoldWhatTheyMay, PTL

\* Under an emergency pause that every run has read, runs neither publish nor
\* write the control.
THEOREM PauseStands == Spec => EmergencyPauseStands
<1> DEFINE Promise ==
      Quiet => /\ ~RunWrites
               /\ \A p \in Posts :
                    ~InPosting(row[p]) /\ InPosting(row'[p]) => p \in retrying'
<1>1. ASSUME Inv, [Next]_vars, Quiet PROVE ~RunWrites
  <2>1. ASSUME NEW r \in Runs, Trigger(r) PROVE control' = control
    BY <2>1 DEF Trigger
  <2>2. ASSUME NEW r \in Runs, RunSteps(r) PROVE control' = control
    <3>1. step[r] # "idle"
      BY <2>2 DEF RunSteps, CheckOverdue, Select, Attempt, Settle, Inspect, Conclude,
                  Finish, Fail, Working
    <3>2. seen[r].mode = "paused" /\ ~seen[r].temporary
      BY <1>1, <3>1 DEF Quiet, EmergencyPause
    <3>3. step[r] \notin {"posted", "unposted"}
      BY <1>1, <3>2 DEF Inv, Holds
    <3> QED BY <2>2, <3>2, <3>3 DEF RunSteps, CheckOverdue, PauseExpired, TemporaryPause,
               Select, Attempt, Settle, Inspect, Conclude, Finish, Fail, objectVars
  <2>3. CASE Operate
    BY <2>3 DEF Operate, Pause, ArmCanary, ActivationCheck, ActivationRecheck,
                ActivateNormal, Arm, RecoverOverdue, runVars, RunWrites
  <2>4. CASE Others
    BY <2>4 DEF Others, ComeDue, Reschedule, Remove, RetryClaim, RetrySettle,
                ClaimRow, SettleRow, runVars, RunWrites
  <2>5. CASE Evict \/ Age
    BY <2>5 DEF Evict, Age, RunWrites
  <2>6. CASE UNCHANGED vars
    BY <2>6 DEF vars, objectVars, RunWrites
  <2> QED BY <1>1, <2>1, <2>2, <2>3, <2>4, <2>5, <2>6 DEF Next, RunWrites
<1>2. ASSUME Inv, [Next]_vars, Quiet, NEW p \in Posts, ~InPosting(row[p]), InPosting(row'[p])
      PROVE  p \in retrying'
  <2> USE DEF InPosting
  <2>1. ASSUME NEW r \in Runs, RunSteps(r) PROVE FALSE
    <3>1. CASE \E q \in Posts : Attempt(r, q)
      <4>1. step[r] # "idle" /\ batch[r] # {}
        BY <3>1 DEF Attempt, ClaimRow, Working
      <4>2. seen[r].mode = "paused"
        BY <1>2, <4>1 DEF Quiet, EmergencyPause
      <4> QED BY <1>2, <4>1, <4>2 DEF Inv, Holds
    <3>2. CASE Settle(r)
      BY <1>2, <3>2 DEF Settle, SettleRow, Inv, TypeOK
    <3> QED BY <1>2, <2>1, <3>1, <3>2 DEF RunSteps, CheckOverdue, Select, Inspect, Conclude,
               Finish, Fail, rowVars
  <2>2. CASE Operate
    BY <1>2, <2>2 DEF Operate, Pause, ArmCanary, ActivationCheck, ActivationRecheck,
               ActivateNormal, Arm, RecoverOverdue, Overdue, rowVars, Inv, TypeOK
  <2>3. CASE Others
    BY <1>2, <2>3 DEF Others, ComeDue, Reschedule, Remove, RetryClaim, RetrySettle,
                      ClaimRow, SettleRow, Inv, TypeOK
  <2>4. CASE (\E r \in Runs : Trigger(r)) \/ Evict \/ Age
    BY <1>2, <2>4 DEF Trigger, Evict, Age, rowVars
  <2>5. CASE UNCHANGED vars
    BY <1>2, <2>5 DEF vars, rowVars
  <2> QED BY <1>2, <2>1, <2>2, <2>3, <2>4, <2>5 DEF Next
<1>3. Inv /\ [Next]_vars => [Promise]_vars
  BY <1>1, <1>2
<1> QED BY <1>3, RunsHoldWhatTheyMay, PTL DEF Spec, EmergencyPauseStands

\* A canary that resumes normal delivery was published.
THEOREM ResumeIsEarned == Spec => ResumeProvesDelivery
<1> DEFINE Promise ==
      \A r \in Runs : Concludes(r) /\ control'.mode = "normal" =>
        \A p \in seen[r].allowed : row'[p] = "posted"
<1>1. ASSUME Inv, [Next]_vars, NEW r \in Runs, Concludes(r), control'.mode = "normal"
      PROVE  \A p \in seen[r].allowed : row'[p] = "posted"
  <2>1. Conclude(r)
    <3>1. step # step'
      BY <1>1 DEF Concludes
    <3>2. ASSUME NEW q \in Runs, Trigger(q) PROVE FALSE
      BY <1>1, <3>2 DEF Trigger, Goto, Concludes, Inv, TypeOK
    <3>3. ASSUME NEW q \in Runs, RunSteps(q) PROVE Conclude(r)
      BY <1>1, <3>3 DEF RunSteps, CheckOverdue, Select, Attempt, Settle, Inspect, Conclude,
                        Finish, Fail, EndRun, Goto, Concludes, Inv, TypeOK
    <3>4. CASE Operate
      BY <3>1, <3>4 DEF Operate, Pause, ArmCanary, ActivationCheck, ActivationRecheck,
                 ActivateNormal, Arm, RecoverOverdue, runVars
    <3>5. CASE Others
      BY <3>1, <3>5 DEF Others, ComeDue, Reschedule, Remove, RetryClaim, RetrySettle,
                        ClaimRow, SettleRow, runVars
    <3>6. CASE Evict \/ Age
      BY <1>1, <3>6 DEF Evict, Age, Concludes
    <3>7. CASE UNCHANGED vars
      BY <3>1, <3>7 DEF vars, runVars
    <3> QED BY <1>1, <3>2, <3>3, <3>4, <3>5, <3>6, <3>7 DEF Next
  <2>2. step[r] = "posted"
    BY <1>1, <2>1, FailedType DEF Conclude
  <2> QED BY <1>1, <2>1, <2>2 DEF Inv, Holds, Conclude, rowVars
<1>2. Inv /\ [Next]_vars => [Promise]_vars
  BY <1>1
<1> QED BY <1>2, RunsHoldWhatTheyMay, PTL DEF Spec, ResumeProvesDelivery

\* The alarm is set again by every run it starts.
THEOREM HeartbeatSurvives == Spec => AlarmSurvives
<1> DEFINE Alive == alarm \/ step["alarm"] # "idle"
           Promise == Alive => alarm' \/ step'["alarm"] # "idle"
<1>1. ASSUME Inv, [Next]_vars, Alive PROVE alarm' \/ step'["alarm"] # "idle"
  <2> USE DEF Inv, TypeOK, Runs
  <2>1. ASSUME NEW r \in Runs, Trigger(r) PROVE alarm' \/ step'["alarm"] # "idle"
    BY <1>1, <2>1 DEF Trigger, Goto
  <2>2. ASSUME NEW r \in Runs, RunSteps(r) PROVE alarm' \/ step'["alarm"] # "idle"
    BY <1>1, <2>2 DEF RunSteps, CheckOverdue, Select, Attempt, Settle, Inspect, Conclude,
                      Finish, Fail, EndRun, Goto, objectVars
  <2>3. CASE Operate
    BY <1>1, <2>3 DEF Operate, Pause, ArmCanary, ActivationCheck, ActivationRecheck,
                      ActivateNormal, Arm, RecoverOverdue, objectVars, runVars
  <2>4. CASE Others
    BY <1>1, <2>4 DEF Others, ComeDue, Reschedule, Remove, RetryClaim, RetrySettle,
                      objectVars, runVars
  <2>5. CASE Evict \/ Age
    BY <1>1, <2>5 DEF Evict, Age
  <2>6. CASE UNCHANGED vars
    BY <1>1, <2>6 DEF vars, objectVars, runVars
  <2> QED BY <1>1, <2>1, <2>2, <2>3, <2>4, <2>5, <2>6 DEF Next
<1>2. Inv /\ [Next]_vars => [Promise]_vars
  BY <1>1
<1> QED BY <1>2, RunsHoldWhatTheyMay, PTL DEF Spec, AlarmSurvives

-----------------------------------------------------------------------------
(***************************************************************************)
(* The scheduler, too, implements PostRows: what it takes the rows to do   *)
(* is what the executions of ScheduledDelivery do to them.  A post is held *)
(* by the run that has it as its current row, or by a retry.               *)
(***************************************************************************)
heldOf == retrying \cup UNION {current[r] : r \in Runs}

Rows == INSTANCE PostRows WITH held <- heldOf

\* A run processes one row at a time.
OneRowEach == \A r \in Runs : \A p, q \in current[r] : p = q

LEMMA OneRowEachStep == Inv /\ OneRowEach /\ [Next]_vars => OneRowEach'
<1> SUFFICES ASSUME Inv, OneRowEach, [Next]_vars, NEW r \in Runs PROVE \A p, q \in current'[r] : p = q
  BY DEF OneRowEach
<1>typ. current \in [Runs -> SUBSET Posts]
  BY DEF Inv, TypeOK
<1>0. ASSUME current'[r] \in {current[r], {}} PROVE \A p, q \in current'[r] : p = q
  BY <1>0 DEF OneRowEach
<1>1. ASSUME NEW v \in Runs, RunSteps(v) PROVE \A p, q \in current'[r] : p = q
  <2>1. ASSUME NEW q \in Posts, Attempt(v, q) PROVE current'[r] \in {current[r], {q}}
    BY <2>1, <1>typ DEF Attempt
  <2>2. CASE CheckOverdue(v) \/ Select(v) \/ Inspect(v) \/ Conclude(v)
    BY <2>2, <1>0 DEF CheckOverdue, Select, Inspect, Conclude
  <2>3. CASE Settle(v) \/ Finish(v) \/ Fail(v)
    BY <2>3, <1>0, <1>typ DEF Settle, Finish, Fail, EndRun
  <2> QED BY <1>1, <2>1, <2>2, <2>3 DEF RunSteps, OneRowEach
<1>2. ASSUME Operate \/ Others \/ (\E v \in Runs : Trigger(v)) \/ Age \/ UNCHANGED vars
      PROVE  current' = current
  <2> USE DEF runVars
  <2>1. CASE Operate
    BY <2>1 DEF Operate, Pause, ArmCanary, ActivationCheck, ActivationRecheck,
                ActivateNormal, Arm, RecoverOverdue
  <2>2. CASE Others
    BY <2>2 DEF Others, ComeDue, Reschedule, Remove, RetryClaim, RetrySettle
  <2>3. CASE (\E v \in Runs : Trigger(v)) \/ Age \/ UNCHANGED vars
    BY <2>3 DEF Trigger, Age, vars
  <2> QED BY <1>2, <2>1, <2>2, <2>3
<1>3. CASE Evict
  BY <1>0, <1>3 DEF Evict
<1> QED BY <1>0, <1>1, <1>2, <1>3 DEF Next

\* A step that leaves the rows alone and claims none.
LEMMA RowsLetGo ==
  ASSUME row' = row, heldOf' \subseteq heldOf PROVE Rows!Next
BY DEF Rows!Next, Rows!LetGo

\* Who holds what changes only with the runs and the retries.
LEMMA HeldKept ==
  ASSUME UNCHANGED <<retrying, current>> PROVE heldOf' = heldOf
BY DEF heldOf

\* A run that moves on to another current row, or to none.
LEMMA HeldMoves ==
  ASSUME NEW v \in Runs, retrying' = retrying,
         \A r \in Runs \ {v} : current'[r] = current[r]
  PROVE  /\ heldOf' \subseteq heldOf \cup current'[v]
         /\ current'[v] \subseteq heldOf'
         /\ heldOf \subseteq heldOf' \cup current[v]
BY DEF heldOf

\* A claim, by a run or by a retry.
LEMMA ClaimRows ==
  ASSUME Inv, NEW p \in Posts, ClaimableRow(p), ClaimRow(p), heldOf' = heldOf \cup {p}
  PROVE  Rows!Next
<1>1. Rows!Becomes({p}, IF row[p] = "retired" THEN "withdrawn" ELSE "posting")
  BY DEF ClaimRow, Rows!Becomes, Inv, TypeOK
<1>2. Rows!Claim(p)
  BY <1>1 DEF ClaimableRow, Rows!Claim, Rows!Claimable
<1> QED BY <1>2 DEF Rows!Next

\* A holder settles its row and lets go of it.
LEMMA SettleRows ==
  ASSUME Inv, NEW p \in Posts, p \in heldOf, SettleRow(p), heldOf' \in {heldOf, heldOf \ {p}}
  PROVE  Rows!Next
<1>1. CASE row' = row
  BY <1>1, RowsLetGo
<1>2. CASE row' # row
  <2>1. row[p] # "gone" /\ row' = [row EXCEPT ![p] = "posted"]
    BY <1>2 DEF SettleRow, Inv, TypeOK
  <2>2. Rows!Settle(p)
    BY <2>1 DEF Rows!Settle, Rows!Becomes, Inv, TypeOK
  <2> QED BY <2>2 DEF Rows!Next
<1> QED BY <1>1, <1>2

LEMMA RowsRefine == Inv /\ OneRowEach /\ [Next]_vars => [Rows!Next]_(Rows!rowsVars)
<1> SUFFICES ASSUME Inv, OneRowEach, [Next]_vars PROVE Rows!Next
  OBVIOUS
<1>typ. /\ row \in [Posts -> RowStatus] /\ retrying \subseteq Posts
        /\ current \in [Runs -> SUBSET Posts]
  BY DEF Inv, TypeOK
<1>1. ASSUME UNCHANGED <<row, retrying, current>> PROVE Rows!Next
  BY <1>1, HeldKept, RowsLetGo
<1>2. CASE Operate
  <2>1. ASSUME NEW S \in SUBSET Posts, NEW R \in SUBSET Posts, RecoverOverdue(S, R)
        PROVE  Rows!Next
    <3>1. heldOf' = heldOf
      BY <2>1, HeldKept DEF RecoverOverdue, runVars
    <3>2. Rows!Recover(S, R)
      BY <2>1, <3>1 DEF RecoverOverdue, Overdue, Rows!Recover
    <3> QED BY <3>2 DEF Rows!Next
  <2>2. CASE ~\E S, R \in SUBSET Posts : RecoverOverdue(S, R)
    BY <1>1, <1>2, <2>2 DEF Operate, Pause, ArmCanary, ActivationCheck, ActivationRecheck,
                            ActivateNormal, Arm, rowVars, runVars
  <2> QED BY <2>1, <2>2
<1>3. CASE Others
  <2>1. PICK p \in Posts : ComeDue(p) \/ Reschedule(p) \/ Remove(p) \/ RetryClaim(p) \/ RetrySettle(p)
    BY <1>3 DEF Others
  <2>2. CASE ComeDue(p) \/ Reschedule(p) \/ Remove(p)
    <3>1. heldOf' = heldOf
      BY <2>2, HeldKept DEF ComeDue, Reschedule, Remove, runVars
    <3>2. Rows!ComeDue({p}) \/ Rows!Reschedule(p) \/ Rows!Remove({p})
      BY <2>2, <3>1, <1>typ DEF ComeDue, Reschedule, Remove, ClaimableRow, Rows!ComeDue,
         Rows!Reschedule, Rows!Remove, Rows!Becomes, Rows!Claimable
    <3> QED BY <3>2 DEF Rows!Next
  <2>3. CASE RetryClaim(p)
    <3>1. heldOf' = heldOf \cup {p}
      BY <2>3 DEF RetryClaim, runVars, heldOf
    <3> QED BY <2>3, <3>1, ClaimRows DEF RetryClaim
  <2>4. CASE RetrySettle(p)
    <3>1. p \in heldOf /\ heldOf' \in {heldOf, heldOf \ {p}}
      BY <2>4 DEF RetrySettle, runVars, heldOf
    <3> QED BY <2>4, <3>1, SettleRows DEF RetrySettle
  <2> QED BY <2>1, <2>2, <2>3, <2>4
<1>4. ASSUME NEW v \in Runs, RunSteps(v) PROVE Rows!Next
  <2>1. CASE CheckOverdue(v) \/ Select(v) \/ Inspect(v) \/ Conclude(v)
    BY <2>1, <1>1 DEF CheckOverdue, Select, Inspect, Conclude, rowVars
  <2>2. ASSUME NEW p \in Posts, Attempt(v, p) PROVE Rows!Next
    <3>1. CASE UNCHANGED <<row, current>>
      BY <2>2, <3>1, <1>1 DEF Attempt
    <3>2. CASE /\ ClaimableRow(p) /\ ClaimRow(p)
               /\ current' = [current EXCEPT ![v] = {p}]
      <4>1. current[v] = {} /\ retrying' = retrying
        BY <2>2 DEF Attempt
      <4>2. current'[v] = {p} /\ \A r \in Runs \ {v} : current'[r] = current[r]
        BY <3>2, <1>typ
      <4>3. heldOf' = heldOf \cup {p}
        BY <4>1, <4>2, HeldMoves
      <4> QED BY <3>2, <4>3, ClaimRows
    <3> QED BY <2>2, <3>1, <3>2 DEF Attempt
  <2>3. CASE Settle(v)
    <3>1. PICK p \in current[v] : SettleRow(p)
      BY <2>3 DEF Settle
    <3>2. /\ p \in Posts /\ current[v] = {p}
          /\ retrying' = retrying /\ current'[v] = {}
          /\ \A r \in Runs \ {v} : current'[r] = current[r]
      BY <2>3, <1>typ DEF Settle, OneRowEach
    <3>3. p \in heldOf
      BY <3>2 DEF heldOf
    <3>4. heldOf' \in {heldOf, heldOf \ {p}}
      <4>1. heldOf' \subseteq heldOf /\ heldOf \subseteq heldOf' \cup {p}
        BY <3>2, HeldMoves
      <4> QED BY <4>1
    <3> QED BY <3>1, <3>2, <3>3, <3>4, SettleRows
  <2>4. CASE Finish(v) \/ Fail(v)
    <3>1. /\ UNCHANGED <<row, retrying>>
          /\ current'[v] = {} /\ \A r \in Runs \ {v} : current'[r] = current[r]
      BY <2>4, <1>typ DEF Finish, Fail, EndRun, rowVars
    <3>2. heldOf' \subseteq heldOf
      BY <3>1, HeldMoves
    <3> QED BY <3>1, <3>2, RowsLetGo
  <2> QED BY <1>4, <2>1, <2>2, <2>3, <2>4 DEF RunSteps
<1>5. CASE Evict
  <2>1. UNCHANGED <<row, retrying>> /\ current' = [r \in Runs |-> {}]
    BY <1>5 DEF Evict, rowVars
  <2>2. heldOf' \subseteq heldOf
    BY <2>1 DEF heldOf
  <2> QED BY <2>1, <2>2, RowsLetGo
<1>6. CASE (\E v \in Runs : Trigger(v)) \/ Age \/ UNCHANGED vars
  BY <1>1, <1>6 DEF Trigger, Age, vars, rowVars, runVars
<1> QED BY <1>2, <1>3, <1>4, <1>5, <1>6 DEF Next

\* The scheduler's view of the rows is that of PostRows, which delivery
\* implements: it relies on nothing that a statement of the delivery could break.
THEOREM SchedulerImplementsRows == Spec => Rows!Spec
<1>1. Init => Rows!Init /\ OneRowEach
  BY DEF Init, Rows!Init, heldOf, OneRowEach
<1> QED BY <1>1, RunsHoldWhatTheyMay, OneRowEachStep, RowsRefine, PTL DEF Spec, Rows!Spec
=============================================================================
