-------------------------- MODULE HardeningIncidents --------------------------
(***************************************************************************)
(* The incidents of continuous hardening (recordHardeningIncident and its  *)
(* neighbours in lensically-worker/src/index.ts, with the transitions of   *)
(* mandatoryExecutionMap.ts): how a failure opens an incident or is filed  *)
(* under one, and the five ways in which an incident closes.               *)
(*                                                                         *)
(* A step is one statement or one DB.batch on the database; anything may   *)
(* run between two steps.                                                  *)
(***************************************************************************)
EXTENDS Naturals, FiniteSets

CONSTANTS
  Incidents,     \* ids of rows of operator_hardening_incidents
  Failures,      \* what can go wrong
  Signature,     \* [Failures -> ...]: hash of boundary, profile, category, fingerprint
  Route,         \* [Failures -> ...]: the recurrence family and, where it counts, the route
  Request,       \* [Failures -> ...]: fingerprint of the failed request, or NoRequest
  Client,        \* failures of boundary 'client'
  Provider,      \* ... of the family client:openai_safety_predispatch
  Unreceived,    \* ... whose observation proves that nothing was received
  Efficiency,    \* failures of boundary 'efficiency'
  ExpectedEmpty, \* failures that an earlier release took for one
  Rules,         \* prevention rule ids
  PromotedRules, \* those that are active winning paths
  Convergence,   \* openai_predispatch_external_recurrence_convergence
  EmptyStateRule,\* expected-control-active-review-batch-not-found
  Offers,        \* the sets of evidence a call may bring or blank
  Calls,         \* tool calls through the dispatcher
  Operators,     \* calls of advanceHardeningIncident and getHardeningStatus
  CronRuns,      \* runs of closeExactRuntimeResumedHardeningIncidents
  BatchSize,     \* its LIMIT
  MaxCrashes     \* bound on evictions

NoIncident == "no incident"
NoRequest == "no request"
NoRule == "no rule"

\* Positions in HARDENING_STATE_ORDER; 0 stands for no row.
Absent == 0
Detected == 1
Generalized == 5
PreventionLocked == 7
Validated == 8
Released == 9
LiveVerified == 10
Resumed == 11
Closed == 12
States == Detected..Closed

\* "cause" stands for root_cause and generalized_cause, demanded together.
Kinds == {"cause", "tests", "sha", "deployment", "live", "resume", "dividend"}

ASSUME IncidentsAssumption == NoIncident \notin Incidents
ASSUME FailuresAssumption ==
  /\ Failures # {}
  /\ Provider \subseteq Client
  /\ Client \subseteq Failures
ASSUME RulesAssumption ==
  /\ NoRule \notin Rules
  /\ PromotedRules \subseteq Rules
  /\ Convergence \in PromotedRules
  /\ EmptyStateRule \in Rules
ASSUME OffersAssumption == Offers \subseteq SUBSET Kinds
ASSUME CallersAssumption == (Calls \cup Operators) \cap CronRuns = {}
ASSUME BoundsAssumption == BatchSize \in Nat \ {0} /\ MaxCrashes \in Nat

Callers == Calls \cup Operators \cup CronRuns
MaybeIncident == Incidents \cup {NoIncident}
MaybeRule == Rules \cup {NoRule}

VARIABLES
  incident,  \* [Incidents -> Row]
  journal,   \* [Incidents -> SUBSET Event]: the transitions in operator_hardening_incident_events
  job,       \* [Callers -> Job]
  crashes,   \* evictions so far
  unseen,    \* [Incidents -> SUBSET Incidents]: history, see Insert
  lost       \* incidents of which an eviction took an event

vars == <<incident, journal, job, crashes, unseen, lost>>

\* How an incident was closed: the source its evidence names.
Sources == {"nobody", "lifecycle", "replay", "provider", "target", "expected"}

\* target is the incident that the blocked call was about (expected_json);
\* blocking is severity P0 or P1.
Row == [failure : Failures, target : MaybeIncident, blocking : BOOLEAN, state : {Absent} \cup States,
        evidence : SUBSET Kinds, rule : MaybeRule, closedBy : Sources]
NoRow == [failure |-> CHOOSE f \in Failures : TRUE, target |-> NoIncident, blocking |-> FALSE,
          state |-> Absent, evidence |-> {}, rule |-> NoRule, closedBy |-> "nobody"]

\* <<from_state, to_state>>; Absent stands for NULL.
Event == ({Absent} \cup States) \X States
DetectedEvent == <<Absent, Detected>>

\* What a caller has read and is about to write.  listed: incidents with the
\* state they were read in; known: the incidents a recorder saw, or those that a
\* reconciliation takes for the provider's.
Job == [step : {"idle", "unmatched", "new", "inserted", "closing",
                "advancing", "advanced", "listed", "anchored", "grounded", "sweeping"},
        failure : Failures, target : MaybeIncident, blocking : BOOLEAN, at : MaybeIncident,
        from : {Absent} \cup States, evidence : SUBSET Kinds, rule : MaybeRule,
        listed : SUBSET (Incidents \X States), known : SUBSET Incidents]
NoJob == [step |-> "idle", failure |-> CHOOSE f \in Failures : TRUE, target |-> NoIncident,
          blocking |-> FALSE, at |-> NoIncident, from |-> Absent, evidence |-> {}, rule |-> NoRule,
          listed |-> {}, known |-> {}]

TypeOK ==
  /\ incident \in [Incidents -> Row]
  /\ journal \in [Incidents -> SUBSET Event]
  /\ job \in [Callers -> Job]
  /\ crashes \in Nat
  /\ unseen \in [Incidents -> SUBSET Incidents]
  /\ lost \subseteq Incidents

Init ==
  /\ incident = [i \in Incidents |-> NoRow]
  /\ journal = [i \in Incidents |-> {}]
  /\ job = [c \in Callers |-> NoJob]
  /\ crashes = 0
  /\ unseen = [i \in Incidents |-> {}]
  /\ lost = {}

Exists(i) == incident[i].state # Absent
Open(i) == incident[i].state \in Detected..Resumed
IsClosed(i) == incident[i].state = Closed

Goto(c, step) == job' = [job EXCEPT ![c].step = step]
End(c) == job' = [job EXCEPT ![c] = NoJob]

-----------------------------------------------------------------------------
(***************************************************************************)
(* recordHardeningIncident.                                                *)
(***************************************************************************)
\* An open incident of the same signature takes the failure as a repeat, which
\* changes its classification only: no step here.
TakenAsRepeat(f) ==
  \E i \in Incidents : Open(i) /\ Signature[incident[i].failure] = Signature[f]

Fail(c, f, t) ==
  /\ c \in Calls
  /\ job[c].step = "idle"
  /\ ~TakenAsRepeat(f)
  /\ t # NoIncident => f \in Client /\ Exists(t)
  /\ job' = [job EXCEPT ![c].step = "unmatched", ![c].failure = f, ![c].target = t]
  /\ UNCHANGED <<incident, journal, crashes, unseen, lost>>

\* The JOIN finds an incident by its first event.
Visible(i) == DetectedEvent \in journal[i]
Related(i, f) == Visible(i) /\ Route[incident[i].failure] = Route[f]

\* A failure of the provider that a closed incident of the family handles.
Handled(f) ==
  /\ f \in Provider
  /\ \E i \in Incidents : /\ Visible(i) /\ IsClosed(i)
                          /\ incident[i].failure \in Provider
                          /\ incident[i].rule = Convergence

\* A related open incident takes the failure.
\* Broken: only those of its own signature.
TakenExactly(f) ==
  \E i \in Incidents : Visible(i) /\ Open(i) /\ Signature[incident[i].failure] = Signature[f]
Taken(f) == \E i \in Incidents : Related(i, f) /\ Open(i)

\* A repeat of what a rule had resolved is a prevention regression.
Regression(f) == \E i \in Incidents : Related(i, f) /\ IsClosed(i) /\ incident[i].rule # NoRule

LookFamily(c) ==
  LET f == job[c].failure IN
  /\ job[c].step = "unmatched"
  /\ IF Taken(f) \/ Handled(f)
     THEN End(c)
     ELSE job' = [job EXCEPT ![c].step = "new", ![c].blocking = f \notin Efficiency \/ Regression(f),
                             ![c].known = {i \in Incidents : Visible(i)}]
  /\ UNCHANGED <<incident, journal, crashes, unseen, lost>>

\* UNIQUE(signature) WHERE state <> 'closed': the call fails.
Collide(c) ==
  /\ job[c].step = "new"
  /\ TakenAsRepeat(job[c].failure)
  /\ End(c)
  /\ UNCHANGED <<incident, journal, crashes, unseen, lost>>

\* unseen: the incidents that the recorder could not have found.
Insert(c, i) ==
  /\ job[c].step = "new"
  /\ ~Exists(i)
  /\ ~TakenAsRepeat(job[c].failure)
  /\ incident' = [incident EXCEPT ![i] = [NoRow EXCEPT !.failure = job[c].failure, !.target = job[c].target,
                                                       !.blocking = job[c].blocking, !.state = Detected]]
  /\ unseen' = [unseen EXCEPT ![i] = {j \in Incidents : Exists(j)} \ job[c].known]
  /\ job' = [job EXCEPT ![c] = [NoJob EXCEPT !.step = "inserted", !.at = i]]
  /\ UNCHANGED <<journal, crashes, lost>>

NoteDetected(c) ==
  /\ job[c].step = "inserted"
  /\ journal' = [journal EXCEPT ![job[c].at] = @ \cup {DetectedEvent}]
  /\ End(c)
  /\ UNCHANGED <<incident, crashes, unseen, lost>>

-----------------------------------------------------------------------------
(***************************************************************************)
(* closeResolvedHardeningIncidentsForRequest: the request of failure f has *)
(* succeeded, or failed in an expected way.                                *)
(***************************************************************************)
Succeed(c, f) ==
  LET found == {i \in Incidents : Open(i) /\ Request[incident[i].failure] = Request[f]} IN
  /\ c \in Calls
  /\ job[c].step = "idle"
  /\ Request[f] # NoRequest
  /\ found # {}
  /\ job' = [job EXCEPT ![c].step = "closing", ![c].listed = {<<i, incident[i].state>> : i \in found}]
  /\ UNCHANGED <<incident, journal, crashes, unseen, lost>>

\* The event is written whether or not the UPDATE found the incident open.
CloseReplayed(c, e) ==
  LET row == incident[e[1]] IN
  /\ job[c].step = "closing"
  /\ e \in job[c].listed
  /\ incident' = IF Open(e[1])
                 THEN [incident EXCEPT ![e[1]] = [row EXCEPT !.state = Closed, !.closedBy = "replay",
                         !.evidence = @ \cup {"sha", "deployment", "live", "resume"}]]
                 ELSE incident
  /\ journal' = [journal EXCEPT ![e[1]] = @ \cup {<<e[2], Closed>>}]
  /\ IF job[c].listed = {e} THEN End(c) ELSE job' = [job EXCEPT ![c].listed = @ \ {e}]
  /\ UNCHANGED <<crashes, unseen, lost>>

-----------------------------------------------------------------------------
(***************************************************************************)
(* advanceHardeningIncident.                                               *)
(***************************************************************************)
\* validateHardeningTransition: the evidence that a state asks for.
FirstAsked == [cause |-> Generalized, tests |-> Validated, sha |-> Released, deployment |-> LiveVerified,
               live |-> Resumed, resume |-> Closed, dividend |-> Closed]
Required(s) == {k \in Kinds : FirstAsked[k] <= s}

\* Broken: the rule need not be promoted.
ProvenByAnyRule(s, evidence, rule) ==
  /\ Required(s) \subseteq evidence
  /\ s >= PreventionLocked => rule # NoRule
Proven(s, evidence, rule) ==
  /\ Required(s) \subseteq evidence
  /\ s >= PreventionLocked => rule \in PromotedRules

\* The row's evidence is read; what the call brings replaces it.  A transition
\* that is not allowed ends the call.
ReadForAdvance(c, i, brought, blanked, rule) ==
  LET evidence == (incident[i].evidence \ blanked) \cup brought IN
  /\ c \in Operators
  /\ job[c].step = "idle"
  /\ Open(i)
  /\ Proven(incident[i].state + 1, evidence, rule)
  /\ job' = [job EXCEPT ![c].step = "advancing", ![c].at = i, ![c].from = incident[i].state,
                        ![c].evidence = evidence, ![c].rule = rule]
  /\ UNCHANGED <<incident, journal, crashes, unseen, lost>>

\* Broken: UPDATE ... WHERE id = ?
WriteStateUnchecked(c) ==
  LET j == job[c] IN
  /\ j.step = "advancing"
  /\ incident' = [incident EXCEPT ![j.at] = [@ EXCEPT !.state = j.from + 1, !.evidence = j.evidence, !.rule = j.rule,
                    !.closedBy = IF j.from + 1 = Closed THEN "lifecycle" ELSE "nobody"]]
  /\ Goto(c, "advanced")
  /\ UNCHANGED <<journal, crashes, unseen, lost>>
\* UPDATE ... WHERE id = ? AND state = ?: it may match nothing; the call goes on.
WriteState(c) ==
  LET j == job[c] IN
  /\ j.step = "advancing"
  /\ incident' = IF incident[j.at].state # j.from THEN incident
                 ELSE [incident EXCEPT ![j.at] = [@ EXCEPT !.state = j.from + 1, !.evidence = j.evidence,
                         !.rule = j.rule, !.closedBy = IF j.from + 1 = Closed THEN "lifecycle" ELSE "nobody"]]
  /\ Goto(c, "advanced")
  /\ UNCHANGED <<journal, crashes, unseen, lost>>

\* Broken: the event of a repeat, which stays where it was.
RepeatEvent(c) == <<job[c].from, job[c].from>>
AdvanceEvent(c) == <<job[c].from, job[c].from + 1>>

\* A sweep goes on to its next incident.
NoteAdvance(c) ==
  /\ job[c].step = "advanced"
  /\ journal' = [journal EXCEPT ![job[c].at] = @ \cup {AdvanceEvent(c)}]
  /\ IF job[c].listed = {}
     THEN End(c)
     ELSE job' = [job EXCEPT ![c] = [NoJob EXCEPT !.step = "sweeping", !.listed = job[c].listed]]
  /\ UNCHANGED <<incident, crashes, unseen, lost>>

-----------------------------------------------------------------------------
(***************************************************************************)
(* reconcileSatisfiedClientPredispatchHardeningIncidents, at every         *)
(* getHardeningStatus.                                                     *)
(***************************************************************************)
\* The family of a candidate without its first event is told by the message it
\* observed, or not.
ListClient(c, told) ==
  LET found == {i \in Incidents : Open(i) /\ incident[i].failure \in Client /\ incident[i].blocking} IN
  /\ c \in Operators
  /\ job[c].step = "idle"
  /\ found # {}
  /\ told \subseteq {i \in found : ~Visible(i)}
  /\ job' = [job EXCEPT ![c].step = "listed", ![c].listed = {<<i, incident[i].state>> : i \in found},
       ![c].known = {i \in found : incident[i].failure \in Provider /\ (Visible(i) \/ i \in told)}]
  /\ UNCHANGED <<incident, journal, crashes, unseen, lost>>

\* A closed incident with the rule and the proof of a release.
IsAnchor(i) ==
  /\ IsClosed(i)
  /\ incident[i].rule = Convergence
  /\ {"sha", "deployment"} \subseteq incident[i].evidence

FindAnchor(c) ==
  /\ job[c].step = "listed"
  /\ IF \E i \in Incidents : IsAnchor(i)
     THEN Goto(c, "anchored")
     ELSE job' = [job EXCEPT ![c].step = "anchored", ![c].known = {}]
  /\ UNCHANGED <<incident, journal, crashes, unseen, lost>>

\* Broken: a target that has come as far as its release counts as closed.
TargetReleased(i) ==
  LET t == incident[i].target IN t # NoIncident /\ t # i /\ incident[t].state >= Released
TargetClosed(i) == LET t == incident[i].target IN t # NoIncident /\ t # i /\ IsClosed(t)

\* The states of the targets are read, and it is decided what to close.
FindTargets(c) ==
  LET grounded == {e \in job[c].listed : /\ incident[e[1]].failure \in Unreceived
                                         /\ e[1] \in job[c].known \/ TargetClosed(e[1])}
  IN
  /\ job[c].step = "anchored"
  /\ IF grounded = {} THEN End(c) ELSE job' = [job EXCEPT ![c].step = "grounded", ![c].listed = grounded]
  /\ UNCHANGED <<incident, journal, crashes, unseen, lost>>

\* One batch for all; each UPDATE asks for the state that was read, and every
\* event is written.
CloseReconciled(c) ==
  LET closing == {i \in Incidents : <<i, incident[i].state>> \in job[c].listed} IN
  /\ job[c].step = "grounded"
  /\ incident' = [i \in Incidents |->
       IF i \in closing
       THEN [incident[i] EXCEPT !.state = Closed, !.evidence = Kinds, !.rule = Convergence,
                                !.closedBy = IF i \in job[c].known THEN "provider" ELSE "target"]
       ELSE incident[i]]
  /\ journal' = [i \in Incidents |-> journal[i] \cup {<<e[2], Closed>> : e \in {d \in job[c].listed : d[1] = i}}]
  /\ End(c)
  /\ UNCHANGED <<crashes, unseen, lost>>

-----------------------------------------------------------------------------
(***************************************************************************)
(* closeExactRuntimeResumedHardeningIncidents, at every cron trigger.      *)
(***************************************************************************)
\* Broken: one stage too early.
ReadyTooEarly == {i \in Incidents : /\ incident[i].state = LiveVerified /\ incident[i].blocking
                                    /\ {"sha", "deployment"} \subseteq incident[i].evidence}
Ready == {i \in Incidents : /\ incident[i].state = Resumed /\ incident[i].blocking
                            /\ {"sha", "deployment"} \subseteq incident[i].evidence}

Sweep(c, batch) ==
  /\ c \in CronRuns
  /\ job[c].step = "idle"
  /\ batch # {}
  /\ batch \subseteq Ready
  /\ \/ batch = Ready /\ Cardinality(Ready) <= BatchSize
     \/ Cardinality(batch) = BatchSize
  /\ job' = [job EXCEPT ![c].step = "sweeping", ![c].listed = {<<i, Resumed>> : i \in batch}]
  /\ UNCHANGED <<incident, journal, crashes, unseen, lost>>

\* The row is read again by advanceHardeningIncident; what is closed already or
\* lacks evidence is passed over.
SweepOne(c, e) ==
  LET evidence == incident[e[1]].evidence \cup {"resume", "dividend"}
      rest     == job[c].listed \ {e}
  IN
  /\ job[c].step = "sweeping"
  /\ e \in job[c].listed
  /\ IF incident[e[1]].state = Resumed /\ Proven(Closed, evidence, incident[e[1]].rule)
     THEN job' = [job EXCEPT ![c].step = "advancing", ![c].at = e[1], ![c].from = Resumed,
                             ![c].evidence = evidence, ![c].rule = incident[e[1]].rule, ![c].listed = rest]
     ELSE IF rest = {} THEN End(c) ELSE job' = [job EXCEPT ![c].listed = rest]
  /\ UNCHANGED <<incident, journal, crashes, unseen, lost>>

-----------------------------------------------------------------------------
(***************************************************************************)
(* ensureOperatorMcpAdminTables, at the first call of an isolate: one      *)
(* UPDATE, without an event.                                               *)
(***************************************************************************)
CleanUp ==
  LET found == {i \in Incidents : Open(i) /\ incident[i].failure \in ExpectedEmpty} IN
  /\ found # {}
  /\ incident' = [i \in Incidents |->
       IF i \in found
       THEN [incident[i] EXCEPT !.state = Closed, !.evidence = @ \cup {"cause", "live", "resume"},
               !.rule = IF @ = NoRule THEN EmptyStateRule ELSE @, !.closedBy = "expected"]
       ELSE incident[i]]
  /\ UNCHANGED <<journal, job, crashes, unseen, lost>>

\* An eviction or a failed statement ends a call.
Crash(c) ==
  /\ job[c].step # "idle"
  /\ crashes < MaxCrashes
  /\ crashes' = crashes + 1
  /\ lost' = IF job[c].step \in {"inserted", "advanced"} THEN lost \cup {job[c].at} ELSE lost
  /\ End(c)
  /\ UNCHANGED <<incident, journal, unseen>>

Record(c) ==
  \/ \E f \in Failures, t \in MaybeIncident : Fail(c, f, t)
  \/ LookFamily(c)
  \/ Collide(c)
  \/ \E i \in Incidents : Insert(c, i)
  \/ NoteDetected(c)
Resolve(c) ==
  \/ \E f \in Failures : Succeed(c, f)
  \/ \E e \in job[c].listed : CloseReplayed(c, e)
Advance(c) ==
  \/ \E i \in Incidents, brought, blanked \in Offers :
       \E rule \in MaybeRule : ReadForAdvance(c, i, brought, blanked, rule)
  \/ WriteState(c)
  \/ NoteAdvance(c)
Reconcile(c) ==
  \/ \E told \in SUBSET Incidents : ListClient(c, told)
  \/ FindAnchor(c)
  \/ FindTargets(c)
  \/ CloseReconciled(c)
SweepStep(c) ==
  \/ \E batch \in SUBSET Incidents : Sweep(c, batch)
  \/ \E e \in job[c].listed : SweepOne(c, e)

Next ==
  \/ \E c \in Callers : \/ Record(c)
                        \/ Resolve(c)
                        \/ Advance(c)
                        \/ Reconcile(c)
                        \/ SweepStep(c)
                        \/ Crash(c)
  \/ CleanUp

Spec == Init /\ [][Next]_vars

\* The cron triggers come again and again and a run that is not evicted goes on.
Fairness == \A c \in CronRuns : WF_vars(SweepStep(c) \/ WriteState(c) \/ NoteAdvance(c))
FairSpec == Spec /\ Fairness

-----------------------------------------------------------------------------
(***************************************************************************)
(* Properties.                                                             *)
(***************************************************************************)
\* A failure class has one open incident: two that are open are related only if
\* neither recorder could have found the other's (it looked before the other's
\* first event was written), and never of one signature.
OneOpenPerRoute ==
  \A i, j \in Incidents :
    i # j /\ Open(i) /\ Open(j) /\ Route[incident[i].failure] = Route[incident[j].failure]
    => /\ Signature[incident[i].failure] # Signature[incident[j].failure]
       /\ i \in unseen[j] \/ j \in unseen[i]

\* Whatever stale states calls act on, the journal tells of no stage that the
\* incident has not reached; but a reconciliation that an advance overtook leaves
\* the event of a closing that did not happen.
JournalNotAhead ==
  \A i \in Incidents : \A e \in journal[i] :
    e[2] <= incident[i].state \/ (e[2] = Closed /\ incident[i].failure \in Client)

Pending(i) == \E c \in Callers : job[c].at = i /\ job[c].step \in {"inserted", "advanced"}

\* The journal of an incident that is open or was closed by its lifecycle has
\* every stage on the way, once the calls at work on it have written their events
\* and unless an eviction took one.
JournalComplete ==
  \A i \in Incidents \ lost :
    incident[i].closedBy \in {"nobody", "lifecycle"} /\ ~Pending(i)
    => \A s \in States : s <= incident[i].state => <<s - 1, s>> \in journal[i]

\* An incident that the lifecycle or a reconciliation closed carries all the
\* evidence that the stages ask for and a promoted rule, however calls overlapped.
ClosedIsProven ==
  \A i \in Incidents :
    IsClosed(i) /\ incident[i].closedBy \in {"lifecycle", "provider", "target"}
    => Kinds \subseteq incident[i].evidence /\ incident[i].rule \in PromotedRules

\* A reconciliation closed an incident on a ground that still stands: its target
\* is closed, or another incident is, with the provider's rule and its proof.
ReconciledHasGround ==
  \A i \in Incidents :
    /\ incident[i].closedBy = "target" => incident[i].target \in {j \in Incidents \ {i} : IsClosed(j)}
    /\ incident[i].closedBy = "provider" => \E j \in Incidents \ {i} : IsAnchor(j)

\* Stages are passed one at a time or skipped by closing; a closed incident is
\* never opened again and what it was closed with is never overwritten (a repeat
\* that saw it open may still change its classification).
MovesForward ==
  [][\A i \in Incidents :
       /\ IsClosed(i) => incident'[i] = incident[i]
       /\ incident'[i].state \in {incident[i].state, incident[i].state + 1, Closed}]_vars

\* A blocking incident whose work has resumed is closed in the end without the
\* operator.
ResumedIsClosed ==
  \A i \in Incidents :
    (incident[i].state = Resumed /\ incident[i].blocking) ~> IsClosed(i)
=============================================================================
