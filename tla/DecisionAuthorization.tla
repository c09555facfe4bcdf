------------------------ MODULE DecisionAuthorization ------------------------
(***************************************************************************)
(* Owner decisions that authorize protected operator tools                 *)
(* (lensically-worker/src/index.ts): the rows of                           *)
(* operator_decision_proposals, the execution events counted against their *)
(* budgets, the tool calls that ask for authority, and the cron that       *)
(* activates approved canaries by itself.                                  *)
(*                                                                         *)
(* A step is one statement on the database, the tool's effect, or the      *)
(* request to the scheduler object; anything may run between two steps.    *)
(***************************************************************************)
EXTENDS Naturals, FiniteSets

CONSTANTS
  Decisions,     \* ids of decision rows
  Tools,         \* protected tools
  CanaryTool,    \* setScheduledPostSchedulerMode
  Budget,        \* [Decisions -> [Tools -> Nat]]: executions, 0 = not authorized
  Calls,         \* tool calls through the dispatcher
  Owners,        \* calls of the owner's tools
  CronRuns,      \* runs of activateNextApprovedScheduledPostCanary
  ListLimit,     \* decisions one of these runs looks at
  MaxApprovals   \* bound on the approvals of one decision

NoDecision == "no decision"

ASSUME DecisionsAssumption == NoDecision \notin Decisions
ASSUME ToolsAssumption == CanaryTool \in Tools
ASSUME BudgetAssumption == Budget \in [Decisions -> [Tools -> Nat]]
ASSUME CallersAssumption == Calls \cap CronRuns = {}
ASSUME LimitAssumption == ListLimit \in Nat \ {0}
ASSUME BoundAssumption == MaxApprovals \in Nat

Callers == Calls \cup CronRuns

VARIABLES
  decision,     \* [Decisions -> Status]
  ratified,     \* decisions with proposed_by = 'owner_via_model'
  request,      \* [Owners -> Request]: an owner's tool between check and write
  approvals,    \* [Decisions -> Nat]: approvals written so far
  older,        \* [Decisions -> SUBSET Decisions]: approved before, by approved_at
  calls,        \* [Decisions -> [Tools -> Nat]]: event rows that calls inserted
  activations,  \* [Decisions -> Nat]: event rows that the cron inserted
  failures,     \* [Decisions -> Nat]: those of the canary tool marked failed
  stuck,        \* decisions with a 'started' event whose caller is gone
  contested,    \* decisions of which two callers were in a window at once
  deliverable,  \* decisions whose scheduled post is approved and unpublished
  pc,           \* [Callers -> Step]
  todo,         \* [Callers -> SUBSET Decisions]: listed, not yet considered
  at,           \* [Callers -> Decisions \cup {NoDecision}]
  tool          \* [Callers -> Tools]

ownerVars  == <<ratified, request, approvals, older>>
eventVars  == <<calls, activations, failures, stuck, contested>>
callerVars == <<pc, todo, at, tool>>
vars == <<decision, ownerVars, eventVars, deliverable, callerVars>>

Status == {"absent", "proposed", "approved", "rejected", "revision_required",
           "executing", "executed", "superseded"}
\* The statuses that authorize.
Open == {"approved", "executing"}
Answer == {"approve", "reject", "revise"}
\* resolveOperatorDecision with its answer; markOperatorDecisionExecuted before
\* and after it has counted the started events.
Request == [step : {"idle", "mark", "marked"} \cup Answer,
            of : Decisions \cup {NoDecision}]
NoRequest == [step |-> "idle", of |-> NoDecision]

\* "considered" has read the counts, "ratified" has inserted its own decision,
\* "marked" (cron) has set 'executing', "noted" has inserted its event,
\* "settled" has recorded the outcome, "closing" has counted no other event.
Step == {"idle", "listed", "considered", "ratified", "marked", "noted",
         "executing", "armed", "refused", "settled", "returned", "closing"}

\* The steps of a caller whose event is still 'started'.
Running == {"noted", "executing", "armed", "refused"}

TypeOK ==
  /\ decision \in [Decisions -> Status]
  /\ ratified \subseteq Decisions
  /\ request \in [Owners -> Request]
  /\ approvals \in [Decisions -> Nat]
  /\ older \in [Decisions -> SUBSET Decisions]
  /\ calls \in [Decisions -> [Tools -> Nat]]
  /\ activations \in [Decisions -> Nat]
  /\ failures \in [Decisions -> Nat]
  /\ stuck \subseteq Decisions
  /\ contested \subseteq Decisions
  /\ deliverable \subseteq Decisions
  /\ pc \in [Callers -> Step]
  /\ todo \in [Callers -> SUBSET Decisions]
  /\ at \in [Callers -> Decisions \cup {NoDecision}]
  /\ tool \in [Callers -> Tools]

Init ==
  /\ decision = [d \in Decisions |-> "absent"]
  /\ ratified = {}
  /\ request = [o \in Owners |-> NoRequest]
  /\ approvals = [d \in Decisions |-> 0]
  /\ older = [d \in Decisions |-> {}]
  /\ calls = [d \in Decisions |-> [t \in Tools |-> 0]]
  /\ activations = [d \in Decisions |-> 0]
  /\ failures = [d \in Decisions |-> 0]
  /\ stuck = {}
  /\ contested = {}
  /\ deliverable = {d \in Decisions : Budget[d][CanaryTool] > 0}
  /\ pc = [c \in Callers |-> "idle"]
  /\ todo = [c \in Callers |-> {}]
  /\ at = [c \in Callers |-> NoDecision]
  /\ tool = [c \in Callers |-> CanaryTool]

-----------------------------------------------------------------------------
(***************************************************************************)
(* The events of a decision.                                               *)
(***************************************************************************)
Events(d, t) == calls[d][t] + (IF t = CanaryTool THEN activations[d] ELSE 0)

\* SELECT COUNT of 'started' events of a decision.
HasStarted(d) == d \in stuck \/ \E c \in Callers : at[c] = d /\ pc[c] \in Running

\* A caller between the read that lets it use d and the insert of its event:
\* a call re-reads the count of each decision, the cron works from its list.
InWindow(c, d) ==
  IF c \in CronRuns
  THEN d \in todo[c] \/ (at[c] = d /\ pc[c] \in {"considered", "marked"})
  ELSE at[c] = d /\ pc[c] \in {"considered", "ratified"}

Goto(c, step) == pc' = [pc EXCEPT ![c] = step]
Return(c) ==
  /\ Goto(c, "idle")
  /\ todo' = [todo EXCEPT ![c] = {}]
  /\ at' = [at EXCEPT ![c] = NoDecision]
  /\ UNCHANGED tool

-----------------------------------------------------------------------------
(***************************************************************************)
(* The owner's tools.                                                      *)
(***************************************************************************)
Propose(d) ==
  /\ decision[d] = "absent"
  /\ decision' = [decision EXCEPT ![d] = "proposed"]
  /\ UNCHANGED <<ownerVars, eventVars, deliverable, callerVars>>

\* A later proposal supersedes d, by a statement before its own insert.
Supersede(d) ==
  /\ decision[d] \notin {"absent", "executed"}
  /\ decision' = [decision EXCEPT ![d] = "superseded"]
  /\ UNCHANGED <<ownerVars, eventVars, deliverable, callerVars>>

\* resolveOperatorDecision reads the status, then writes by id alone.
ResolveCheck(o, d, answer) ==
  /\ request[o] = NoRequest
  /\ decision[d] \notin {"absent", "executed", "superseded"}
  /\ answer = "approve" => approvals[d] < MaxApprovals
  /\ request' = [request EXCEPT ![o] = [step |-> answer, of |-> d]]
  /\ UNCHANGED <<decision, ratified, approvals, older, eventVars, deliverable, callerVars>>

Resolution(answer) == CASE answer = "approve" -> "approved"
                        [] answer = "reject"  -> "rejected"
                        [] OTHER              -> "revision_required"

\* A new approved_at puts d behind every row that is approved now; a row that is
\* not can only become approved by an approved_at of its own.
Approved == {d \in Decisions : decision[d] = "approved"}
StampApproval(d) ==
  older' = [e \in Decisions |-> IF e = d THEN Approved \ {d} ELSE older[e] \ {d}]

ResolveWrite(o) ==
  LET r == request[o] IN
  /\ r.step \in Answer
  /\ decision' = [decision EXCEPT ![r.of] = Resolution(r.step)]
  /\ IF r.step = "approve"
     THEN approvals' = [approvals EXCEPT ![r.of] = @ + 1] /\ StampApproval(r.of)
     ELSE UNCHANGED <<approvals, older>>
  /\ request' = [request EXCEPT ![o] = NoRequest]
  /\ UNCHANGED <<ratified, eventVars, deliverable, callerVars>>

\* markOperatorDecisionExecuted: read, count, write by id alone.
MarkCheck(o, d) ==
  /\ request[o] = NoRequest
  /\ decision[d] \in Open
  /\ request' = [request EXCEPT ![o] = [step |-> "mark", of |-> d]]
  /\ UNCHANGED <<decision, ratified, approvals, older, eventVars, deliverable, callerVars>>

MarkCount(o) ==
  /\ request[o].step = "mark"
  /\ request' = [request EXCEPT ![o] = IF HasStarted(@.of) THEN NoRequest
                                       ELSE [step |-> "marked", of |-> @.of]]
  /\ UNCHANGED <<decision, ratified, approvals, older, eventVars, deliverable, callerVars>>

MarkWrite(o) ==
  /\ request[o].step = "marked"
  /\ decision' = [decision EXCEPT ![request[o].of] = "executed"]
  /\ request' = [request EXCEPT ![o] = NoRequest]
  /\ UNCHANGED <<ratified, approvals, older, eventVars, deliverable, callerVars>>

\* The post of a canary decision is published, edited away or deleted.
DropPost(d) ==
  /\ d \in deliverable
  /\ deliverable' = deliverable \ {d}
  /\ UNCHANGED <<decision, ownerVars, eventVars, callerVars>>

-----------------------------------------------------------------------------
(***************************************************************************)
(* beginOperatorAutonomyAuthorization for a protected tool.                *)
(***************************************************************************)
\* With the owner's response in the arguments: a decision of its own.
Ratify(c, d, t) ==
  /\ c \in Calls
  /\ pc[c] = "idle"
  /\ decision[d] = "absent"
  /\ Budget[d] = [u \in Tools |-> IF u = t THEN 1 ELSE 0]
  /\ ratified' = ratified \cup {d}
  /\ decision' = [decision EXCEPT ![d] = "executing"]
  /\ approvals' = [approvals EXCEPT ![d] = @ + 1]
  /\ Goto(c, "ratified")
  /\ at' = [at EXCEPT ![c] = d]
  /\ tool' = [tool EXCEPT ![c] = t]
  /\ UNCHANGED <<request, older, eventVars, deliverable, todo>>

List(c, t) ==
  /\ c \in Calls
  /\ pc[c] = "idle"
  /\ Goto(c, "listed")
  /\ todo' = [todo EXCEPT ![c] = {d \in Decisions : decision[d] \in Open}]
  /\ tool' = [tool EXCEPT ![c] = t]
  /\ UNCHANGED <<decision, ownerVars, eventVars, deliverable, at>>

\* Broken: one execution too many.
WithinBudgetPlusOne(d, t) == Budget[d][t] > 0 /\ Events(d, t) <= Budget[d][t]
WithinBudget(d, t) == Budget[d][t] > 0 /\ Events(d, t) < Budget[d][t]

\* The next decision of the list: it is used or passed over.
Consider(c, d) ==
  /\ c \in Calls
  /\ pc[c] = "listed"
  /\ d \in todo[c]
  /\ todo' = [todo EXCEPT ![c] = @ \ {d}]
  /\ IF WithinBudget(d, tool[c])
     THEN Goto(c, "considered") /\ at' = [at EXCEPT ![c] = d]
     ELSE UNCHANGED <<pc, at>>
  /\ UNCHANGED <<decision, ownerVars, eventVars, deliverable, tool>>

\* No decision of the list serves: the call is refused.
Refuse(c) ==
  /\ c \in Calls
  /\ pc[c] = "listed"
  /\ todo[c] = {}
  /\ Return(c)
  /\ UNCHANGED <<decision, ownerVars, eventVars, deliverable>>

Contest(c) ==
  contested' = IF \E b \in Callers \ {c} : InWindow(b, at[c])
               THEN contested \cup {at[c]} ELSE contested

NoteCall(c) ==
  /\ c \in Calls
  /\ pc[c] \in {"considered", "ratified"}
  /\ calls' = [calls EXCEPT ![at[c]][tool[c]] = @ + 1]
  /\ Contest(c)
  /\ Goto(c, IF pc[c] = "ratified" THEN "executing" ELSE "noted")
  /\ todo' = [todo EXCEPT ![c] = {}]
  /\ UNCHANGED <<decision, ownerVars, activations, failures, stuck, deliverable, at, tool>>

MarkExecuting(c) ==
  /\ c \in Calls
  /\ pc[c] = "noted"
  /\ decision' = [decision EXCEPT ![at[c]] = IF @ = "approved" THEN "executing" ELSE @]
  /\ Goto(c, "executing")
  /\ UNCHANGED <<ownerVars, eventVars, deliverable, todo, at, tool>>

(***************************************************************************)
(* The tool runs; completeOperatorAutonomyAuthorization records its        *)
(* outcome, counts what is still started and closes the decision.          *)
(***************************************************************************)
Perform(c) ==
  /\ pc[c] = "executing"
  /\ Goto(c, "settled")
  /\ \/ UNCHANGED failures
     \/ /\ tool[c] = CanaryTool
        /\ failures' = [failures EXCEPT ![at[c]] = @ + 1]
  /\ UNCHANGED <<decision, ownerVars, calls, activations, stuck, contested,
                 deliverable, todo, at, tool>>

CountStarted(c) ==
  /\ c \in Calls
  /\ pc[c] = "settled"
  /\ IF HasStarted(at[c])
     THEN Return(c)
     ELSE Goto(c, "closing") /\ UNCHANGED <<todo, at, tool>>
  /\ UNCHANGED <<decision, ownerVars, eventVars, deliverable>>

Close(c) ==
  /\ pc[c] = "closing"
  /\ decision' = [decision EXCEPT ![at[c]] = IF @ \in Open THEN "executed" ELSE @]
  /\ Return(c)
  /\ UNCHANGED <<ownerVars, eventVars, deliverable>>

-----------------------------------------------------------------------------
(***************************************************************************)
(* activateNextApprovedScheduledPostCanary.                                *)
(***************************************************************************)
\* Broken: the latest approvals come first.
LatestApproved ==
  {d \in Approved : Cardinality({e \in Approved : d \in older[e]}) < ListLimit}
\* ORDER BY approved_at LIMIT: whether they authorize a canary is not asked yet.
OldestApproved ==
  {d \in Approved : Cardinality(older[d] \cap Approved) < ListLimit}

CronList(c) ==
  /\ c \in CronRuns
  /\ pc[c] = "idle"
  /\ Goto(c, "listed")
  /\ todo' = [todo EXCEPT ![c] = OldestApproved]
  /\ UNCHANGED <<decision, ownerVars, eventVars, deliverable, at, tool>>

Eligible(d) ==
  /\ Budget[d][CanaryTool] > 0
  /\ Events(d, CanaryTool) <= failures[d]
  /\ d \in deliverable

CronConsider(c, d) ==
  /\ c \in CronRuns
  /\ pc[c] = "listed"
  /\ d \in todo[c]
  /\ IF Eligible(d)
     THEN /\ Goto(c, "considered")
          /\ todo' = [todo EXCEPT ![c] = {}]
          /\ at' = [at EXCEPT ![c] = d]
     ELSE /\ todo' = [todo EXCEPT ![c] = @ \ {d}]
          /\ UNCHANGED <<pc, at>>
  /\ UNCHANGED <<decision, ownerVars, eventVars, deliverable, tool>>

CronNothing(c) ==
  /\ c \in CronRuns
  /\ pc[c] = "listed"
  /\ todo[c] = {}
  /\ Return(c)
  /\ UNCHANGED <<decision, ownerVars, eventVars, deliverable>>

\* Broken: the UPDATE has lost its condition on the status.
CronMarkAny(c) ==
  /\ c \in CronRuns
  /\ pc[c] = "considered"
  /\ decision' = [decision EXCEPT ![at[c]] = "executing"]
  /\ Goto(c, "marked")
  /\ UNCHANGED <<ownerVars, eventVars, deliverable, todo, at, tool>>
\* The UPDATE may match nothing; the run goes on all the same.
CronMark(c) ==
  /\ c \in CronRuns
  /\ pc[c] = "considered"
  /\ decision' = [decision EXCEPT ![at[c]] = IF @ = "approved" THEN "executing" ELSE @]
  /\ Goto(c, "marked")
  /\ UNCHANGED <<ownerVars, eventVars, deliverable, todo, at, tool>>

NoteActivation(c) ==
  /\ c \in CronRuns
  /\ pc[c] = "marked"
  /\ activations' = [activations EXCEPT ![at[c]] = @ + 1]
  /\ Contest(c)
  /\ Goto(c, "noted")
  /\ UNCHANGED <<decision, ownerVars, calls, failures, stuck, deliverable, todo, at, tool>>

\* The scheduler object stores the canary, or the request throws.
Arm(c) ==
  /\ c \in CronRuns
  /\ pc[c] = "noted"
  /\ \E step \in {"armed", "refused"} : Goto(c, step)
  /\ UNCHANGED <<decision, ownerVars, eventVars, deliverable, todo, at, tool>>

RecordArmed(c) ==
  /\ pc[c] = "armed"
  /\ Goto(c, "settled")
  /\ UNCHANGED <<decision, ownerVars, eventVars, deliverable, todo, at, tool>>

RecordRefused(c) ==
  /\ pc[c] = "refused"
  /\ failures' = [failures EXCEPT ![at[c]] = @ + 1]
  /\ Goto(c, "returned")
  /\ UNCHANGED <<decision, ownerVars, calls, activations, stuck, contested,
                 deliverable, todo, at, tool>>

\* Both outcomes are written to the decision by id alone.
Conclude(c, from, status) ==
  /\ c \in CronRuns
  /\ pc[c] = from
  /\ decision' = [decision EXCEPT ![at[c]] = status]
  /\ Return(c)
  /\ UNCHANGED <<ownerVars, eventVars, deliverable>>

\* Broken: after a refusal the decision is approved again, to be retried.
CronCloseRetry(c) ==
  Conclude(c, "settled", "executed") \/ Conclude(c, "returned", "approved")
CronClose(c) ==
  Conclude(c, "settled", "executed") \/ Conclude(c, "returned", "revision_required")

-----------------------------------------------------------------------------
\* An event whose caller is evicted stays 'started'.
Crash(c) ==
  /\ pc[c] # "idle"
  /\ stuck' = IF pc[c] \in Running THEN stuck \cup {at[c]} ELSE stuck
  /\ Return(c)
  /\ UNCHANGED <<decision, ownerVars, calls, activations, failures, contested, deliverable>>

Owner ==
  \/ \E d \in Decisions :
       \/ Propose(d)
       \/ Supersede(d)
       \/ DropPost(d)
  \/ \E o \in Owners :
       \/ \E d \in Decisions : MarkCheck(o, d) \/ \E answer \in Answer : ResolveCheck(o, d, answer)
       \/ ResolveWrite(o)
       \/ MarkCount(o)
       \/ MarkWrite(o)

CallStep(c) ==
  \/ \E t \in Tools : List(c, t) \/ \E d \in Decisions : Ratify(c, d, t)
  \/ \E d \in Decisions : Consider(c, d)
  \/ Refuse(c)
  \/ NoteCall(c)
  \/ MarkExecuting(c)
  \/ Perform(c)
  \/ CountStarted(c)
  \/ Close(c)

CronStep(c) ==
  \/ CronList(c)
  \/ \E d \in Decisions : CronConsider(c, d)
  \/ CronNothing(c)
  \/ CronMark(c)
  \/ NoteActivation(c)
  \/ Arm(c)
  \/ RecordArmed(c)
  \/ RecordRefused(c)
  \/ CronClose(c)

Next ==
  \/ Owner
  \/ \E c \in Calls : CallStep(c)
  \/ \E c \in CronRuns : CronStep(c)
  \/ \E c \in Callers : Crash(c)

Spec == Init /\ [][Next]_vars

\* The cron fires for ever and its runs go on; an eviction may end any run, but
\* not every run as it considers the same decision or is about to mark it.
Fairness ==
  \A c \in CronRuns :
    /\ WF_vars(CronStep(c))
    /\ SF_vars(CronMark(c))
    /\ \A d \in Decisions : SF_vars(CronConsider(c, d))

FairSpec == Spec /\ Fairness

-----------------------------------------------------------------------------
(***************************************************************************)
(* Properties.                                                             *)
(***************************************************************************)
\* The calls executed under a decision never outnumber the budget the owner
\* approved, through failures, evictions, rejections and new approvals of the
\* same decision, unless two callers once stood between reading the events of
\* that decision and inserting their own.
BudgetKept ==
  \A d \in Decisions \ contested : \A t \in Tools : calls[d][t] <= Budget[d][t]

\* The cron arms a canary at most once for each time the owner approved its
\* decision: a failed activation comes back to the owner and is not retried,
\* unless other callers were in the same window of that decision.
ActivationsApproved ==
  \A d \in Decisions \ contested : activations[d] <= approvals[d]

\* Whatever finished late, a decision that no longer (or does not yet) authorize
\* comes to authorize again only by an approval the owner just gave.
ReopenedByOwner ==
  [][\A d \in Decisions :
       decision[d] \notin Open /\ decision'[d] \in Open => approvals'[d] = approvals[d] + 1]_vars

\* A canary that is among the oldest approved decisions does not stay approved
\* for ever while its post can be delivered and whatever ran under it has failed:
\* the cron activates it in spite of evictions and of decisions beside it that it
\* passes over.  Behind ListLimit decisions of no use to it nothing is promised.
Awaited(d) ==
  /\ decision[d] = "approved"
  /\ Cardinality({e \in older[d] : decision[e] = "approved"}) < ListLimit
  /\ d \in deliverable
  /\ \A c \in Callers : at[c] # d
  /\ Events(d, CanaryTool) = failures[d]
ApprovedCanaryActivated == \A d \in Decisions : Awaited(d) ~> ~Awaited(d)
=============================================================================
