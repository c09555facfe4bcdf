-------------------- MODULE DecisionAuthorization_proofs --------------------
(***************************************************************************)
(* Theorems about DecisionAuthorization, for any decisions, tools, budgets *)
(* and callers.  The inductive invariant says what a caller that stands    *)
(* between a read and its insert may still rely on while nobody stands     *)
(* there with it.                                                          *)
(***************************************************************************)
EXTENDS DecisionAuthorization, TLAPS

\* Who has a step to do for a decision knows which.
Held ==
  \A c \in Callers :
    /\ pc[c] \in Step \ {"idle", "listed"} => at[c] \in Decisions
    /\ c \in CronRuns /\ pc[c] # "listed" => todo[c] = {}

\* Nothing refers to a decision that is not there yet.
Unborn ==
  \A d \in Decisions : decision[d] = "absent" =>
    /\ \A t \in Tools : calls[d][t] = 0
    /\ \A c \in Callers : at[c] # d /\ d \notin todo[c]

\* A call about to insert its event still has a unit to spend.
Spending ==
  \A d \in Decisions \ contested :
    /\ \A t \in Tools : calls[d][t] <= Budget[d][t]
    /\ \A c \in Calls : InWindow(c, d) => calls[d][tool[c]] < Budget[d][tool[c]]

\* An approval not yet used by the cron stands behind every approved decision,
\* every run that may activate it, and both if there are both.
Activating ==
  \A d \in Decisions \ contested :
    /\ activations[d] <= approvals[d]
    /\ decision[d] = "approved" => activations[d] < approvals[d]
    /\ \A c \in CronRuns :
         /\ InWindow(c, d) => activations[d] < approvals[d]
         /\ pc[c] = "marked" /\ at[c] = d /\ decision[d] = "approved"
              => activations[d] + 1 < approvals[d]

Inv == TypeOK /\ Held /\ Unborn /\ Spending /\ Activating

-----------------------------------------------------------------------------
LEMMA InvInit == Init => Inv
<1> SUFFICES ASSUME Init PROVE Inv
  OBVIOUS
<1>1. TypeOK
  BY ToolsAssumption DEF Init, TypeOK, Status, Request, NoRequest, Step
<1>2. Held /\ Unborn
  BY DecisionsAssumption DEF Init, Held, Unborn, Callers
<1>3. \A c \in Callers, d \in Decisions : at[c] # d /\ d \notin todo[c]
  BY DecisionsAssumption DEF Init
<1>4. ASSUME NEW c \in Callers, NEW d \in Decisions PROVE InWindow(c, d) = FALSE
  BY <1>3 DEF InWindow
<1>5. Spending
  <2>1. ASSUME NEW d \in Decisions, NEW t \in Tools PROVE calls[d][t] <= Budget[d][t]
    BY BudgetAssumption DEF Init
  <2> QED BY <1>4, <2>1, Zenon DEF Spending, Callers
<1>6. Activating
  <2>1. ASSUME NEW d \in Decisions
        PROVE  activations[d] <= approvals[d] /\ decision[d] # "approved"
    BY DEF Init
  <2>2. ASSUME NEW c \in CronRuns PROVE pc[c] # "marked"
    BY DEF Init, Callers
  <2> QED BY <1>4, <2>1, <2>2, Zenon DEF Activating, Callers
<1> QED BY <1>1, <1>2, <1>5, <1>6 DEF Inv

\* What the cron lists is approved, whatever the order and the limit.
LEMMA OldestAreApproved ==
  /\ OldestApproved \subseteq Decisions
  /\ \A d \in OldestApproved : decision[d] = "approved"
BY DEF OldestApproved, Approved

LEMMA StampType ==
  ASSUME NEW d, StampApproval(d), older \in [Decisions -> SUBSET Decisions]
  PROVE  older' \in [Decisions -> SUBSET Decisions]
BY DEF StampApproval, Approved

LEMMA ResolutionType == \A answer : Resolution(answer) \in {"approved", "rejected", "revision_required"}
BY DEF Resolution

\* The steps that change no caller.
LEMMA OwnerKeepsType == ASSUME TypeOK, Owner PROVE TypeOK' /\ UNCHANGED callerVars
<1>1. ASSUME NEW d \in Decisions, Propose(d) \/ Supersede(d) \/ DropPost(d)
      PROVE  TypeOK' /\ UNCHANGED callerVars
  BY <1>1 DEF TypeOK, Propose, Supersede, DropPost, ownerVars, eventVars, callerVars, Status
<1>2. ASSUME NEW o \in Owners, NEW d \in Decisions, MarkCheck(o, d)
      PROVE  TypeOK' /\ UNCHANGED callerVars
  BY <1>2 DEF TypeOK, MarkCheck, eventVars, callerVars, Request
<1>3. ASSUME NEW o \in Owners, NEW d \in Decisions, NEW answer \in Answer, ResolveCheck(o, d, answer)
      PROVE  TypeOK' /\ UNCHANGED callerVars
  BY <1>3 DEF TypeOK, ResolveCheck, eventVars, callerVars, Request
<1>4. ASSUME NEW o \in Owners, ResolveWrite(o) PROVE TypeOK' /\ UNCHANGED callerVars
  <2>1. decision' \in [Decisions -> Status]
    <3>1. Resolution(request[o].step) \in Status
      BY ResolutionType DEF Status
    <3> QED BY <1>4, <3>1 DEF TypeOK, ResolveWrite
  <2>2. approvals' \in [Decisions -> Nat]
    <3>1. CASE request[o].step = "approve"
      <4>1. approvals' = [approvals EXCEPT ![request[o].of] = @ + 1]
        BY <1>4, <3>1 DEF ResolveWrite
      <4>2. CASE request[o].of \in Decisions
        BY <4>1, <4>2 DEF TypeOK
      <4>3. CASE request[o].of \notin Decisions
        BY <4>1, <4>3 DEF TypeOK
      <4> QED BY <4>2, <4>3
    <3>2. CASE request[o].step # "approve"
      BY <1>4, <3>2 DEF TypeOK, ResolveWrite
    <3> QED BY <3>1, <3>2
  <2>3. request' \in [Owners -> Request]
    BY <1>4 DEF TypeOK, ResolveWrite, Request, NoRequest
  <2>4. older' \in [Decisions -> SUBSET Decisions]
    <3>1. StampApproval(request[o].of) \/ older' = older
      BY <1>4 DEF ResolveWrite
    <3> QED BY <3>1, StampType DEF TypeOK
  <2> QED BY <1>4, <2>1, <2>2, <2>3, <2>4 DEF TypeOK, ResolveWrite, eventVars, callerVars
<1>5. ASSUME NEW o \in Owners, MarkCount(o) PROVE TypeOK' /\ UNCHANGED callerVars
  BY <1>5 DEF TypeOK, MarkCount, eventVars, callerVars, Request, NoRequest
<1>6. ASSUME NEW o \in Owners, MarkWrite(o) PROVE TypeOK' /\ UNCHANGED callerVars
  BY <1>6 DEF TypeOK, MarkWrite, eventVars, callerVars, Request, NoRequest, Status
<1> QED BY <1>1, <1>2, <1>3, <1>4, <1>5, <1>6 DEF Owner

LEMMA CallKeepsType ==
  ASSUME TypeOK, Held, NEW c \in Calls, CallStep(c)
  PROVE  TypeOK' /\ Held'
<1> USE DEF TypeOK, Held, Callers, Goto, Return, Step, ownerVars, eventVars
<1> c \in Callers /\ c \notin CronRuns
  BY CallersAssumption
<1>1. ASSUME NEW t \in Tools, List(c, t) PROVE TypeOK' /\ Held'
  BY <1>1 DEF List
<1>2. ASSUME NEW t \in Tools, NEW d \in Decisions, Ratify(c, d, t) PROVE TypeOK' /\ Held'
  <2>1. TypeOK'
    BY <1>2 DEF Ratify, Status
  <2>2. Held'
    BY <1>2 DEF Ratify
  <2> QED BY <2>1, <2>2
<1>3. ASSUME NEW d \in Decisions, Consider(c, d) PROVE TypeOK' /\ Held'
  BY <1>3 DEF Consider
<1>4. CASE Refuse(c)
  BY <1>4 DEF Refuse
<1>5. CASE NoteCall(c)
  BY <1>5 DEF NoteCall, Contest
<1>6. CASE MarkExecuting(c)
  BY <1>6 DEF MarkExecuting, Status
<1>7. CASE Perform(c)
  BY <1>7 DEF Perform
<1>8. CASE CountStarted(c)
  <2>1. CASE HasStarted(at[c])
    <3>1. Return(c) /\ UNCHANGED <<decision, ownerVars, eventVars, deliverable>>
      BY <1>8, <2>1 DEF CountStarted
    <3> QED BY <3>1
  <2>2. CASE ~HasStarted(at[c])
    BY <1>8, <2>2 DEF CountStarted
  <2> QED BY <2>1, <2>2
<1>9. CASE Close(c)
  BY <1>9 DEF Close, Status
<1> QED BY <1>1, <1>2, <1>3, <1>4, <1>5, <1>6, <1>7, <1>8, <1>9 DEF CallStep

LEMMA CronKeepsType ==
  ASSUME TypeOK, Held, NEW c \in CronRuns, CronStep(c)
  PROVE  TypeOK' /\ Held'
<1> USE DEF TypeOK, Held, Callers, Goto, Return, Step, ownerVars, eventVars
<1>1. CASE CronList(c)
  BY <1>1, OldestAreApproved DEF CronList
<1>2. ASSUME NEW d \in Decisions, CronConsider(c, d) PROVE TypeOK' /\ Held'
  <2>1. CASE Eligible(d)
    <3>1. TypeOK'
      BY <1>2, <2>1 DEF CronConsider
    <3>2. Held'
      BY <1>2, <2>1 DEF CronConsider
    <3> QED BY <3>1, <3>2
  <2>2. CASE ~Eligible(d)
    <3>1. TypeOK'
      BY <1>2, <2>2 DEF CronConsider
    <3>2. Held'
      BY <1>2, <2>2 DEF CronConsider
    <3> QED BY <3>1, <3>2
  <2> QED BY <2>1, <2>2
<1>3. CASE CronNothing(c)
  BY <1>3 DEF CronNothing
<1>4. CASE CronMark(c)
  BY <1>4 DEF CronMark, Status
<1>5. CASE NoteActivation(c)
  BY <1>5 DEF NoteActivation, Contest
<1>6. CASE Arm(c)
  BY <1>6 DEF Arm
<1>7. CASE RecordArmed(c)
  BY <1>7 DEF RecordArmed
<1>8. CASE RecordRefused(c)
  BY <1>8 DEF RecordRefused
<1>9. CASE CronClose(c)
  <2>1. PICK from \in {"settled", "returned"}, status \in Status : Conclude(c, from, status)
    BY <1>9 DEF CronClose, Status
  <2> QED BY <2>1 DEF Conclude
<1> QED BY <1>1, <1>2, <1>3, <1>4, <1>5, <1>6, <1>7, <1>8, <1>9 DEF CronStep

LEMMA CrashKeepsType ==
  ASSUME TypeOK, Held, NEW c \in Callers, Crash(c)
  PROVE  TypeOK' /\ Held'
BY DEF TypeOK, Held, Callers, Goto, Return, Step, Running, Crash, ownerVars

LEMMA NextKeepsType == ASSUME TypeOK, Held, Next PROVE TypeOK' /\ Held'
<1>1. CASE Owner
  BY <1>1, OwnerKeepsType DEF Held, callerVars
<1> QED BY <1>1, CallKeepsType, CronKeepsType, CrashKeepsType DEF Next

-----------------------------------------------------------------------------
\* A step of one caller leaves the others where they are.
Still(b) == pc'[b] = pc[b] /\ todo'[b] = todo[b] /\ at'[b] = at[b] /\ tool'[b] = tool[b]

LEMMA OthersStay ==
  ASSUME TypeOK, NEW c \in Callers, CallStep(c) \/ CronStep(c) \/ Crash(c),
         NEW b \in Callers, b # c
  PROVE  Still(b)
<1> USE DEF TypeOK, Goto, Return, Still
<1>1. ASSUME NEW t \in Tools, List(c, t) PROVE Still(b)
  BY <1>1 DEF List
<1>2. ASSUME NEW t \in Tools, NEW d \in Decisions, Ratify(c, d, t) PROVE Still(b)
  BY <1>2 DEF Ratify
<1>3. ASSUME NEW d \in Decisions, Consider(c, d) \/ CronConsider(c, d) PROVE Still(b)
  BY <1>3 DEF Consider, CronConsider
<1>4. CASE Refuse(c) \/ CronNothing(c) \/ Crash(c)
  BY <1>4 DEF Refuse, CronNothing, Crash
<1>5. CASE NoteCall(c)
  BY <1>5 DEF NoteCall
<1>6. CASE MarkExecuting(c) \/ Perform(c)
  BY <1>6 DEF MarkExecuting, Perform
<1>7. CASE CountStarted(c)
  BY <1>7 DEF CountStarted
<1>8. CASE Close(c)
  BY <1>8 DEF Close
<1>9. CASE CronList(c) \/ CronMark(c) \/ NoteActivation(c)
  BY <1>9 DEF CronList, CronMark, NoteActivation
<1>10. CASE Arm(c) \/ RecordArmed(c) \/ RecordRefused(c)
  BY <1>10 DEF Arm, RecordArmed, RecordRefused
<1>11. ASSUME NEW from, NEW status, Conclude(c, from, status) PROVE Still(b)
  BY <1>11 DEF Conclude
<1> QED BY <1>1, <1>2, <1>3, <1>4, <1>5, <1>6, <1>7, <1>8, <1>9, <1>10, <1>11
           DEF CallStep, CronStep, CronClose

-----------------------------------------------------------------------------
\* No step removes a decision, and none refers to one that is not there.
LEMMA NextKeepsUnborn == ASSUME Inv, Next, TypeOK' PROVE Unborn'
<1> SUFFICES ASSUME NEW d \in Decisions, decision'[d] = "absent"
             PROVE  /\ \A t \in Tools : calls'[d][t] = 0
                    /\ \A c \in Callers : at'[c] # d /\ d \notin todo'[c]
  BY DEF Unborn
<1> USE DEF Inv, TypeOK, Callers, Goto, Return, ownerVars, eventVars, callerVars
<1> NoDecision \notin Decisions
  BY DecisionsAssumption
<1>1. CASE Owner
  <2>1. UNCHANGED <<calls, todo, at>>
    BY <1>1, OwnerKeepsType DEF Owner, Propose, Supersede, DropPost, MarkCheck, ResolveCheck,
         ResolveWrite, MarkCount, MarkWrite
  <2>2. decision[d] = "absent"
    <3>1. ASSUME NEW e \in Decisions, Propose(e) \/ Supersede(e) \/ DropPost(e)
          PROVE  decision[d] = "absent"
      BY <3>1 DEF Propose, Supersede, DropPost
    <3>2. ASSUME NEW o \in Owners, ResolveWrite(o) PROVE decision[d] = "absent"
      <4>1. Resolution(request[o].step) # "absent"
        BY ResolutionType
      <4> QED BY <3>2, <4>1 DEF ResolveWrite
    <3>3. ASSUME NEW o \in Owners, MarkWrite(o) \/ MarkCount(o) PROVE decision[d] = "absent"
      BY <3>3 DEF MarkWrite, MarkCount
    <3>4. ASSUME NEW o \in Owners, NEW e \in Decisions,
                 MarkCheck(o, e) \/ \E answer \in Answer : ResolveCheck(o, e, answer)
          PROVE  decision[d] = "absent"
      BY <3>4 DEF MarkCheck, ResolveCheck
    <3> QED BY <1>1, <3>1, <3>2, <3>3, <3>4 DEF Owner
  <2> QED BY <2>1, <2>2 DEF Unborn
<1>2. ASSUME NEW c \in Calls, CallStep(c)
      PROVE  /\ \A t \in Tools : calls'[d][t] = 0
             /\ \A b \in Callers : at'[b] # d /\ d \notin todo'[b]
  <2> USE <1>2 DEF Unborn
  <2>1. ASSUME NEW t \in Tools, List(c, t) \/ \E e \in Decisions : Ratify(c, e, t) PROVE decision[d] = "absent"
    BY <2>1 DEF List, Ratify
  <2>2. decision[d] = "absent"
    BY <2>1 DEF CallStep, Consider, Refuse, NoteCall, MarkExecuting, Perform, CountStarted, Close
  <2>3. ASSUME NEW t \in Tools, List(c, t)
        PROVE  calls' = calls /\ \A b \in Callers : at'[b] # d /\ d \notin todo'[b]
    BY <2>2, <2>3 DEF List, Open
  <2>4. ASSUME NEW t \in Tools, NEW e \in Decisions, Ratify(c, e, t)
        PROVE  calls' = calls /\ \A b \in Callers : at'[b] # d /\ d \notin todo'[b]
    BY <2>2, <2>4 DEF Ratify
  <2>5. ASSUME NEW e \in Decisions, Consider(c, e)
        PROVE  calls' = calls /\ \A b \in Callers : at'[b] # d /\ d \notin todo'[b]
    BY <2>2, <2>5 DEF Consider
  <2>6. CASE Refuse(c) \/ MarkExecuting(c) \/ Perform(c) \/ CountStarted(c) \/ Close(c)
    BY <2>2, <2>6 DEF Refuse, MarkExecuting, Perform, CountStarted, Close
  <2>7. CASE NoteCall(c)
    BY <2>2, <2>7 DEF NoteCall
  <2> QED BY <2>2, <2>3, <2>4, <2>5, <2>6, <2>7 DEF CallStep
<1>3. ASSUME NEW c \in CronRuns, CronStep(c)
      PROVE  /\ \A t \in Tools : calls'[d][t] = 0
             /\ \A b \in Callers : at'[b] # d /\ d \notin todo'[b]
  <2> USE <1>3 DEF Unborn
  <2>1. calls' = calls /\ decision[d] = "absent"
    <3>1. ASSUME NEW e \in Decisions, CronConsider(c, e)
          PROVE  calls' = calls /\ decision' = decision
      BY <3>1 DEF CronConsider
    <3>2. CASE CronList(c) \/ CronNothing(c) \/ Arm(c) \/ RecordArmed(c) \/ RecordRefused(c)
      BY <3>2 DEF CronList, CronNothing, Arm, RecordArmed, RecordRefused
    <3>3. CASE CronMark(c) \/ NoteActivation(c) \/ CronClose(c)
      BY <3>3 DEF CronMark, NoteActivation, CronClose, Conclude
    <3> QED BY <3>1, <3>2, <3>3 DEF CronStep
  <2>2. at'[c] # d /\ d \notin todo'[c]
    <3>1. ASSUME NEW e \in Decisions, CronConsider(c, e) PROVE at'[c] # d /\ d \notin todo'[c]
      BY <2>1, <3>1 DEF CronConsider
    <3>2. CASE CronList(c) \/ CronNothing(c) \/ CronMark(c) \/ CronClose(c)
      BY <2>1, <3>2, OldestAreApproved DEF CronList, CronNothing, CronMark, CronClose, Conclude
    <3>3. CASE NoteActivation(c) \/ Arm(c) \/ RecordArmed(c) \/ RecordRefused(c)
      BY <2>1, <3>3 DEF NoteActivation, Arm, RecordArmed, RecordRefused
    <3> QED BY <3>1, <3>2, <3>3 DEF CronStep
  <2>3. \A b \in Callers : at'[b] # d /\ d \notin todo'[b]
    <3>1. ASSUME NEW b \in Callers, b # c PROVE at'[b] # d /\ d \notin todo'[b]
      BY <2>1, <3>1, <1>3, OthersStay DEF Still
    <3> QED BY <2>2, <3>1
  <2> QED BY <2>1, <2>3
<1>4. ASSUME NEW c \in Callers, Crash(c)
      PROVE  /\ \A t \in Tools : calls'[d][t] = 0
             /\ \A b \in Callers : at'[b] # d /\ d \notin todo'[b]
  BY <1>4 DEF Crash, Unborn
<1> QED BY <1>1, <1>2, <1>3, <1>4 DEF Next

-----------------------------------------------------------------------------
\* What a step must show if it inserts no event of a call.
LEMMA SpendingFrame ==
  ASSUME Spending, calls' = calls, contested \subseteq contested',
         \A c \in Calls, d \in Decisions : InWindow(c, d)' =>
            \/ InWindow(c, d) /\ tool'[c] = tool[c]
            \/ calls[d][tool'[c]] < Budget[d][tool'[c]]
  PROVE  Spending'
BY DEF Spending

\* A caller that does not move stays in its windows.
LEMMA WindowFrame ==
  ASSUME NEW b, NEW d, pc'[b] = pc[b], todo'[b] = todo[b], at'[b] = at[b]
  PROVE  InWindow(b, d)' <=> InWindow(b, d)
BY DEF InWindow

LEMMA CallKeepsSpending ==
  ASSUME Inv, NEW c \in Calls, CallStep(c), TypeOK', Held'
  PROVE  Spending'
<1> USE DEF Inv, TypeOK, Callers, Goto, Return, ownerVars, eventVars
<1> c \in Callers /\ c \notin CronRuns
  BY CallersAssumption
<1>1. ASSUME NEW b \in Calls, b # c
      PROVE  pc'[b] = pc[b] /\ at'[b] = at[b] /\ tool'[b] = tool[b] /\ b \notin CronRuns
  BY <1>1, OthersStay, CallersAssumption DEF Still
<1>2. ASSUME NEW b \in Calls, NEW d \in Decisions, b # c
      PROVE  InWindow(b, d)' <=> InWindow(b, d)
  BY <1>1, <1>2 DEF InWindow
<1>3. ASSUME calls' = calls, contested \subseteq contested',
             \A d \in Decisions : InWindow(c, d)' =>
               \/ InWindow(c, d) /\ tool'[c] = tool[c]
               \/ calls[d][tool'[c]] < Budget[d][tool'[c]]
      PROVE  Spending'
  BY <1>1, <1>2, <1>3, SpendingFrame
<1>4. ASSUME NEW t \in Tools, List(c, t) PROVE Spending'
  BY <1>3, <1>4 DEF List, InWindow
<1>5. ASSUME NEW t \in Tools, NEW d \in Decisions, Ratify(c, d, t) PROVE Spending'
  <2>1. calls[d][t] < Budget[d][t]
    BY <1>5 DEF Ratify, Unborn
  <2> QED BY <1>3, <1>5, <2>1 DEF Ratify, InWindow
<1>6. ASSUME NEW d \in Decisions, Consider(c, d) PROVE Spending'
  <2>1. CASE WithinBudget(d, tool[c])
    <3>1. calls[d][tool[c]] < Budget[d][tool[c]]
      BY <2>1, BudgetAssumption DEF WithinBudget, Events
    <3> QED BY <1>3, <1>6, <2>1, <3>1 DEF Consider, InWindow
  <2>2. CASE ~WithinBudget(d, tool[c])
    BY <1>3, <1>6, <2>2 DEF Consider, InWindow
  <2> QED BY <2>1, <2>2
<1>7. CASE Refuse(c) \/ MarkExecuting(c) \/ Perform(c) \/ CountStarted(c) \/ Close(c)
  BY <1>3, <1>7 DEF Refuse, MarkExecuting, Perform, CountStarted, Close, InWindow
<1>8. CASE NoteCall(c)
  <2>0. PICK k \in Decisions : k = at[c]
    BY <1>8 DEF NoteCall, Held, Step
  <2>1. InWindow(c, k) /\ tool[c] \in Tools
    BY <1>8, <2>0 DEF NoteCall, InWindow
  <2>2. \A d \in Decisions : ~InWindow(c, d)'
    BY <1>8 DEF NoteCall, InWindow
  <2>3. contested \subseteq contested'
    BY <1>8 DEF NoteCall, Contest
  <2>4. calls' = [calls EXCEPT ![k][tool[c]] = @ + 1]
    BY <1>8, <2>0 DEF NoteCall
  <2>5. ASSUME NEW d \in Decisions \ contested', d # k
        PROVE  /\ \A t \in Tools : calls'[d][t] <= Budget[d][t]
               /\ \A b \in Calls : InWindow(b, d)' => calls'[d][tool'[b]] < Budget[d][tool'[b]]
    BY <1>1, <1>2, <2>2, <2>3, <2>4, <2>5 DEF Spending
  <2>6. ASSUME k \notin contested'
        PROVE  /\ \A t \in Tools : calls'[k][t] <= Budget[k][t]
               /\ \A b \in Calls : ~InWindow(b, k)'
    <3>1. \A b \in Calls \ {c} : ~InWindow(b, k)
      BY <1>8, <2>0, <2>6 DEF NoteCall, Contest
    <3>2. calls[k][tool[c]] < Budget[k][tool[c]] /\ \A t \in Tools : calls[k][t] <= Budget[k][t]
      BY <2>1, <2>3, <2>6 DEF Spending
    <3>3. ASSUME NEW t \in Tools PROVE calls'[k][t] <= Budget[k][t]
      <4>1. Budget[k][t] \in Nat /\ calls[k][t] \in Nat
        BY BudgetAssumption
      <4>2. CASE t = tool[c]
        BY <2>4, <3>2, <4>1, <4>2
      <4>3. CASE t # tool[c]
        BY <2>4, <3>2, <4>3
      <4> QED BY <4>2, <4>3
    <3>4. ASSUME NEW b \in Calls PROVE ~InWindow(b, k)'
      BY <1>2, <2>2, <3>1
    <3> QED BY <3>3, <3>4
  <2>7. SUFFICES ASSUME NEW d \in Decisions \ contested'
                 PROVE  /\ \A t \in Tools : calls'[d][t] <= Budget[d][t]
                        /\ \A b \in Calls : InWindow(b, d)' => calls'[d][tool'[b]] < Budget[d][tool'[b]]
    BY DEF Spending
  <2>8. CASE d = k
    BY <2>6, <2>8
  <2> QED BY <2>5, <2>8
<1> QED BY <1>4, <1>5, <1>6, <1>7, <1>8 DEF CallStep

LEMMA NextKeepsSpending == ASSUME Inv, Next, TypeOK', Held' PROVE Spending'
<1> USE DEF Inv, TypeOK, Callers, Goto, Return, ownerVars, eventVars
<1>1. CASE Owner
  <2>1. calls' = calls /\ contested' = contested /\ UNCHANGED callerVars
    BY <1>1, OwnerKeepsType DEF Owner, Propose, Supersede, DropPost, MarkCheck, ResolveCheck,
         ResolveWrite, MarkCount, MarkWrite
  <2> QED BY <2>1, SpendingFrame DEF InWindow, callerVars
<1>2. ASSUME NEW c \in Calls, CallStep(c) PROVE Spending'
  BY <1>2, CallKeepsSpending
<1>3. ASSUME NEW c \in CronRuns, CronStep(c) PROVE Spending'
  <2>1. calls' = calls /\ contested \subseteq contested'
    <3>1. ASSUME NEW e \in Decisions, CronConsider(c, e)
          PROVE  calls' = calls /\ contested \subseteq contested'
      BY <3>1 DEF CronConsider
    <3>2. CASE NoteActivation(c)
      BY <3>2 DEF NoteActivation, Contest
    <3>3. CASE CronList(c) \/ CronNothing(c) \/ CronMark(c) \/ CronClose(c)
      BY <3>3 DEF CronList, CronNothing, CronMark, CronClose, Conclude
    <3>4. CASE Arm(c) \/ RecordArmed(c) \/ RecordRefused(c)
      BY <3>4 DEF Arm, RecordArmed, RecordRefused
    <3> QED BY <1>3, <3>1, <3>2, <3>3, <3>4 DEF CronStep
  <2>2. ASSUME NEW b \in Calls PROVE Still(b)
    BY <1>3, CallersAssumption, OthersStay
  <2> QED BY <2>1, <2>2, SpendingFrame DEF InWindow, Still
<1>4. ASSUME NEW c \in Callers, Crash(c) PROVE Spending'
  <2>1. calls' = calls /\ contested' = contested
    BY <1>4 DEF Crash
  <2>2. ASSUME NEW b \in Calls, NEW d \in Decisions, InWindow(b, d)'
        PROVE  InWindow(b, d) /\ tool'[b] = tool[b]
    BY <1>4, <2>2 DEF Crash, InWindow
  <2> QED BY <2>1, <2>2, SpendingFrame
<1> QED BY <1>1, <1>2, <1>3, <1>4 DEF Next

-----------------------------------------------------------------------------
Marked(c, d) == pc[c] = "marked" /\ at[c] = d

\* What a step must show if it inserts no event of the cron: approvals are never
\* taken back, 'approved' is written with an approval, and windows are entered
\* from the list of approved decisions.
LEMMA ActivatingFrame ==
  ASSUME TypeOK, TypeOK', Activating, activations' = activations, contested \subseteq contested',
         \A d \in Decisions : approvals'[d] = approvals[d] \/ approvals'[d] = approvals[d] + 1,
         \A d \in Decisions : decision'[d] = "approved" =>
            decision[d] = "approved" \/ approvals'[d] = approvals[d] + 1,
         \A c \in CronRuns, d \in Decisions :
            /\ InWindow(c, d)' => InWindow(c, d) \/ decision[d] = "approved"
            /\ Marked(c, d)' /\ decision'[d] = "approved" => Marked(c, d)
  PROVE  Activating'
<1> SUFFICES ASSUME NEW d \in Decisions \ contested'
             PROVE  /\ activations'[d] <= approvals'[d]
                    /\ decision'[d] = "approved" => activations'[d] < approvals'[d]
                    /\ \A c \in CronRuns :
                         /\ InWindow(c, d)' => activations'[d] < approvals'[d]
                         /\ Marked(c, d)' /\ decision'[d] = "approved"
                              => activations'[d] + 1 < approvals'[d]
  BY DEF Activating, Marked
<1>1. d \in Decisions \ contested /\ activations[d] \in Nat /\ approvals[d] \in Nat
  BY DEF TypeOK
<1>2. activations[d] <= approvals[d] /\ (decision[d] = "approved" => activations[d] < approvals[d])
  BY <1>1 DEF Activating
<1>3. ASSUME NEW c \in CronRuns, InWindow(c, d)' PROVE activations'[d] < approvals'[d]
  BY <1>1, <1>2, <1>3 DEF Activating
<1>4. ASSUME NEW c \in CronRuns, Marked(c, d)', decision'[d] = "approved"
      PROVE  activations'[d] + 1 < approvals'[d]
  <2>1. Marked(c, d) /\ activations[d] < approvals[d]
    BY <1>1, <1>4 DEF Activating, Marked, InWindow
  <2>2. CASE decision[d] = "approved"
    BY <1>1, <2>1, <2>2 DEF Activating, Marked
  <2>3. CASE decision[d] # "approved"
    BY <1>1, <1>4, <2>1, <2>3
  <2> QED BY <2>2, <2>3
<1> QED BY <1>1, <1>2, <1>3, <1>4

LEMMA OwnerKeepsActivating == ASSUME Inv, Owner, TypeOK' PROVE Activating'
<1> USE DEF Inv, TypeOK, ownerVars, eventVars, callerVars
<1>1. UNCHANGED <<activations, contested, pc, todo, at>>
  BY OwnerKeepsType DEF Owner, Propose, Supersede, DropPost, MarkCheck, ResolveCheck,
     ResolveWrite, MarkCount, MarkWrite
<1>2. ASSUME NEW d \in Decisions
      PROVE  /\ approvals'[d] = approvals[d] \/ approvals'[d] = approvals[d] + 1
             /\ decision'[d] = "approved" =>
                  decision[d] = "approved" \/ approvals'[d] = approvals[d] + 1
  <2>1. ASSUME NEW e \in Decisions, Propose(e) \/ Supersede(e) \/ DropPost(e)
        PROVE  approvals' = approvals /\ (decision'[d] = "approved" => decision[d] = "approved")
    BY <2>1 DEF Propose, Supersede, DropPost
  <2>2. ASSUME NEW o \in Owners, ResolveWrite(o)
        PROVE  /\ approvals'[d] = approvals[d] \/ approvals'[d] = approvals[d] + 1
               /\ decision'[d] = "approved" =>
                    decision[d] = "approved" \/ approvals'[d] = approvals[d] + 1
    <3>1. CASE request[o].step = "approve" /\ request[o].of = d
      BY <2>2, <3>1 DEF ResolveWrite
    <3>2. CASE request[o].step # "approve"
      <4>1. Resolution(request[o].step) # "approved"
        BY <2>2, <3>2 DEF ResolveWrite, Resolution, Answer
      <4> QED BY <2>2, <3>2, <4>1 DEF ResolveWrite
    <3>3. CASE request[o].of # d
      BY <2>2, <3>3 DEF ResolveWrite
    <3> QED BY <3>1, <3>2, <3>3
  <2>3. ASSUME NEW o \in Owners, MarkWrite(o) \/ MarkCount(o)
        PROVE  approvals' = approvals /\ (decision'[d] = "approved" => decision[d] = "approved")
    BY <2>3 DEF MarkWrite, MarkCount
  <2>4. ASSUME NEW o \in Owners, NEW e \in Decisions,
               MarkCheck(o, e) \/ \E answer \in Answer : ResolveCheck(o, e, answer)
        PROVE  approvals' = approvals /\ (decision'[d] = "approved" => decision[d] = "approved")
    BY <2>4 DEF MarkCheck, ResolveCheck
  <2> QED BY <2>1, <2>2, <2>3, <2>4 DEF Owner
<1> QED BY <1>1, <1>2, ActivatingFrame DEF InWindow, Marked

LEMMA CallKeepsActivating ==
  ASSUME Inv, NEW c \in Calls, CallStep(c), TypeOK' PROVE Activating'
<1> USE DEF Inv, TypeOK, Callers, Goto, Return, ownerVars, eventVars
<1> DEFINE Approving ==
             \A d \in Decisions :
               /\ approvals'[d] = approvals[d] \/ approvals'[d] = approvals[d] + 1
               /\ decision'[d] = "approved" => decision[d] = "approved"
           Quiet == activations' = activations /\ contested \subseteq contested'
<1>1. Quiet /\ Approving
  <2>1. ASSUME NEW t \in Tools, NEW e \in Decisions, Ratify(c, e, t) PROVE Quiet /\ Approving
    BY <2>1 DEF Ratify
  <2>2. ASSUME NEW t \in Tools, List(c, t) PROVE Quiet /\ Approving
    BY <2>2 DEF List
  <2>3. ASSUME NEW e \in Decisions, Consider(c, e) PROVE Quiet /\ Approving
    BY <2>3 DEF Consider
  <2>4. CASE NoteCall(c)
    BY <2>4 DEF NoteCall, Contest
  <2>5. CASE Refuse(c) \/ MarkExecuting(c) \/ Perform(c)
    BY <2>5 DEF Refuse, MarkExecuting, Perform
  <2>6. CASE CountStarted(c) \/ Close(c)
    BY <2>6 DEF CountStarted, Close
  <2> QED BY <2>1, <2>2, <2>3, <2>4, <2>5, <2>6 DEF CallStep
<1>2. ASSUME NEW b \in CronRuns PROVE Still(b)
  BY CallersAssumption, OthersStay
<1> QED BY <1>1, <1>2, ActivatingFrame DEF InWindow, Marked, Still

LEMMA CronKeepsActivating ==
  ASSUME Inv, NEW c \in CronRuns, CronStep(c), TypeOK' PROVE Activating'
<1> USE DEF Inv, TypeOK, Callers, Goto, Return, ownerVars, eventVars
<1> DEFINE NoneApproved ==
             approvals' = approvals /\ \A d \in Decisions : decision'[d] = "approved" => decision[d] = "approved"
<1>1. NoneApproved
  <2>1. ASSUME NEW e \in Decisions, CronConsider(c, e) PROVE NoneApproved
    BY <2>1 DEF CronConsider
  <2>2. CASE CronList(c) \/ CronNothing(c) \/ CronMark(c) \/ CronClose(c)
    BY <2>2 DEF CronList, CronNothing, CronMark, CronClose, Conclude
  <2>3. CASE NoteActivation(c) \/ Arm(c) \/ RecordArmed(c) \/ RecordRefused(c)
    BY <2>3 DEF NoteActivation, Arm, RecordArmed, RecordRefused
  <2> QED BY <2>1, <2>2, <2>3 DEF CronStep
<1>3. ASSUME NEW b \in CronRuns, b # c
      PROVE  pc'[b] = pc[b] /\ todo'[b] = todo[b] /\ at'[b] = at[b]
  BY <1>3, OthersStay DEF Still
<1>4. ASSUME activations' = activations, contested' = contested,
             \A d \in Decisions :
               /\ InWindow(c, d)' => InWindow(c, d) \/ decision[d] = "approved"
               /\ Marked(c, d)' /\ decision'[d] = "approved" => Marked(c, d)
      PROVE  Activating'
  <2>1. \A b \in CronRuns, d \in Decisions :
          /\ InWindow(b, d)' => InWindow(b, d) \/ decision[d] = "approved"
          /\ Marked(b, d)' /\ decision'[d] = "approved" => Marked(b, d)
    BY <1>3, <1>4 DEF InWindow, Marked
  <2> QED BY <1>1, <1>4, <2>1, ActivatingFrame
<1>5. CASE CronList(c)
  BY <1>4, <1>5, OldestAreApproved DEF CronList, InWindow, Marked
<1>6. ASSUME NEW d \in Decisions, CronConsider(c, d) PROVE Activating'
  <2>1. CASE Eligible(d)
    BY <1>4, <1>6, <2>1 DEF CronConsider, InWindow, Marked
  <2>2. CASE ~Eligible(d)
    BY <1>4, <1>6, <2>2 DEF CronConsider, InWindow, Marked
  <2> QED BY <2>1, <2>2
<1>7. CASE CronMark(c)
  BY <1>4, <1>7 DEF CronMark, InWindow, Marked
<1>8. CASE CronNothing(c) \/ Arm(c) \/ RecordArmed(c) \/ RecordRefused(c)
  BY <1>4, <1>8 DEF CronNothing, Arm, RecordArmed, RecordRefused, InWindow, Marked
<1>9. CASE CronClose(c)
  <2>1. PICK from \in {"settled", "returned"}, status \in Status : Conclude(c, from, status)
    BY <1>9 DEF CronClose, Status
  <2> QED BY <1>4, <2>1 DEF Conclude, InWindow, Marked
<1>10. CASE NoteActivation(c)
  <2>0. PICK k \in Decisions : k = at[c]
    BY <1>10 DEF NoteActivation, Held, Step
  <2>1. InWindow(c, k) /\ Marked(c, k)
    BY <1>10, <2>0 DEF NoteActivation, InWindow, Marked
  <2>2. \A d \in Decisions : ~InWindow(c, d)' /\ ~Marked(c, d)'
    BY <1>10 DEF NoteActivation, InWindow, Marked, Held
  <2>3. contested \subseteq contested' /\ decision' = decision
    BY <1>10 DEF NoteActivation, Contest
  <2>4. activations' = [activations EXCEPT ![k] = @ + 1]
    BY <1>10, <2>0 DEF NoteActivation
  <2>5. \A b \in CronRuns, d \in Decisions : b # c =>
          (InWindow(b, d)' <=> InWindow(b, d)) /\ (Marked(b, d)' <=> Marked(b, d))
    BY <1>3 DEF InWindow, Marked
  <2>6. SUFFICES ASSUME NEW d \in Decisions \ contested'
                 PROVE  /\ activations'[d] <= approvals'[d]
                        /\ decision'[d] = "approved" => activations'[d] < approvals'[d]
                        /\ \A b \in CronRuns :
                             /\ InWindow(b, d)' => activations'[d] < approvals'[d]
                             /\ Marked(b, d)' /\ decision'[d] = "approved"
                                  => activations'[d] + 1 < approvals'[d]
    BY DEF Activating, Marked
  <2>7. CASE d = k
    <3>1. ASSUME NEW b \in CronRuns PROVE ~InWindow(b, d)' /\ ~Marked(b, d)'
      BY <1>10, <2>0, <2>2, <2>5, <2>7 DEF NoteActivation, Contest, InWindow, Marked
    <3>2. activations[k] < approvals[k]
      BY <2>1, <2>3, <2>7 DEF Activating
    <3>3. decision[k] = "approved" => activations[k] + 1 < approvals[k]
      BY <2>1, <2>3, <2>7 DEF Activating, Marked
    <3>4. activations'[k] = activations[k] + 1 /\ activations[k] \in Nat /\ approvals[k] \in Nat
      BY <2>4
    <3> QED BY <1>1, <2>3, <2>7, <3>1, <3>2, <3>3, <3>4
  <2>8. CASE d # k
    <3>1. activations'[d] = activations[d]
      BY <2>4, <2>8
    <3>2. \A b \in CronRuns : (InWindow(b, d)' => InWindow(b, d)) /\ (Marked(b, d)' => Marked(b, d))
      BY <2>2, <2>5
    <3> QED BY <1>1, <2>3, <3>1, <3>2 DEF Activating, Marked
  <2> QED BY <2>7, <2>8
<1> QED BY <1>5, <1>6, <1>7, <1>8, <1>9, <1>10 DEF CronStep

LEMMA CrashKeepsActivating ==
  ASSUME Inv, NEW c \in Callers, Crash(c), TypeOK' PROVE Activating'
<1> USE DEF Inv, TypeOK, Callers, Goto, Return, ownerVars, Crash
<1>1. UNCHANGED <<activations, contested, approvals, decision>>
  OBVIOUS
<1>2. \A b \in CronRuns, d \in Decisions :
        (InWindow(b, d)' => InWindow(b, d)) /\ (Marked(b, d)' => Marked(b, d))
  BY DEF InWindow, Marked
<1> QED BY <1>1, <1>2, ActivatingFrame

LEMMA StepKeepsInv == ASSUME Inv, [Next]_vars PROVE Inv'
<1>1. CASE Next
  <2>1. TypeOK' /\ Held'
    BY <1>1, NextKeepsType DEF Inv
  <2>2. Activating'
    BY <1>1, <2>1, OwnerKeepsActivating, CallKeepsActivating, CronKeepsActivating,
       CrashKeepsActivating DEF Next
  <2> QED BY <1>1, <2>1, <2>2, NextKeepsUnborn, NextKeepsSpending DEF Inv
<1>2. CASE UNCHANGED vars
  BY <1>2 DEF Inv, TypeOK, Held, Unborn, Spending, Activating, InWindow, vars, ownerVars,
              eventVars, callerVars
<1> QED BY <1>1, <1>2

-----------------------------------------------------------------------------
\* The inductive invariant of decisions, events and callers.
THEOREM AuthorityIsAccounted == Spec => []Inv
<1>1. Init => Inv
  BY InvInit
<1>2. Inv /\ [Next]_vars => Inv'
  BY StepKeepsInv
<1> QED BY <1>1, <1>2, PTL DEF Spec

\* The budget of the count-then-insert in beginOperatorAutonomyAuthorization.
THEOREM BudgetIsKept == Spec => []BudgetKept
<1>1. Inv => BudgetKept
  BY DEF Inv, Spending, BudgetKept
<1> QED BY <1>1, AuthorityIsAccounted, PTL

\* Decisions, requests, events and callers are always typed.
THEOREM AuthorityIsTyped == Spec => []TypeOK
<1>1. Inv => TypeOK
  BY DEF Inv
<1> QED BY <1>1, AuthorityIsAccounted, PTL

\* One automatic canary activation for each approval of the owner.
THEOREM ActivationsAreApproved == Spec => []ActivationsApproved
<1>1. Inv => ActivationsApproved
  BY DEF Inv, Activating, ActivationsApproved
<1> QED BY <1>1, AuthorityIsAccounted, PTL

\* Late writes reopen no decision.
THEOREM OnlyTheOwnerReopens == Spec => ReopenedByOwner
<1>1. ASSUME Inv, Next, NEW d \in Decisions, decision[d] \notin Open, decision'[d] \in Open
      PROVE  approvals'[d] = approvals[d] + 1
  <2> USE DEF Inv, TypeOK, Open
  <2>1. CASE Owner
    <3>1. ASSUME NEW o \in Owners, ResolveWrite(o) PROVE approvals'[d] = approvals[d] + 1
      <4>1. request[o].of = d
        BY <1>1, <3>1 DEF ResolveWrite
      <4>2. request[o].step = "approve"
        BY <1>1, <3>1, <4>1 DEF ResolveWrite, Resolution, Answer
      <4>3. approvals' = [approvals EXCEPT ![request[o].of] = @ + 1]
        BY <3>1, <4>2 DEF ResolveWrite
      <4> QED BY <1>1, <4>1, <4>3
    <3>2. ASSUME NEW e \in Decisions, Propose(e) \/ Supersede(e) \/ DropPost(e) PROVE FALSE
      BY <1>1, <3>2 DEF Propose, Supersede, DropPost
    <3>3. ASSUME NEW o \in Owners, MarkWrite(o) \/ MarkCount(o) PROVE FALSE
      BY <1>1, <3>3 DEF MarkWrite, MarkCount
    <3>4. ASSUME NEW o \in Owners, NEW e \in Decisions,
                 MarkCheck(o, e) \/ \E answer \in Answer : ResolveCheck(o, e, answer)
          PROVE  FALSE
      BY <1>1, <3>4 DEF MarkCheck, ResolveCheck
    <3> QED BY <2>1, <3>1, <3>2, <3>3, <3>4 DEF Owner
  <2>2. ASSUME NEW c \in Calls, CallStep(c) PROVE approvals'[d] = approvals[d] + 1
    <3>1. ASSUME NEW t \in Tools, NEW e \in Decisions, Ratify(c, e, t)
          PROVE  approvals'[d] = approvals[d] + 1
      BY <1>1, <3>1 DEF Ratify
    <3>2. ASSUME NEW t \in Tools, List(c, t) PROVE FALSE
      BY <1>1, <3>2 DEF List
    <3>3. ASSUME NEW e \in Decisions, Consider(c, e) PROVE FALSE
      BY <1>1, <3>3 DEF Consider
    <3>4. CASE Refuse(c) \/ NoteCall(c) \/ MarkExecuting(c) \/ Perform(c) \/ CountStarted(c) \/ Close(c)
      BY <1>1, <3>4 DEF Refuse, NoteCall, MarkExecuting, Perform, CountStarted, Close
    <3> QED BY <2>2, <3>1, <3>2, <3>3, <3>4 DEF CallStep
  <2>3. ASSUME NEW c \in CronRuns, CronStep(c) PROVE FALSE
    BY <1>1, <2>3 DEF CronStep, CronList, CronConsider, CronNothing, CronMark, NoteActivation,
                      Arm, RecordArmed, RecordRefused, CronClose, Conclude
  <2>4. ASSUME NEW c \in Callers, Crash(c) PROVE FALSE
    BY <1>1, <2>4 DEF Crash
  <2> QED BY <1>1, <2>1, <2>2, <2>3, <2>4 DEF Next
<1>2. Inv /\ [Next]_vars =>
        [\A d \in Decisions :
           decision[d] \notin Open /\ decision'[d] \in Open => approvals'[d] = approvals[d] + 1]_vars
  BY <1>1
<1> QED BY <1>2, AuthorityIsAccounted, PTL DEF Spec, ReopenedByOwner

-----------------------------------------------------------------------------
(***************************************************************************)
(* The place of an approved decision among those that the cron lists.      *)
(***************************************************************************)

\* A step approves nothing, or exactly one decision, which goes to the back.
NothingApproved ==
  older' = older /\ \A d \in Decisions : decision'[d] = "approved" => decision[d] = "approved"
StampedLast(k) ==
  StampApproval(k) /\ \A d \in Decisions : d # k => decision'[d] = decision[d]

LEMMA OnlyAnApprovalStamps ==
  ASSUME TypeOK, Next PROVE NothingApproved \/ \E k : StampedLast(k)
<1> USE DEF TypeOK, ownerVars, eventVars, NothingApproved
<1>1. CASE Owner
  <2>1. ASSUME NEW o \in Owners, ResolveWrite(o) PROVE NothingApproved \/ \E k : StampedLast(k)
    <3>1. CASE request[o].step = "approve"
      BY <2>1, <3>1 DEF ResolveWrite, StampedLast
    <3>2. CASE request[o].step # "approve"
      BY <2>1, <3>2 DEF ResolveWrite, Resolution, Answer
    <3> QED BY <3>1, <3>2
  <2>2. ASSUME NEW d \in Decisions, Propose(d) \/ Supersede(d) \/ DropPost(d) PROVE NothingApproved
    BY <2>2 DEF Propose, Supersede, DropPost
  <2>3. ASSUME NEW o \in Owners, MarkWrite(o) \/ MarkCount(o) PROVE NothingApproved
    BY <2>3 DEF MarkWrite, MarkCount
  <2>4. ASSUME NEW o \in Owners, NEW d \in Decisions,
               MarkCheck(o, d) \/ \E answer \in Answer : ResolveCheck(o, d, answer)
        PROVE  NothingApproved
    BY <2>4 DEF MarkCheck, ResolveCheck
  <2> QED BY <1>1, <2>1, <2>2, <2>3, <2>4 DEF Owner
<1>2. ASSUME NEW c \in Calls, CallStep(c) PROVE NothingApproved
  <2>1. ASSUME NEW t \in Tools, NEW d \in Decisions, Ratify(c, d, t) PROVE NothingApproved
    BY <2>1 DEF Ratify
  <2>2. ASSUME NEW t \in Tools, List(c, t) PROVE NothingApproved
    BY <2>2 DEF List
  <2>3. ASSUME NEW d \in Decisions, Consider(c, d) PROVE NothingApproved
    BY <2>3 DEF Consider
  <2>4. CASE Refuse(c) \/ NoteCall(c) \/ MarkExecuting(c) \/ Perform(c) \/ CountStarted(c) \/ Close(c)
    BY <2>4 DEF Refuse, NoteCall, MarkExecuting, Perform, CountStarted, Close
  <2> QED BY <1>2, <2>1, <2>2, <2>3, <2>4 DEF CallStep
<1>3. ASSUME NEW c \in CronRuns, CronStep(c) PROVE NothingApproved
  <2>1. ASSUME NEW d \in Decisions, CronConsider(c, d) PROVE NothingApproved
    BY <2>1 DEF CronConsider
  <2>2. CASE CronList(c) \/ CronNothing(c) \/ CronMark(c) \/ CronClose(c)
    BY <2>2 DEF CronList, CronNothing, CronMark, CronClose, Conclude
  <2>3. CASE NoteActivation(c) \/ Arm(c) \/ RecordArmed(c) \/ RecordRefused(c)
    BY <2>3 DEF NoteActivation, Arm, RecordArmed, RecordRefused
  <2> QED BY <1>3, <2>1, <2>2, <2>3 DEF CronStep
<1>4. ASSUME NEW c \in Callers, Crash(c) PROVE NothingApproved
  BY <1>4 DEF Crash
<1> QED BY <1>1, <1>2, <1>3, <1>4 DEF Next

\* Of two approved decisions, exactly one was approved before the other.
Ordered == \A d, e \in Approved : d # e => (d \in older[e] <=> e \notin older[d])

LEMMA StepKeepsOrdered == ASSUME TypeOK, Ordered, [Next]_vars PROVE Ordered'
<1> SUFFICES ASSUME NEW d \in Approved', NEW e \in Approved', d # e
             PROVE  d \in older'[e] <=> e \notin older'[d]
  BY DEF Ordered
<1>0. /\ d \in Decisions /\ e \in Decisions
      /\ decision'[d] = "approved" /\ decision'[e] = "approved"
  BY DEF Approved
<1>1. CASE NothingApproved
  BY <1>0, <1>1 DEF NothingApproved, Ordered, Approved
<1>2. ASSUME NEW k, StampedLast(k) PROVE d \in older'[e] <=> e \notin older'[d]
  <2> USE <1>0, <1>2 DEF StampedLast, StampApproval, Approved, TypeOK
  <2>1. CASE d = k
    BY <2>1
  <2>2. CASE e = k
    BY <2>2
  <2>3. CASE d # k /\ e # k
    <3>1. older'[d] = older[d] \ {k} /\ older'[e] = older[e] \ {k}
      BY <2>3
    <3>2. d \in Approved /\ e \in Approved
      BY <2>3
    <3> QED BY <2>3, <3>1, <3>2 DEF Ordered
  <2> QED BY <2>1, <2>2, <2>3
<1>3. CASE UNCHANGED vars
  BY <1>0, <1>3 DEF vars, ownerVars, Ordered, Approved
<1> QED BY <1>1, <1>2, <1>3, OnlyAnApprovalStamps

\* The list that ORDER BY approved_at LIMIT draws on is an order of the approved.
THEOREM ApprovalsAreOrdered == Spec => []Ordered
<1>1. Init => Ordered
  BY DEF Init, Ordered, Approved
<1>2. TypeOK /\ Ordered /\ [Next]_vars => Ordered'
  BY StepKeepsOrdered
<1> QED BY <1>1, <1>2, AuthorityIsTyped, PTL DEF Spec

\* Nobody gets ahead: unless it is approved anew, an approved decision has before
\* it only decisions that were before it, so a place among the first stays one.
AheadOf(d) == older[d] \cap Approved
PlaceIsKept ==
  [][\A d \in Approved : d \in Approved' => \/ AheadOf(d)' \subseteq AheadOf(d)
                                            \/ StampApproval(d)]_vars

\* Decisions that the cron passes over may hide one, but never one it listed.
THEOREM NobodyGetsAhead == Spec => PlaceIsKept
<1>1. ASSUME TypeOK, Next, NEW d \in Approved, d \in Approved', ~StampApproval(d)
      PROVE  AheadOf(d)' \subseteq AheadOf(d)
  <2> USE DEF AheadOf, Approved
  <2>1. CASE NothingApproved
    BY <2>1 DEF NothingApproved
  <2>2. ASSUME NEW k, StampedLast(k) PROVE AheadOf(d)' \subseteq AheadOf(d)
    <3>1. k # d
      BY <1>1, <2>2 DEF StampedLast
    <3>2. older'[d] = older[d] \ {k}
      BY <2>2, <3>1 DEF StampedLast, StampApproval
    <3> QED BY <2>2, <3>2 DEF StampedLast
  <2> QED BY <1>1, <2>1, <2>2, OnlyAnApprovalStamps
<1>2. TypeOK /\ [Next]_vars =>
        [\A d \in Approved : d \in Approved' => \/ AheadOf(d)' \subseteq AheadOf(d)
                                                \/ StampApproval(d)]_vars
  BY <1>1
<1> QED BY <1>2, AuthorityIsTyped, PTL DEF Spec, PlaceIsKept
=============================================================================
