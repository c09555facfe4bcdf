---------------------- MODULE HardeningIncidents_proofs ----------------------
(***************************************************************************)
(* Proofs about HardeningIncidents, for every set of incidents, failures,  *)
(* rules and callers and every bound.                                      *)
(***************************************************************************)
EXTENDS HardeningIncidents, TLAPS

Steps == {"idle", "unmatched", "new", "inserted", "closing",
          "advancing", "advanced", "listed", "anchored", "grounded", "sweeping"}

RowsTyped == incident \in [Incidents -> Row]
JournalTyped == journal \in [Incidents -> SUBSET Event]
JobsTyped == job \in [Callers -> Job]
HistoryTyped ==
  /\ crashes \in Nat
  /\ unseen \in [Incidents -> SUBSET Incidents]
  /\ lost \subseteq Incidents

LEMMA TypeParts == TypeOK <=> RowsTyped /\ JournalTyped /\ JobsTyped /\ HistoryTyped
BY DEF TypeOK, RowsTyped, JournalTyped, JobsTyped, HistoryTyped

\* The positions of the states, as numbers.
USE DEF Absent, Detected, Resumed, Closed, States

LEMMA NoRowTyped == NoRow \in Row
BY FailuresAssumption DEF NoRow, Row, MaybeIncident, MaybeRule, Sources
LEMMA NoJobTyped == NoJob \in Job
BY FailuresAssumption DEF NoJob, Job, MaybeIncident, MaybeRule

LEMMA GotoTyped ==
  ASSUME JobsTyped, NEW c \in Callers, NEW step \in Steps, Goto(c, step)
  PROVE  JobsTyped'
BY DEF JobsTyped, Goto, Job, Steps
LEMMA EndTyped ==
  ASSUME JobsTyped, NEW c \in Callers, End(c)
  PROVE  JobsTyped'
BY NoJobTyped DEF JobsTyped, End

\* A call that takes the job j.
LEMMA TakesTyped ==
  ASSUME JobsTyped, NEW c \in Callers, NEW j \in Job, job' = [job EXCEPT ![c] = j]
  PROVE  JobsTyped'
BY DEF JobsTyped

LEMMA RowFields ==
  ASSUME RowsTyped, NEW i \in Incidents
  PROVE  /\ incident[i] \in Row
         /\ incident[i].failure \in Failures
         /\ incident[i].target \in MaybeIncident
         /\ incident[i].blocking \in BOOLEAN
         /\ incident[i].state \in 0..12
         /\ incident[i].evidence \subseteq Kinds
         /\ incident[i].rule \in MaybeRule
         /\ incident[i].closedBy \in Sources
<1>1. incident[i] \in Row
  BY DEF RowsTyped
<1> QED BY <1>1 DEF Row

LEMMA JobFields ==
  ASSUME JobsTyped, NEW c \in Callers
  PROVE  /\ job[c] \in Job
         /\ job[c].step \in Steps
         /\ job[c].failure \in Failures
         /\ job[c].target \in MaybeIncident
         /\ job[c].blocking \in BOOLEAN
         /\ job[c].at \in MaybeIncident
         /\ job[c].from \in 0..12
         /\ job[c].evidence \subseteq Kinds
         /\ job[c].rule \in MaybeRule
         /\ job[c].listed \subseteq Incidents \X States
         /\ job[c].known \subseteq Incidents
<1>1. job[c] \in Job
  BY DEF JobsTyped
<1> QED BY <1>1 DEF Job, Steps

-----------------------------------------------------------------------------
(***************************************************************************)
(* Types, and what a caller knows of the incidents that it works on.       *)
(***************************************************************************)
Reconciling == {"listed", "anchored", "grounded"}

\* What a job says of the rows.
Knows(j, rows) ==
  /\ j.step \in {"inserted", "advancing", "advanced"} => j.at \in Incidents /\ rows[j.at].state # Absent
  /\ j.step = "inserted" => j.from = Absent
  /\ j.step \in {"advancing", "advanced"} => j.from \in Detected..Resumed
  /\ j.step = "advancing" => j.from <= rows[j.at].state /\ Proven(j.from + 1, j.evidence, j.rule)
  /\ j.step = "advanced" => j.from < rows[j.at].state
  /\ \A e \in j.listed : rows[e[1]].state # Absent /\ e[2] \in Detected..Resumed
  /\ j.step \in Reconciling => \A e \in j.listed : rows[e[1]].failure \in Client
JobOK(c) == Knows(job[c], incident)

TypeInv == TypeOK /\ \A c \in Callers : JobOK(c)

\* What a step may do to a row: nothing, a new row, or a later state; who and
\* what the incident is about stays.
Keeps(i) ==
  /\ IsClosed(i) => incident'[i] = incident[i]
  /\ incident'[i].state \in {incident[i].state, incident[i].state + 1, Closed}
  /\ incident'[i].state >= incident[i].state
  /\ Exists(i) => /\ incident'[i].failure = incident[i].failure
                  /\ incident'[i].target = incident[i].target

\* The five actions that write rows.
LEMMA Writers ==
  ASSUME Next
  PROVE  \/ UNCHANGED incident
         \/ \E c \in Callers : \/ \E i \in Incidents : Insert(c, i)
                               \/ \E e \in job[c].listed : CloseReplayed(c, e)
                               \/ WriteState(c)
                               \/ CloseReconciled(c)
         \/ CleanUp
<1>1. ASSUME NEW c \in Callers, Record(c)
      PROVE  UNCHANGED incident \/ \E i \in Incidents : Insert(c, i)
  BY <1>1 DEF Record, Fail, LookFamily, Collide, NoteDetected
<1>2. ASSUME NEW c \in Callers, Resolve(c)
      PROVE  UNCHANGED incident \/ \E e \in job[c].listed : CloseReplayed(c, e)
  BY <1>2 DEF Resolve, Succeed
<1>3. ASSUME NEW c \in Callers, Advance(c)
      PROVE  UNCHANGED incident \/ WriteState(c)
  BY <1>3 DEF Advance, ReadForAdvance, NoteAdvance
<1>4. ASSUME NEW c \in Callers, Reconcile(c)
      PROVE  UNCHANGED incident \/ CloseReconciled(c)
  BY <1>4 DEF Reconcile, ListClient, FindAnchor, FindTargets
<1>5. ASSUME NEW c \in Callers, SweepStep(c) \/ Crash(c)
      PROVE  UNCHANGED incident
  BY <1>5 DEF SweepStep, Sweep, SweepOne, Crash
<1> QED BY <1>1, <1>2, <1>3, <1>4, <1>5 DEF Next

\* The rows that become other rows, open before, move on.
LEMMA Rewritten ==
  ASSUME RowsTyped, NEW changed \in SUBSET Incidents, NEW r \in [Incidents -> Row],
         incident' = [i \in Incidents |-> IF i \in changed THEN r[i] ELSE incident[i]],
         \A i \in changed : /\ incident[i].state # 12
                            /\ r[i].state \in {incident[i].state + 1, 12}
                            /\ Exists(i) => /\ r[i].failure = incident[i].failure
                                            /\ r[i].target = incident[i].target
  PROVE  RowsTyped' /\ \A i \in Incidents : Keeps(i)
<1>1. RowsTyped'
  BY DEF RowsTyped
<1>2. ASSUME NEW i \in Incidents PROVE Keeps(i)
  <2>1. CASE i \notin changed
    BY <2>1, RowFields DEF Keeps
  <2>2. CASE i \in changed
    <3>1. incident'[i] = r[i]
      BY <2>2
    <3> QED BY <3>1, <2>2, RowFields DEF Keeps, IsClosed
  <2> QED BY <2>1, <2>2
<1> QED BY <1>1, <1>2
LEMMA RewrittenOne ==
  ASSUME RowsTyped, NEW i \in Incidents, NEW r \in Row, incident' = [incident EXCEPT ![i] = r],
         incident[i].state # 12,
         r.state \in {incident[i].state + 1, 12},
         Exists(i) => r.failure = incident[i].failure /\ r.target = incident[i].target
  PROVE  RowsTyped' /\ \A k \in Incidents : Keeps(k)
<1> DEFINE rows == [k \in Incidents |-> r]
           changed == {i}
<1>1. rows \in [Incidents -> Row] /\ rows[i] = r
  OBVIOUS
<1>2. incident' = [k \in Incidents |-> IF k \in changed THEN rows[k] ELSE incident[k]]
  BY <1>1 DEF RowsTyped
<1>3. changed \in SUBSET Incidents /\ \A k \in changed : k = i
  OBVIOUS
<1> HIDE DEF rows, changed
<1>4. \A k \in changed : /\ incident[k].state # 12
                         /\ rows[k].state \in {incident[k].state + 1, 12}
                         /\ Exists(k) => /\ rows[k].failure = incident[k].failure
                                         /\ rows[k].target = incident[k].target
  BY <1>1, <1>3
<1> QED BY <1>1, <1>2, <1>3, <1>4, Rewritten

LEMMA RowsStep ==
  ASSUME TypeInv, Next
  PROVE  RowsTyped' /\ \A i \in Incidents : Keeps(i)
<1>0. RowsTyped /\ JobsTyped /\ \A c \in Callers : JobOK(c)
  BY TypeParts DEF TypeInv
<1>1. CASE UNCHANGED incident
  BY <1>0, <1>1, RowFields DEF Keeps, RowsTyped
<1>2. ASSUME NEW c \in Callers, NEW i \in Incidents, Insert(c, i)
      PROVE  RowsTyped' /\ \A k \in Incidents : Keeps(k)
  <2> DEFINE r == [NoRow EXCEPT !.failure = job[c].failure, !.target = job[c].target,
                                !.blocking = job[c].blocking, !.state = Detected]
  <2>1. job[c].failure \in Failures /\ job[c].target \in MaybeIncident /\ job[c].blocking \in BOOLEAN
    BY <1>0, JobFields
  <2>2. r \in Row /\ r.state = Detected
    <3>1. Detected \in {Absent} \cup States
      OBVIOUS
    <3> HIDE DEF Absent, Detected, Closed, States
    <3> QED BY <2>1, <3>1, NoRowTyped DEF Row
  <2>3. incident' = [incident EXCEPT ![i] = r] /\ incident[i].state = 0
    BY <1>2 DEF Insert, Exists
  <2> HIDE DEF r
  <2>4. /\ incident[i].state # 12
        /\ r.state \in {incident[i].state + 1, 12}
        /\ ~Exists(i)
    BY <2>2, <2>3 DEF Exists
  <2> QED BY <1>0, <2>2, <2>3, <2>4, RewrittenOne
<1>3. ASSUME NEW c \in Callers, NEW e \in job[c].listed, CloseReplayed(c, e)
      PROVE  RowsTyped' /\ \A k \in Incidents : Keeps(k)
  <2> DEFINE i == e[1]
             r == [incident[i] EXCEPT !.state = Closed, !.closedBy = "replay",
                     !.evidence = @ \cup {"sha", "deployment", "live", "resume"}]
  <2>1. i \in Incidents
    BY <1>0, JobFields
  <2>2. CASE Open(i)
    <3>1. incident[i] \in Row
      BY <1>0, <2>1, RowFields
    <3>2. r \in Row /\ r.state = Closed /\ r.failure = incident[i].failure /\ r.target = incident[i].target
      <4> DEFINE evidence == incident[i].evidence \cup {"sha", "deployment", "live", "resume"}
      <4>1. evidence \in SUBSET Kinds /\ "replay" \in Sources /\ Closed \in {Absent} \cup States
        BY <3>1 DEF Row, Kinds, Sources
      <4>2. r = [incident[i] EXCEPT !.state = Closed, !.closedBy = "replay", !.evidence = evidence]
        OBVIOUS
      <4> HIDE DEF evidence, r, Absent, Detected, Closed, States
      <4> QED BY <3>1, <4>1, <4>2 DEF Row
    <3>3. incident' = [incident EXCEPT ![i] = r]
      BY <1>3, <2>2 DEF CloseReplayed
    <3>4. incident[i].state # 12
      BY <2>2 DEF Open
    <3> HIDE DEF r, i
    <3> QED BY <1>0, <2>1, <3>2, <3>3, <3>4, RewrittenOne
  <2>3. CASE ~Open(i)
    BY <1>3, <2>3, <1>1 DEF CloseReplayed
  <2> QED BY <2>2, <2>3
<1>4. ASSUME NEW c \in Callers, WriteState(c)
      PROVE  RowsTyped' /\ \A k \in Incidents : Keeps(k)
  <2> DEFINE i == job[c].at
             by == IF job[c].from + 1 = Closed THEN "lifecycle" ELSE "nobody"
             r == [incident[i] EXCEPT !.state = job[c].from + 1, !.evidence = job[c].evidence,
                     !.rule = job[c].rule, !.closedBy = by]
  <2>1. i \in Incidents /\ job[c].from \in 1..11 /\ incident[i] \in Row
    BY <1>0, <1>4, RowFields DEF WriteState, JobOK, Knows
  <2>2. CASE incident[i].state = job[c].from
    <3>3. by \in Sources /\ job[c].from + 1 \in {Absent} \cup States
      BY <2>1 DEF Sources
    <3>4. job[c].evidence \subseteq Kinds /\ job[c].rule \in MaybeRule
      BY <1>0, JobFields
    <3>1. r \in Row /\ r.state = job[c].from + 1 /\ r.failure = incident[i].failure /\ r.target = incident[i].target
      BY <2>1, <3>3, <3>4 DEF Row
    <3>2. incident' = [incident EXCEPT ![i] = r]
      BY <1>0, <1>4, <2>2, <2>1 DEF WriteState, RowsTyped
    <3> HIDE DEF r, i
    <3>5. incident[i].state # 12 /\ r.state \in {incident[i].state + 1, 12}
      BY <2>1, <2>2, <3>1
    <3> QED BY <1>0, <2>1, <3>1, <3>2, <3>5, RewrittenOne
  <2>3. CASE incident[i].state # job[c].from
    BY <1>4, <2>3, <1>1 DEF WriteState
  <2> QED BY <2>2, <2>3
<1>5. ASSUME NEW c \in Callers, CloseReconciled(c)
      PROVE  RowsTyped' /\ \A k \in Incidents : Keeps(k)
  <2> DEFINE by(i) == IF i \in job[c].known THEN "provider" ELSE "target"
             r(i) == [incident[i] EXCEPT !.state = Closed, !.evidence = Kinds, !.rule = Convergence,
                                         !.closedBy = by(i)]
             closing == {i \in Incidents : <<i, incident[i].state>> \in job[c].listed}
             rows == [i \in Incidents |-> r(i)]
  <2>1. \A i \in Incidents : by(i) \in Sources
    BY DEF Sources
  <2> HIDE DEF by
  <2>2. ASSUME NEW i \in Incidents
        PROVE  r(i) \in Row /\ r(i).state = Closed /\ r(i).failure = incident[i].failure /\ r(i).target = incident[i].target
    <3>1. incident[i] \in Row
      BY <1>0, RowFields
    <3>2. Convergence \in MaybeRule
      BY RulesAssumption DEF MaybeRule
    <3>3. Kinds \in SUBSET Kinds /\ Closed \in {Absent} \cup States
      OBVIOUS
    <3> HIDE DEF Absent, Detected, Closed, States
    <3> QED BY <2>1, <3>1, <3>2, <3>3 DEF Row
  <2>3. \A i \in closing : incident[i].state \in 1..11
    BY <1>0 DEF JobOK, Knows
  <2>4. incident' = [i \in Incidents |-> IF i \in closing THEN rows[i] ELSE incident[i]]
    BY <1>5 DEF CloseReconciled, by
  <2> HIDE DEF r
  <2>5. rows \in [Incidents -> Row] /\ \A i \in Incidents : rows[i] = r(i)
    BY <2>2
  <2> HIDE DEF rows
  <2>6. closing \in SUBSET Incidents
    OBVIOUS
  <2> HIDE DEF closing
  <2>7. \A i \in closing : /\ incident[i].state # 12
                           /\ rows[i].state \in {incident[i].state + 1, 12}
                           /\ rows[i].failure = incident[i].failure
                           /\ rows[i].target = incident[i].target
    BY <2>2, <2>3, <2>5, <2>6
  <2> QED BY <1>0, <2>4, <2>5, <2>6, <2>7, Rewritten
<1>6. ASSUME CleanUp
      PROVE  RowsTyped' /\ \A k \in Incidents : Keeps(k)
  <2> DEFINE rule(i) == IF incident[i].rule = NoRule THEN EmptyStateRule ELSE incident[i].rule
             r(i) == [incident[i] EXCEPT !.state = Closed, !.evidence = @ \cup {"cause", "live", "resume"},
                                         !.rule = rule(i), !.closedBy = "expected"]
             found == {i \in Incidents : Open(i) /\ incident[i].failure \in ExpectedEmpty}
             rows == [i \in Incidents |-> r(i)]
  <2>1. incident' = [i \in Incidents |-> IF i \in found THEN rows[i] ELSE incident[i]]
    BY <1>0, <1>6 DEF CleanUp, RowsTyped
  <2>2. ASSUME NEW i \in Incidents
        PROVE  r(i) \in Row /\ r(i).state = Closed /\ r(i).failure = incident[i].failure /\ r(i).target = incident[i].target
    <3>1. incident[i] \in Row
      BY <1>0, RowFields
    <3>2. rule(i) \in MaybeRule
      BY <3>1, RulesAssumption DEF MaybeRule, Row
    <3> DEFINE evidence == incident[i].evidence \cup {"cause", "live", "resume"}
    <3>3. evidence \in SUBSET Kinds /\ "expected" \in Sources /\ Closed \in {Absent} \cup States
      BY <3>1 DEF Row, Kinds, Sources
    <3>4. r(i) = [incident[i] EXCEPT !.state = Closed, !.evidence = evidence, !.rule = rule(i), !.closedBy = "expected"]
      OBVIOUS
    <3> HIDE DEF rule, evidence, r, Absent, Detected, Closed, States
    <3> QED BY <3>1, <3>2, <3>3, <3>4 DEF Row
  <2>3. \A i \in found : incident[i].state \in 1..11
    BY DEF Open
  <2> HIDE DEF r
  <2>4. rows \in [Incidents -> Row] /\ \A i \in Incidents : rows[i] = r(i)
    BY <2>2
  <2> HIDE DEF rows
  <2>5. found \in SUBSET Incidents
    OBVIOUS
  <2> HIDE DEF found
  <2>6. \A i \in found : /\ incident[i].state # 12
                         /\ rows[i].state \in {incident[i].state + 1, 12}
                         /\ rows[i].failure = incident[i].failure
                         /\ rows[i].target = incident[i].target
    BY <2>2, <2>3, <2>4, <2>5
  <2> QED BY <1>0, <2>1, <2>4, <2>5, <2>6, Rewritten
<1> QED BY <1>1, <1>2, <1>3, <1>4, <1>5, <1>6, Writers

\* What a job says stays true.
LEMMA KnowsStays ==
  ASSUME TypeInv, Next, NEW j \in Job, Knows(j, incident)
  PROVE  Knows(j, incident')
<1>1. /\ RowsTyped
      /\ RowsTyped'
      /\ \A i \in Incidents : Keeps(i)
  BY RowsStep, TypeParts DEF TypeInv
<1>2. \A i \in Incidents : incident[i].state \in 0..12 /\ incident'[i].state \in 0..12
  BY <1>1 DEF RowsTyped, Row
<1>3. \A e \in j.listed : e[1] \in Incidents
  BY DEF Job
<1>4. j.from \in 0..12
  BY DEF Job
<1> QED BY <1>1, <1>2, <1>3, <1>4 DEF Knows, Keeps, Exists

LEMMA Takes ==
  ASSUME TypeInv, Next, NEW c \in Callers, NEW j \in Job,
         job' = [job EXCEPT ![c] = j], Knows(j, incident')
  PROVE  JobsTyped' /\ \A d \in Callers : JobOK(d)'
<1>1. JobsTyped /\ \A d \in Callers : Knows(job[d], incident)
  BY TypeParts DEF TypeInv, JobOK
<1>2. JobsTyped'
  BY <1>1, TakesTyped
<1>3. ASSUME NEW d \in Callers PROVE Knows(job'[d], incident')
  <2>1. CASE d = c
    BY <1>1, <2>1 DEF JobsTyped
  <2>2. CASE d # c
    <3>1. job'[d] = job[d] /\ job[d] \in Job
      BY <1>1, <2>2 DEF JobsTyped
    <3> QED BY <1>1, <3>1, KnowsStays
  <2> QED BY <2>1, <2>2
<1> QED BY <1>2, <1>3 DEF JobOK
LEMMA Ends ==
  ASSUME TypeInv, Next, NEW c \in Callers, End(c)
  PROVE  JobsTyped' /\ \A d \in Callers : JobOK(d)'
<1>1. Knows(NoJob, incident')
  BY DEF Knows, NoJob, Reconciling
<1> QED BY <1>1, NoJobTyped, Takes DEF End

\* What a caller knows before the step.
LEMMA JobBefore ==
  ASSUME TypeInv, NEW c \in Callers
  PROVE  /\ job \in [Callers -> Job] /\ job[c] \in Job /\ Knows(job[c], incident)
         /\ incident \in [Incidents -> Row]
         /\ \A i \in Incidents : incident[i].state \in 0..12 /\ incident[i].evidence \subseteq Kinds
                                 /\ incident[i].rule \in MaybeRule
<1>1. RowsTyped /\ JobsTyped /\ JobOK(c)
  BY TypeParts DEF TypeInv
<1> QED BY <1>1, RowFields DEF RowsTyped, JobsTyped, JobOK

LEMMA RecordJobs ==
  ASSUME TypeInv, Next, NEW c \in Callers, Record(c)
  PROVE  JobsTyped' /\ \A d \in Callers : JobOK(d)'
<1>0. job \in [Callers -> Job] /\ job[c] \in Job /\ Knows(job[c], incident)
  BY JobBefore
<1>1. ASSUME NEW f \in Failures, NEW t \in MaybeIncident, Fail(c, f, t)
      PROVE  JobsTyped' /\ \A d \in Callers : JobOK(d)'
  <2> DEFINE j == [job[c] EXCEPT !.step = "unmatched", !.failure = f, !.target = t]
  <2>1. j \in Job /\ Knows(j, incident')
    BY <1>0, <1>1 DEF Job, Knows, Fail, Reconciling
  <2>2. job' = [job EXCEPT ![c] = j]
    BY <1>0, <1>1 DEF Fail
  <2> HIDE DEF j
  <2> QED BY <2>1, <2>2, Takes
<1>2. ASSUME LookFamily(c) PROVE JobsTyped' /\ \A d \in Callers : JobOK(d)'
  <2> DEFINE f == job[c].failure
             seen == {i \in Incidents : Visible(i)}
             late == f \notin Efficiency \/ Regression(f)
             j == [job[c] EXCEPT !.step = "new", !.blocking = late, !.known = seen]
  <2>1. CASE End(c)
    BY <2>1, Ends
  <2>2. CASE job' = [job EXCEPT ![c].step = "new", ![c].blocking = late, ![c].known = seen]
    <3>1. seen \in SUBSET Incidents /\ late \in BOOLEAN
      OBVIOUS
    <3>2. job' = [job EXCEPT ![c] = j]
      BY <1>0, <2>2
    <3>3. UNCHANGED incident
      BY <1>2 DEF LookFamily
    <3> HIDE DEF seen, late
    <3>4. j \in Job
      BY <1>0, <3>1 DEF Job
    <3>5. Knows(j, incident')
      BY <1>0, <3>3 DEF Knows, Reconciling, Job
    <3> HIDE DEF j
    <3> QED BY <3>2, <3>4, <3>5, Takes
  <2> QED BY <1>2, <2>1, <2>2 DEF LookFamily
<1>3. ASSUME Collide(c) \/ NoteDetected(c) PROVE JobsTyped' /\ \A d \in Callers : JobOK(d)'
  BY <1>3, Ends DEF Collide, NoteDetected
<1>4. ASSUME NEW i \in Incidents, Insert(c, i) PROVE JobsTyped' /\ \A d \in Callers : JobOK(d)'
  <2> DEFINE j == [NoJob EXCEPT !.step = "inserted", !.at = i]
  <2>1. incident'[i].state = Detected
    BY <1>4, JobBefore DEF Insert, NoRow
  <2>2. j \in Job
    BY NoJobTyped DEF Job, MaybeIncident
  <2>3. Knows(j, incident')
    BY <2>1 DEF Knows, NoJob, Reconciling
  <2>4. job' = [job EXCEPT ![c] = j]
    BY <1>4 DEF Insert
  <2> HIDE DEF j
  <2> QED BY <2>2, <2>3, <2>4, Takes
<1> QED BY <1>1, <1>2, <1>3, <1>4 DEF Record

LEMMA ResolveJobs ==
  ASSUME TypeInv, Next, NEW c \in Callers, Resolve(c)
  PROVE  JobsTyped' /\ \A d \in Callers : JobOK(d)'
<1>0. /\ job \in [Callers -> Job] /\ job[c] \in Job /\ Knows(job[c], incident)
      /\ \A i \in Incidents : incident[i].state \in 0..12
  BY JobBefore
<1>1. ASSUME NEW f \in Failures, Succeed(c, f) PROVE JobsTyped' /\ \A d \in Callers : JobOK(d)'
  <2> DEFINE found == {i \in Incidents : Open(i) /\ Request[incident[i].failure] = Request[f]}
             listed == {<<i, incident[i].state>> : i \in found}
             j == [job[c] EXCEPT !.step = "closing", !.listed = listed]
  <2>1. \A e \in listed : e \in Incidents \X States /\ incident[e[1]].state # Absent /\ e[2] \in Detected..Resumed
    BY DEF Open
  <2>2. job' = [job EXCEPT ![c] = j] /\ UNCHANGED incident
    BY <1>0, <1>1 DEF Succeed
  <2> HIDE DEF listed
  <2>3. j \in Job /\ Knows(j, incident')
    BY <1>0, <2>1, <2>2 DEF Job, Knows, Reconciling
  <2> HIDE DEF j
  <2> QED BY <2>2, <2>3, Takes
<1>2. ASSUME NEW e \in job[c].listed, CloseReplayed(c, e) PROVE JobsTyped' /\ \A d \in Callers : JobOK(d)'
  <2> DEFINE j == [job[c] EXCEPT !.listed = @ \ {e}]
  <2>1. CASE End(c)
    BY <2>1, Ends
  <2>2. CASE job' = [job EXCEPT ![c].listed = @ \ {e}]
    <3>1. j \in Job
      BY <1>0 DEF Job
    <3>2. Knows(job[c], incident')
      BY <1>0, KnowsStays
    <3>3. Knows(j, incident')
      BY <1>0, <1>2, <3>2 DEF Knows, Job, CloseReplayed
    <3>4. job' = [job EXCEPT ![c] = j]
      BY <1>0, <2>2
    <3> HIDE DEF j
    <3> QED BY <3>1, <3>3, <3>4, Takes
  <2> QED BY <1>2, <2>1, <2>2 DEF CloseReplayed
<1> QED BY <1>1, <1>2 DEF Resolve

LEMMA AdvanceJobs ==
  ASSUME TypeInv, Next, NEW c \in Callers, Advance(c)
  PROVE  JobsTyped' /\ \A d \in Callers : JobOK(d)'
<1>0. /\ job \in [Callers -> Job] /\ job[c] \in Job /\ Knows(job[c], incident)
      /\ incident \in [Incidents -> Row]
      /\ \A i \in Incidents : incident[i].state \in 0..12 /\ incident[i].evidence \subseteq Kinds
  BY JobBefore
<1>1. ASSUME NEW i \in Incidents, NEW brought \in Offers, NEW blanked \in Offers, NEW rule \in MaybeRule,
             ReadForAdvance(c, i, brought, blanked, rule)
      PROVE  JobsTyped' /\ \A d \in Callers : JobOK(d)'
  <2> DEFINE evidence == (incident[i].evidence \ blanked) \cup brought
             j == [job[c] EXCEPT !.step = "advancing", !.at = i, !.from = incident[i].state,
                                 !.evidence = evidence, !.rule = rule]
  <2>1. job' = [job EXCEPT ![c] = j] /\ UNCHANGED incident /\ Proven(incident[i].state + 1, evidence, rule)
    BY <1>0, <1>1 DEF ReadForAdvance
  <2>2. incident[i].state \in 1..11
    BY <1>1 DEF ReadForAdvance, Open
  <2>3. evidence \in SUBSET Kinds
    BY <1>0, OffersAssumption
  <2> HIDE DEF evidence
  <2>4. j \in Job
    <3>1. incident[i].state \in {Absent} \cup States /\ i \in MaybeIncident
      BY <2>2 DEF MaybeIncident
    <3> HIDE DEF Absent, Detected, Closed, States
    <3> QED BY <1>0, <2>3, <3>1 DEF Job
  <2>5. Knows(j, incident')
    BY <1>0, <2>1, <2>2 DEF Knows, Reconciling, Job
  <2> HIDE DEF j
  <2> QED BY <2>1, <2>4, <2>5, Takes
<1>2. ASSUME WriteState(c) PROVE JobsTyped' /\ \A d \in Callers : JobOK(d)'
  <2> DEFINE i == job[c].at
             j == [job[c] EXCEPT !.step = "advanced"]
  <2>1. i \in Incidents /\ job[c].from \in 1..11 /\ job[c].from <= incident[i].state /\ incident[i].state # Absent
    BY <1>0, <1>2 DEF WriteState, Knows
  <2>2. incident'[i].state \in 0..12 /\ job[c].from < incident'[i].state
    <3>1. CASE incident[i].state # job[c].from
      BY <1>0, <1>2, <2>1, <3>1 DEF WriteState
    <3>2. CASE incident[i].state = job[c].from
      <4>1. incident'[i].state = job[c].from + 1
        BY <1>0, <1>2, <2>1, <3>2 DEF WriteState, Row
      <4> QED BY <2>1, <4>1
    <3> QED BY <3>1, <3>2
  <2>3. Knows(job[c], incident')
    BY <1>0, KnowsStays
  <2>4. j \in Job
    BY <1>0 DEF Job
  <2>5. Knows(j, incident')
    BY <1>0, <1>2, <2>1, <2>2, <2>3 DEF Knows, Reconciling, Job, WriteState
  <2>6. job' = [job EXCEPT ![c] = j]
    BY <1>0, <1>2 DEF WriteState, Goto
  <2> HIDE DEF j
  <2> QED BY <2>4, <2>5, <2>6, Takes
<1>3. ASSUME NoteAdvance(c) PROVE JobsTyped' /\ \A d \in Callers : JobOK(d)'
  <2> DEFINE j == [NoJob EXCEPT !.step = "sweeping", !.listed = job[c].listed]
  <2>1. CASE End(c)
    BY <2>1, Ends
  <2>2. CASE job' = [job EXCEPT ![c] = j]
    <3>1. job[c].listed \in SUBSET (Incidents \X States)
      BY <1>0 DEF Job
    <3>2. j \in Job
      BY NoJobTyped, <3>1 DEF Job
    <3>3. Knows(j, incident')
      BY <1>0, <1>3 DEF Knows, Reconciling, NoJob, NoteAdvance
    <3> HIDE DEF j
    <3> QED BY <2>2, <3>2, <3>3, Takes
  <2> QED BY <1>3, <2>1, <2>2 DEF NoteAdvance
<1> QED BY <1>1, <1>2, <1>3 DEF Advance

LEMMA ReconcileJobs ==
  ASSUME TypeInv, Next, NEW c \in Callers, Reconcile(c)
  PROVE  JobsTyped' /\ \A d \in Callers : JobOK(d)'
<1>0. /\ job \in [Callers -> Job] /\ job[c] \in Job /\ Knows(job[c], incident)
      /\ \A i \in Incidents : incident[i].state \in 0..12
  BY JobBefore
<1>1. ASSUME NEW told \in SUBSET Incidents, ListClient(c, told)
      PROVE  JobsTyped' /\ \A d \in Callers : JobOK(d)'
  <2> DEFINE found == {i \in Incidents : Open(i) /\ incident[i].failure \in Client /\ incident[i].blocking}
             listed == {<<i, incident[i].state>> : i \in found}
             known == {i \in found : incident[i].failure \in Provider /\ (Visible(i) \/ i \in told)}
             j == [job[c] EXCEPT !.step = "listed", !.listed = listed, !.known = known]
  <2>1. \A e \in listed : /\ e \in Incidents \X States /\ incident[e[1]].state # Absent
                          /\ e[2] \in Detected..Resumed /\ incident[e[1]].failure \in Client
    BY DEF Open
  <2>2. known \in SUBSET Incidents
    OBVIOUS
  <2>3. job' = [job EXCEPT ![c] = j] /\ UNCHANGED incident
    BY <1>0, <1>1 DEF ListClient
  <2> HIDE DEF listed, known
  <2>4. j \in Job
    BY <1>0, <2>1, <2>2 DEF Job
  <2>5. Knows(j, incident')
    BY <1>0, <2>1, <2>3 DEF Knows, Reconciling, Job
  <2> HIDE DEF j
  <2> QED BY <2>3, <2>4, <2>5, Takes
<1>2. ASSUME FindAnchor(c) PROVE JobsTyped' /\ \A d \in Callers : JobOK(d)'
  <2>1. ASSUME NEW known \in SUBSET Incidents,
               job' = [job EXCEPT ![c] = [job[c] EXCEPT !.step = "anchored", !.known = known]]
        PROVE  JobsTyped' /\ \A d \in Callers : JobOK(d)'
    <3> DEFINE j == [job[c] EXCEPT !.step = "anchored", !.known = known]
    <3>1. j \in Job
      BY <1>0 DEF Job
    <3>2. Knows(j, incident')
      BY <1>0, <1>2 DEF Knows, Reconciling, Job, FindAnchor
    <3> HIDE DEF j
    <3> QED BY <2>1, <3>1, <3>2, Takes DEF j
  <2>2. CASE Goto(c, "anchored")
    <3>1. job[c].known \in SUBSET Incidents
      BY <1>0 DEF Job
    <3>2. job' = [job EXCEPT ![c] = [job[c] EXCEPT !.step = "anchored", !.known = job[c].known]]
      BY <1>0, <2>2 DEF Goto, Job
    <3> QED BY <2>1, <3>1, <3>2
  <2>3. CASE job' = [job EXCEPT ![c].step = "anchored", ![c].known = {}]
    <3>1. job' = [job EXCEPT ![c] = [job[c] EXCEPT !.step = "anchored", !.known = {}]]
      BY <1>0, <2>3
    <3>2. {} \in SUBSET Incidents
      OBVIOUS
    <3> QED BY <2>1, <3>1, <3>2
  <2> QED BY <1>2, <2>2, <2>3 DEF FindAnchor
<1>3. ASSUME FindTargets(c) PROVE JobsTyped' /\ \A d \in Callers : JobOK(d)'
  <2> DEFINE grounded == {e \in job[c].listed : /\ incident[e[1]].failure \in Unreceived
                                                /\ e[1] \in job[c].known \/ TargetClosed(e[1])}
             j == [job[c] EXCEPT !.step = "grounded", !.listed = grounded]
  <2>1. CASE End(c)
    BY <2>1, Ends
  <2>2. CASE job' = [job EXCEPT ![c].step = "grounded", ![c].listed = grounded]
    <3>1. grounded \subseteq job[c].listed
      OBVIOUS
    <3>2. job' = [job EXCEPT ![c] = j]
      BY <1>0, <2>2
    <3>3. job[c].step \in Reconciling /\ UNCHANGED incident
      BY <1>3 DEF FindTargets, Reconciling
    <3> HIDE DEF grounded
    <3>4. j \in Job
      BY <1>0, <3>1 DEF Job
    <3>5. Knows(j, incident')
      BY <1>0, <3>1, <3>3 DEF Knows, Reconciling, Job
    <3> HIDE DEF j
    <3> QED BY <3>2, <3>4, <3>5, Takes
  <2> QED BY <1>3, <2>1, <2>2 DEF FindTargets
<1>4. ASSUME CloseReconciled(c) PROVE JobsTyped' /\ \A d \in Callers : JobOK(d)'
  BY <1>4, Ends DEF CloseReconciled
<1> QED BY <1>1, <1>2, <1>3, <1>4 DEF Reconcile

LEMMA SweepJobs ==
  ASSUME TypeInv, Next, NEW c \in Callers, SweepStep(c)
  PROVE  JobsTyped' /\ \A d \in Callers : JobOK(d)'
<1>0. /\ job \in [Callers -> Job] /\ job[c] \in Job /\ Knows(job[c], incident)
      /\ \A i \in Incidents : incident[i].state \in 0..12 /\ incident[i].evidence \subseteq Kinds
                              /\ incident[i].rule \in MaybeRule
  BY JobBefore
<1>1. ASSUME NEW batch \in SUBSET Incidents, Sweep(c, batch) PROVE JobsTyped' /\ \A d \in Callers : JobOK(d)'
  <2> DEFINE listed == {<<i, Resumed>> : i \in batch}
             j == [job[c] EXCEPT !.step = "sweeping", !.listed = listed]
  <2>1. \A e \in listed : e \in Incidents \X States /\ incident[e[1]].state # Absent /\ e[2] \in Detected..Resumed
    BY <1>1 DEF Sweep, Ready
  <2>2. job' = [job EXCEPT ![c] = j] /\ UNCHANGED incident
    BY <1>0, <1>1 DEF Sweep
  <2> HIDE DEF listed
  <2>3. j \in Job
    BY <1>0, <2>1 DEF Job
  <2>4. Knows(j, incident')
    BY <1>0, <2>1, <2>2 DEF Knows, Reconciling, Job
  <2> HIDE DEF j
  <2> QED BY <2>2, <2>3, <2>4, Takes
<1>2. ASSUME NEW e \in job[c].listed, SweepOne(c, e) PROVE JobsTyped' /\ \A d \in Callers : JobOK(d)'
  <2> DEFINE i == e[1]
             evidence == incident[i].evidence \cup {"resume", "dividend"}
             rest == job[c].listed \ {e}
             r == incident[i].rule
  <2>1. i \in Incidents /\ rest \in SUBSET (Incidents \X States) /\ rest \subseteq job[c].listed
    BY <1>0 DEF Job
  <2>2. UNCHANGED incident /\ job[c].step = "sweeping"
    BY <1>2 DEF SweepOne
  <2>3. CASE End(c)
    BY <2>3, Ends
  <2>4. CASE job' = [job EXCEPT ![c].listed = rest]
    <3> DEFINE j == [job[c] EXCEPT !.listed = rest]
    <3>1. job' = [job EXCEPT ![c] = j]
      BY <1>0, <2>4
    <3> HIDE DEF rest
    <3>2. j \in Job
      BY <1>0, <2>1 DEF Job
    <3>3. Knows(j, incident')
      BY <1>0, <2>1, <2>2 DEF Knows, Reconciling, Job
    <3> HIDE DEF j
    <3> QED BY <3>1, <3>2, <3>3, Takes
  <2>5. CASE /\ incident[i].state = Resumed /\ Proven(Closed, evidence, r)
             /\ job' = [job EXCEPT ![c].step = "advancing", ![c].at = i, ![c].from = Resumed,
                                   ![c].evidence = evidence, ![c].rule = r, ![c].listed = rest]
    <3> DEFINE j == [job[c] EXCEPT !.step = "advancing", !.at = i, !.from = Resumed,
                                   !.evidence = evidence, !.rule = r, !.listed = rest]
    <3>1. job' = [job EXCEPT ![c] = j]
      BY <1>0, <2>5
    <3>2. evidence \in SUBSET Kinds /\ i \in MaybeIncident /\ r \in MaybeRule
      BY <1>0, <2>1 DEF Kinds, MaybeIncident
    <3>3. incident[i].state = 11 /\ Proven(11 + 1, evidence, r)
      BY <2>5
    <3> HIDE DEF evidence, rest, i, r
    <3>4. j \in Job
      <4>1. Resumed \in {Absent} \cup States
        OBVIOUS
      <4> HIDE DEF Absent, Detected, Closed, States, Resumed
      <4> QED BY <1>0, <2>1, <3>2, <4>1 DEF Job
    <3>5. Knows(j, incident')
      BY <1>0, <2>1, <2>2, <3>3 DEF Knows, Reconciling, Job
    <3> HIDE DEF j
    <3> QED BY <3>1, <3>4, <3>5, Takes
  <2> QED BY <1>2, <2>3, <2>4, <2>5 DEF SweepOne
<1> QED BY <1>1, <1>2 DEF SweepStep

LEMMA JobsStep ==
  ASSUME TypeInv, Next
  PROVE  JobsTyped' /\ \A c \in Callers : JobOK(c)'
<1>1. ASSUME NEW c \in Callers, Crash(c) PROVE JobsTyped' /\ \A d \in Callers : JobOK(d)'
  BY <1>1, Ends DEF Crash
<1>2. ASSUME CleanUp PROVE JobsTyped' /\ \A c \in Callers : JobOK(c)'
  <2>1. UNCHANGED job
    BY <1>2 DEF CleanUp
  <2> QED BY <2>1, JobBefore, KnowsStays, TypeParts DEF JobsTyped, JobOK, TypeInv
<1> QED BY <1>1, <1>2, RecordJobs, ResolveJobs, AdvanceJobs, ReconcileJobs, SweepJobs DEF Next

\* The five actions that write events.
LEMMA Writing ==
  ASSUME Next
  PROVE  \/ UNCHANGED journal
         \/ \E c \in Callers : \/ NoteDetected(c)
                               \/ \E e \in job[c].listed : CloseReplayed(c, e)
                               \/ NoteAdvance(c)
                               \/ CloseReconciled(c)
<1>1. ASSUME NEW c \in Callers, Record(c)
      PROVE  UNCHANGED journal \/ NoteDetected(c)
  BY <1>1 DEF Record, Fail, LookFamily, Collide, Insert
<1>2. ASSUME NEW c \in Callers, Resolve(c)
      PROVE  UNCHANGED journal \/ \E e \in job[c].listed : CloseReplayed(c, e)
  BY <1>2 DEF Resolve, Succeed
<1>3. ASSUME NEW c \in Callers, Advance(c)
      PROVE  UNCHANGED journal \/ NoteAdvance(c)
  BY <1>3 DEF Advance, ReadForAdvance, WriteState
<1>4. ASSUME NEW c \in Callers, Reconcile(c)
      PROVE  UNCHANGED journal \/ CloseReconciled(c)
  BY <1>4 DEF Reconcile, ListClient, FindAnchor, FindTargets
<1>5. ASSUME NEW c \in Callers, SweepStep(c) \/ Crash(c)
      PROVE  UNCHANGED journal
  BY <1>5 DEF SweepStep, Sweep, SweepOne, Crash
<1>6. ASSUME CleanUp PROVE UNCHANGED journal
  BY <1>6 DEF CleanUp
<1> QED BY <1>1, <1>2, <1>3, <1>4, <1>5, <1>6 DEF Next

\* Events are only added, and what a new one tells is true: of an incident that
\* exists, of a state it has reached, or of its closing.
Tells(i, e) ==
  /\ e \in Event
  /\ Exists(i)
  /\ e[2] <= incident[i].state \/ (e[2] = Closed /\ (incident'[i].state = Closed \/ incident[i].failure \in Client))

LEMMA EventsStep ==
  ASSUME TypeInv, Next
  PROVE  /\ journal' \in [Incidents -> SUBSET Event]
         /\ \A i \in Incidents : /\ journal[i] \subseteq journal'[i]
                                 /\ \A e \in journal'[i] \ journal[i] : Tells(i, e)
<1>0. /\ journal \in [Incidents -> SUBSET Event]
      /\ incident \in [Incidents -> Row]
      /\ \A i \in Incidents : incident[i].state \in 0..12
  BY TypeParts, RowFields DEF TypeInv, JournalTyped, RowsTyped
\* One event is added to one incident.
<1>1. ASSUME NEW i \in Incidents, NEW e \in Event, Tells(i, e),
             journal' = [journal EXCEPT ![i] = @ \cup {e}]
      PROVE  /\ journal' \in [Incidents -> SUBSET Event]
             /\ \A k \in Incidents : /\ journal[k] \subseteq journal'[k]
                                     /\ \A d \in journal'[k] \ journal[k] : Tells(k, d)
  BY <1>0, <1>1
<1>2. CASE UNCHANGED journal
  BY <1>0, <1>2
<1>3. ASSUME NEW c \in Callers, NoteDetected(c) \/ NoteAdvance(c)
      PROVE  \E i \in Incidents, e \in Event : Tells(i, e) /\ journal' = [journal EXCEPT ![i] = @ \cup {e}]
  <2>1. job[c] \in Job /\ Knows(job[c], incident)
    BY JobBefore
  <2>2. CASE NoteDetected(c)
    <3>1. job[c].at \in Incidents /\ Exists(job[c].at)
      BY <2>1, <2>2 DEF NoteDetected, Knows, Exists
    <3>2. DetectedEvent \in Event /\ DetectedEvent[2] = 1
      BY DEF DetectedEvent, Event
    <3>3. Tells(job[c].at, DetectedEvent)
      BY <1>0, <3>1, <3>2 DEF Tells, Exists
    <3> QED BY <2>2, <3>1, <3>2, <3>3 DEF NoteDetected
  <2>3. CASE NoteAdvance(c)
    <3>1. /\ job[c].at \in Incidents /\ Exists(job[c].at)
          /\ job[c].from \in 1..11 /\ job[c].from < incident[job[c].at].state
      BY <2>1, <2>3 DEF NoteAdvance, Knows, Exists
    <3>2. AdvanceEvent(c) \in Event /\ AdvanceEvent(c)[2] = job[c].from + 1
      BY <3>1 DEF AdvanceEvent, Event
    <3>3. Tells(job[c].at, AdvanceEvent(c))
      BY <1>0, <3>1, <3>2 DEF Tells
    <3> QED BY <2>3, <3>1, <3>2, <3>3 DEF NoteAdvance
  <2> QED BY <1>3, <2>2, <2>3
<1>4. ASSUME NEW c \in Callers, NEW e \in job[c].listed, CloseReplayed(c, e)
      PROVE  \E i \in Incidents, d \in Event : Tells(i, d) /\ journal' = [journal EXCEPT ![i] = @ \cup {d}]
  <2>1. job[c] \in Job /\ Knows(job[c], incident)
    BY JobBefore
  <2>2. e[1] \in Incidents /\ Exists(e[1]) /\ e[2] \in Detected..Resumed
    BY <2>1 DEF Job, Knows, Exists
  <2>3. <<e[2], Closed>> \in Event
    BY <2>2 DEF Event
  <2>4. incident'[e[1]].state = Closed
    <3>1. CASE Open(e[1])
      BY <1>0, <1>4, <2>2, <3>1 DEF CloseReplayed, Row
    <3>2. CASE ~Open(e[1])
      BY <1>0, <1>4, <2>2, <3>2 DEF CloseReplayed, Open, Exists
    <3> QED BY <3>1, <3>2
  <2>5. Tells(e[1], <<e[2], Closed>>)
    BY <2>2, <2>3, <2>4 DEF Tells
  <2> QED BY <1>4, <2>2, <2>3, <2>5 DEF CloseReplayed
<1>5. ASSUME NEW c \in Callers, CloseReconciled(c)
      PROVE  /\ journal' \in [Incidents -> SUBSET Event]
             /\ \A i \in Incidents : /\ journal[i] \subseteq journal'[i]
                                     /\ \A e \in journal'[i] \ journal[i] : Tells(i, e)
  <2> DEFINE new(i) == {<<e[2], Closed>> : e \in {d \in job[c].listed : d[1] = i}}
  <2>1. job[c] \in Job /\ Knows(job[c], incident) /\ job[c].step \in Reconciling
    BY <1>5, JobBefore DEF CloseReconciled, Reconciling
  <2>2. \A e \in job[c].listed : /\ e[2] \in Detected..Resumed /\ Exists(e[1])
                                 /\ incident[e[1]].failure \in Client
    BY <2>1 DEF Knows, Exists
  <2>3. ASSUME NEW i \in Incidents, NEW e \in new(i) PROVE Tells(i, e)
    <3>1. PICK d \in job[c].listed : d[1] = i /\ e = <<d[2], Closed>>
      OBVIOUS
    <3>2. e \in Event /\ e[2] = Closed
      BY <2>2, <3>1 DEF Event
    <3> QED BY <2>2, <3>1, <3>2 DEF Tells
  <2>4. journal' = [i \in Incidents |-> journal[i] \cup new(i)]
    BY <1>5 DEF CloseReconciled
  <2>5. \A i \in Incidents : new(i) \in SUBSET Event
    BY <2>3 DEF Tells
  <2> HIDE DEF new
  <2> QED BY <1>0, <2>3, <2>4, <2>5
<1> QED BY <1>1, <1>2, <1>3, <1>4, <1>5, Writing

\* The actions that add to the history.
LEMMA Histories ==
  ASSUME Next
  PROVE  \/ UNCHANGED <<crashes, unseen, lost>>
         \/ \E c \in Callers : Crash(c) \/ \E i \in Incidents : Insert(c, i)
<1>1. ASSUME NEW c \in Callers, Record(c)
      PROVE  UNCHANGED <<crashes, unseen, lost>> \/ \E i \in Incidents : Insert(c, i)
  BY <1>1 DEF Record, Fail, LookFamily, Collide, NoteDetected
<1>2. ASSUME NEW c \in Callers, Resolve(c) PROVE UNCHANGED <<crashes, unseen, lost>>
  BY <1>2 DEF Resolve, Succeed, CloseReplayed
<1>3. ASSUME NEW c \in Callers, Advance(c) PROVE UNCHANGED <<crashes, unseen, lost>>
  BY <1>3 DEF Advance, ReadForAdvance, WriteState, NoteAdvance
<1>4. ASSUME NEW c \in Callers, Reconcile(c) PROVE UNCHANGED <<crashes, unseen, lost>>
  BY <1>4 DEF Reconcile, ListClient, FindAnchor, FindTargets, CloseReconciled
<1>5. ASSUME NEW c \in Callers, SweepStep(c) PROVE UNCHANGED <<crashes, unseen, lost>>
  BY <1>5 DEF SweepStep, Sweep, SweepOne
<1>6. ASSUME CleanUp PROVE UNCHANGED <<crashes, unseen, lost>>
  BY <1>6 DEF CleanUp
<1> QED BY <1>1, <1>2, <1>3, <1>4, <1>5, <1>6 DEF Next

LEMMA HistoryStep ==
  ASSUME TypeInv, Next
  PROVE  HistoryTyped'
<1>0. HistoryTyped
  BY TypeParts DEF TypeInv
<1>1. ASSUME NEW c \in Callers, NEW i \in Incidents, Insert(c, i) PROVE HistoryTyped'
  <2> DEFINE u == {j \in Incidents : Exists(j)} \ job[c].known
  <2>1. u \in SUBSET Incidents
    OBVIOUS
  <2>2. unseen' = [unseen EXCEPT ![i] = u] /\ UNCHANGED <<crashes, lost>>
    BY <1>1 DEF Insert
  <2> HIDE DEF u
  <2> QED BY <1>0, <2>1, <2>2 DEF HistoryTyped
<1>2. ASSUME NEW c \in Callers, Crash(c) PROVE HistoryTyped'
  <2>1. job[c].step \in {"inserted", "advanced"} => job[c].at \in Incidents
    BY JobBefore DEF Knows
  <2> QED BY <1>0, <1>2, <2>1 DEF HistoryTyped, Crash
<1>3. CASE UNCHANGED <<crashes, unseen, lost>>
  BY <1>0, <1>3 DEF HistoryTyped
<1> QED BY <1>1, <1>2, <1>3, Histories

LEMMA TypeStep ==
  ASSUME TypeInv, [Next]_vars
  PROVE  TypeInv'
<1>1. CASE Next
  <2>1. JournalTyped'
    BY <1>1, EventsStep DEF JournalTyped
  <2>2. TypeOK'
    BY <1>1, <2>1, RowsStep, JobsStep, HistoryStep, TypeParts
       DEF TypeOK, RowsTyped, JournalTyped, JobsTyped, HistoryTyped
  <2> QED BY <1>1, <2>2, JobsStep DEF TypeInv
<1>2. CASE UNCHANGED vars
  BY <1>2 DEF vars, TypeInv, TypeOK, JobOK, Knows
<1> QED BY <1>1, <1>2

LEMMA TypeInit ==
  ASSUME Init PROVE TypeInv
<1>1. TypeOK
  BY NoRowTyped, NoJobTyped DEF Init, TypeOK
<1>2. \A c \in Callers : JobOK(c)
  BY DEF Init, JobOK, Knows, NoJob, Reconciling
<1> QED BY <1>1, <1>2 DEF TypeInv

\* Every reachable state is of its type, and every caller that has read an
\* incident works on one that exists and has come at least as far.
THEOREM TypeCorrect == Spec => []TypeInv
<1>1. Init => TypeInv
  BY TypeInit
<1>2. TypeInv /\ [Next]_vars => TypeInv'
  BY TypeStep
<1> QED BY <1>1, <1>2, PTL DEF Spec

\* Type correctness alone.
THEOREM IncidentsAreTyped == Spec => []TypeOK
<1>1. TypeInv => TypeOK
  BY DEF TypeInv
<1> QED BY <1>1, TypeCorrect, PTL

\* Stages are passed one by one or skipped by closing, and what is closed stays
\* as it was closed, whatever stale states callers act on.
THEOREM IncidentsMoveForward == Spec => MovesForward
<1> DEFINE Moves(i) == /\ IsClosed(i) => incident'[i] = incident[i]
                       /\ incident'[i].state \in {incident[i].state, incident[i].state + 1, Closed}
<1>1. TypeInv /\ [Next]_vars => [\A i \in Incidents : Moves(i)]_vars
  <2>1. TypeInv /\ Next => \A i \in Incidents : Moves(i)
    BY RowsStep DEF Keeps
  <2> QED BY <2>1
<1> QED BY <1>1, TypeCorrect, PTL DEF Spec, MovesForward

-----------------------------------------------------------------------------
(***************************************************************************)
(* What an incident was closed with.                                       *)
(***************************************************************************)
RowProven(r) ==
  /\ r.closedBy = "nobody" <=> r.state # Closed
  /\ r.closedBy \in {"nobody", "lifecycle"} /\ r.state # Absent => Proven(r.state, r.evidence, r.rule)
  /\ r.closedBy \in {"provider", "target"} => Kinds \subseteq r.evidence /\ r.rule \in PromotedRules
RowsProven == \A i \in Incidents : RowProven(incident[i])

\* The last state asks for everything.
LEMMA RequiredOfAll ==
  /\ Required(Closed) = Kinds
  /\ Required(Detected) = {}
BY DEF Required, Kinds, FirstAsked, Generalized, Validated, Released, LiveVerified

LEMMA ProvenStep ==
  ASSUME TypeInv, TypeInv', RowsProven, [Next]_vars
  PROVE  RowsProven'
<1>0. /\ incident \in [Incidents -> Row]
      /\ \A i \in Incidents : incident[i].state \in 0..12
  BY TypeParts, RowFields DEF TypeInv, RowsTyped
<1>1. CASE UNCHANGED incident
  BY <1>1 DEF RowsProven
<1>2. ASSUME NEW c \in Callers, NEW i \in Incidents, Insert(c, i) PROVE RowsProven'
  <2> DEFINE r == [NoRow EXCEPT !.failure = job[c].failure, !.target = job[c].target,
                                !.blocking = job[c].blocking, !.state = Detected]
  <2>1. incident' = [incident EXCEPT ![i] = r]
    BY <1>2 DEF Insert
  <2>2. r.closedBy = "nobody" /\ r.state = Detected
    BY DEF NoRow
  <2> HIDE DEF r
  <2>3. RowProven(r)
    BY <2>2, RequiredOfAll DEF RowProven, Proven, PreventionLocked
  <2> QED BY <1>0, <2>1, <2>3 DEF RowsProven
<1>3. ASSUME NEW c \in Callers, NEW e \in job[c].listed, CloseReplayed(c, e) PROVE RowsProven'
  <2>1. CASE ~Open(e[1])
    BY <1>1, <1>3, <2>1 DEF CloseReplayed
  <2>2. CASE Open(e[1])
    <3> DEFINE r == [incident[e[1]] EXCEPT !.state = Closed, !.closedBy = "replay",
                       !.evidence = @ \cup {"sha", "deployment", "live", "resume"}]
    <3>1. incident' = [incident EXCEPT ![e[1]] = r]
      BY <1>3, <2>2 DEF CloseReplayed
    <3>2. e[1] \in Incidents
      BY JobBefore DEF Job
    <3>3. r.closedBy = "replay" /\ r.state = Closed
      BY <1>0, <3>2 DEF Row
    <3> HIDE DEF r
    <3>4. RowProven(r)
      BY <3>3 DEF RowProven
    <3> QED BY <1>0, <3>1, <3>4 DEF RowsProven
  <2> QED BY <2>1, <2>2
<1>4. ASSUME NEW c \in Callers, WriteState(c) PROVE RowsProven'
  <2> DEFINE j == job[c]
             by == IF j.from + 1 = Closed THEN "lifecycle" ELSE "nobody"
             r == [incident[j.at] EXCEPT !.state = j.from + 1, !.evidence = j.evidence, !.rule = j.rule,
                     !.closedBy = by]
  <2>1. CASE incident[j.at].state # j.from
    BY <1>1, <1>4, <2>1 DEF WriteState
  <2>2. CASE incident[j.at].state = j.from
    <3>1. incident' = [incident EXCEPT ![j.at] = r]
      BY <1>4, <2>2 DEF WriteState
    <3>2. /\ j.at \in Incidents /\ j.from \in 1..11
          /\ Proven(j.from + 1, j.evidence, j.rule)
      BY <1>4, JobBefore DEF WriteState, Knows
    <3>3. /\ r.state = j.from + 1 /\ r.evidence = j.evidence /\ r.rule = j.rule
          /\ r.closedBy = IF j.from + 1 = 12 THEN "lifecycle" ELSE "nobody"
      BY <1>0, <3>2 DEF Row
    <3> HIDE DEF r, by
    <3>4. RowProven(r)
      BY <3>2, <3>3 DEF RowProven
    <3> QED BY <1>0, <3>1, <3>4 DEF RowsProven
  <2> QED BY <2>1, <2>2
<1>5. ASSUME NEW c \in Callers, CloseReconciled(c) PROVE RowsProven'
  <2> DEFINE by(i) == IF i \in job[c].known THEN "provider" ELSE "target"
             r(i) == [incident[i] EXCEPT !.state = Closed, !.evidence = Kinds, !.rule = Convergence,
                                         !.closedBy = by(i)]
  <2>1. \A i \in Incidents : incident'[i] = r(i) \/ incident'[i] = incident[i]
    BY <1>5 DEF CloseReconciled
  <2>2. ASSUME NEW i \in Incidents PROVE RowProven(r(i))
    <3>1. /\ r(i).state = Closed /\ r(i).evidence = Kinds /\ r(i).rule = Convergence
          /\ r(i).closedBy \in {"provider", "target"}
      BY <1>0 DEF Row
    <3> HIDE DEF r
    <3> QED BY <3>1, RulesAssumption DEF RowProven
  <2> HIDE DEF r
  <2> QED BY <2>1, <2>2 DEF RowsProven
<1>6. ASSUME CleanUp PROVE RowsProven'
  <2>1. ASSUME NEW i \in Incidents
        PROVE  incident'[i] = incident[i] \/ (incident'[i].state = Closed /\ incident'[i].closedBy = "expected")
    BY <1>0, <1>6 DEF CleanUp, Row
  <2> QED BY <2>1 DEF RowsProven, RowProven
<1>7. CASE Next
  BY <1>1, <1>2, <1>3, <1>4, <1>5, <1>6, <1>7, Writers
<1> QED BY <1>1, <1>7 DEF vars

\* What an incident was closed with, for every way of closing.
THEOREM RowsAreProven == Spec => []RowsProven
<1>1. Init => RowsProven
  BY DEF Init, RowsProven, RowProven, NoRow
<1>2. TypeInv /\ TypeInv' /\ RowsProven /\ [Next]_vars => RowsProven'
  BY ProvenStep
<1> QED BY <1>1, <1>2, TypeCorrect, PTL DEF Spec

\* An incident that the lifecycle or a reconciliation closed carries the whole
\* evidence and a promoted rule.
THEOREM ClosedIsProvenAlways == Spec => []ClosedIsProven
<1>1. RowsProven => ClosedIsProven
  BY RequiredOfAll DEF RowsProven, RowProven, ClosedIsProven, IsClosed, Proven, PreventionLocked
<1> QED BY <1>1, RowsAreProven, PTL

-----------------------------------------------------------------------------
(***************************************************************************)
(* The journal.                                                            *)
(***************************************************************************)
Truthful ==
  \A i \in Incidents : \A e \in journal[i] :
    /\ Exists(i)
    /\ e[2] <= incident[i].state \/ (e[2] = Closed /\ incident[i].failure \in Client)

LEMMA TruthfulStep ==
  ASSUME TypeInv, Truthful, [Next]_vars
  PROVE  Truthful'
<1>1. CASE Next
  <2>0. /\ \A i \in Incidents : /\ Keeps(i)
                                /\ incident[i].state \in 0..12 /\ incident'[i].state \in 0..12
        /\ journal \in [Incidents -> SUBSET Event]
    <3>1. RowsTyped'
      BY <1>1, RowsStep
    <3>2. \A i \in Incidents : incident'[i].state \in 0..12
      BY <3>1 DEF RowsTyped, Row
    <3> QED BY <1>1, <3>2, RowsStep, TypeParts, RowFields DEF TypeInv, JournalTyped
  <2> SUFFICES ASSUME NEW i \in Incidents, NEW e \in journal'[i]
               PROVE  /\ incident'[i].state # Absent
                      /\ e[2] <= incident'[i].state \/ (e[2] = Closed /\ incident'[i].failure \in Client)
    BY DEF Truthful, Exists
  <2>1. /\ e \in Event /\ Exists(i)
        /\ e[2] <= incident[i].state \/ (e[2] = Closed /\ (incident'[i].state = Closed \/ incident[i].failure \in Client))
    <3>1. CASE e \in journal[i]
      BY <2>0, <3>1 DEF Truthful
    <3>2. CASE e \notin journal[i]
      BY <1>1, <3>2, EventsStep DEF Tells
    <3> QED BY <3>1, <3>2
  <2>2. e[2] \in 1..12
    BY <2>1 DEF Event
  <2> QED BY <2>0, <2>1, <2>2 DEF Keeps, Exists
<1>2. CASE UNCHANGED vars
  BY <1>2 DEF vars, Truthful, Exists
<1> QED BY <1>1, <1>2

\* The journal tells of no state that the incident has not reached, except of a
\* closing that a reconciliation missed.
THEOREM JournalIsNotAhead == Spec => []JournalNotAhead
<1>1. Init => Truthful
  BY DEF Init, Truthful
<1>2. TypeInv /\ Truthful /\ [Next]_vars => Truthful'
  BY TruthfulStep
<1>3. Truthful => JournalNotAhead
  BY DEF Truthful, JournalNotAhead
<1> QED BY <1>1, <1>2, <1>3, TypeCorrect, PTL DEF Spec

\* A step of one caller leaves the jobs of the others alone.
LEMMA OthersWait ==
  ASSUME TypeInv, NEW c \in Callers, NEW d \in Callers \ {c},
         Record(c) \/ Resolve(c) \/ Advance(c) \/ Reconcile(c) \/ SweepStep(c) \/ Crash(c)
  PROVE  job'[d] = job[d]
<1>0. job \in [Callers -> Job]
  BY JobBefore
<1>1. CASE Record(c)
  BY <1>0, <1>1 DEF Record, Fail, LookFamily, Collide, Insert, NoteDetected, End
<1>2. CASE Resolve(c)
  BY <1>0, <1>2 DEF Resolve, Succeed, CloseReplayed, End
<1>3. CASE Advance(c)
  BY <1>0, <1>3 DEF Advance, ReadForAdvance, WriteState, NoteAdvance, Goto, End
<1>4. CASE Reconcile(c)
  BY <1>0, <1>4 DEF Reconcile, ListClient, FindAnchor, FindTargets, CloseReconciled, Goto, End
<1>5. CASE SweepStep(c)
  BY <1>0, <1>5 DEF SweepStep, Sweep, SweepOne, End
<1>6. CASE Crash(c)
  BY <1>0, <1>6 DEF Crash, End
<1> QED BY <1>1, <1>2, <1>3, <1>4, <1>5, <1>6

\* A caller with an event to write writes it or is evicted.
LEMMA OwesEvent ==
  ASSUME TypeInv, Next, NEW c \in Callers, job[c].step \in {"inserted", "advanced"}
  PROVE  job'[c] = job[c] \/ NoteDetected(c) \/ NoteAdvance(c) \/ Crash(c)
<1>1. ASSUME Record(c) PROVE NoteDetected(c)
  BY <1>1 DEF Record, Fail, LookFamily, Collide, Insert
<1>2. ASSUME Resolve(c) PROVE FALSE
  BY <1>2 DEF Resolve, Succeed, CloseReplayed
<1>3. ASSUME Advance(c) PROVE NoteAdvance(c)
  BY <1>3 DEF Advance, ReadForAdvance, WriteState
<1>4. ASSUME Reconcile(c) PROVE FALSE
  BY <1>4 DEF Reconcile, ListClient, FindAnchor, FindTargets, CloseReconciled
<1>5. ASSUME SweepStep(c) PROVE FALSE
  BY <1>5 DEF SweepStep, Sweep, SweepOne
<1>6. ASSUME NEW d \in Callers, d # c,
             Record(d) \/ Resolve(d) \/ Advance(d) \/ Reconcile(d) \/ SweepStep(d) \/ Crash(d)
      PROVE  job'[c] = job[c]
  BY <1>6, OthersWait
<1>7. ASSUME CleanUp PROVE job'[c] = job[c]
  BY <1>7 DEF CleanUp
<1> QED BY <1>1, <1>2, <1>3, <1>4, <1>5, <1>6, <1>7 DEF Next

\* The stage before s was noted or a caller is about to note it.
Noted(i, s) ==
  \/ <<s - 1, s>> \in journal[i]
  \/ \E c \in Callers : job[c].at = i /\ job[c].step \in {"inserted", "advanced"} /\ job[c].from = s - 1
ByStages(r) == r.closedBy \in {"nobody", "lifecycle"}
Traced ==
  \A i \in Incidents \ lost : ByStages(incident[i]) => \A s \in States : s <= incident[i].state => Noted(i, s)

LEMMA NotedStays ==
  ASSUME TypeInv, Next, NEW i \in Incidents, i \notin lost', NEW s \in States, Noted(i, s)
  PROVE  Noted(i, s)'
<1>0. /\ journal \in [Incidents -> SUBSET Event]
      /\ journal[i] \subseteq journal'[i]
  BY EventsStep, TypeParts DEF TypeInv, JournalTyped
<1>1. CASE <<s - 1, s>> \in journal[i]
  BY <1>0, <1>1 DEF Noted
<1>2. ASSUME NEW c \in Callers, job[c].at = i, job[c].step \in {"inserted", "advanced"}, job[c].from = s - 1
      PROVE  Noted(i, s)'
  <2>1. CASE job'[c] = job[c]
    BY <1>2, <2>1 DEF Noted
  <2>2. CASE NoteDetected(c)
    <3>1. job[c].from = Absent
      BY <2>2, JobBefore DEF NoteDetected, Knows
    <3>2. <<s - 1, s>> = DetectedEvent
      BY <1>2, <3>1 DEF DetectedEvent
    <3> QED BY <1>0, <1>2, <2>2, <3>2 DEF Noted, NoteDetected
  <2>3. CASE NoteAdvance(c)
    <3>1. <<s - 1, s>> = AdvanceEvent(c)
      BY <1>2 DEF AdvanceEvent
    <3> QED BY <1>0, <1>2, <2>3, <3>1 DEF Noted, NoteAdvance
  <2>4. CASE Crash(c)
    BY <1>2, <2>4 DEF Crash
  <2> QED BY <1>2, <2>1, <2>2, <2>3, <2>4, OwesEvent
<1> QED BY <1>1, <1>2 DEF Noted

\* How a row that no replay, reconciliation or clean-up closed came to its state.
LEMMA StageStep ==
  ASSUME TypeInv, RowsProven, Next, NEW i \in Incidents, ByStages(incident'[i])
  PROVE  \/ incident'[i] = incident[i]
         \/ incident'[i].state = Detected /\ \E c \in Callers : Insert(c, i)
         \/ /\ incident'[i].state = incident[i].state + 1
            /\ ByStages(incident[i])
            /\ \E c \in Callers : WriteState(c) /\ job[c].at = i /\ job[c].from = incident[i].state
<1>0. /\ incident \in [Incidents -> Row]
      /\ incident[i].state \in 0..12
  BY TypeParts, RowFields DEF TypeInv, RowsTyped
<1>1. ASSUME NEW c \in Callers, NEW k \in Incidents, Insert(c, k)
      PROVE  incident'[i] = incident[i] \/ (incident'[i].state = Detected /\ Insert(c, i))
  BY <1>0, <1>1 DEF Insert, NoRow
<1>2. ASSUME NEW c \in Callers, NEW e \in job[c].listed, CloseReplayed(c, e)
      PROVE  incident'[i] = incident[i]
  <2>1. CASE i = e[1] /\ Open(e[1])
    <3> DEFINE r == [incident[i] EXCEPT !.state = Closed, !.closedBy = "replay",
                       !.evidence = @ \cup {"sha", "deployment", "live", "resume"}]
    <3>1. incident' = [incident EXCEPT ![i] = r]
      BY <1>2, <2>1 DEF CloseReplayed
    <3>2. r.closedBy = "replay"
      BY <1>0 DEF Row
    <3> HIDE DEF r
    <3> QED BY <1>0, <3>1, <3>2 DEF ByStages
  <2>2. CASE ~(i = e[1] /\ Open(e[1]))
    BY <1>0, <1>2, <2>2 DEF CloseReplayed
  <2> QED BY <2>1, <2>2
<1>3. ASSUME NEW c \in Callers, WriteState(c), incident'[i] # incident[i]
      PROVE  /\ job[c].at = i /\ job[c].from = incident[i].state
             /\ incident'[i].state = incident[i].state + 1
             /\ ByStages(incident[i])
  <2>1. job[c].at = i /\ job[c].from = incident[i].state
    BY <1>0, <1>3 DEF WriteState
  <2>2. job[c].from \in 1..11
    BY <1>3, JobBefore DEF WriteState, Knows
  <2>3. incident'[i].state = incident[i].state + 1
    BY <1>0, <1>3, <2>1 DEF WriteState, Row
  <2>4. ByStages(incident[i])
    BY <2>1, <2>2 DEF RowsProven, RowProven, ByStages
  <2> QED BY <2>1, <2>3, <2>4
<1>4. ASSUME NEW c \in Callers, CloseReconciled(c)
      PROVE  incident'[i] = incident[i]
  <2> DEFINE by == IF i \in job[c].known THEN "provider" ELSE "target"
             r == [incident[i] EXCEPT !.state = Closed, !.evidence = Kinds, !.rule = Convergence, !.closedBy = by]
  <2>1. incident'[i] = r \/ incident'[i] = incident[i]
    BY <1>4 DEF CloseReconciled
  <2>2. r.closedBy \in {"provider", "target"}
    BY <1>0 DEF Row
  <2> HIDE DEF r
  <2> QED BY <2>1, <2>2 DEF ByStages
<1>5. ASSUME CleanUp PROVE incident'[i] = incident[i]
  <2>1. incident'[i] = incident[i] \/ incident'[i].closedBy = "expected"
    BY <1>0, <1>5 DEF CleanUp, Row
  <2> QED BY <2>1 DEF ByStages
<1> QED BY <1>1, <1>2, <1>3, <1>4, <1>5, Writers

LEMMA TracedStep ==
  ASSUME TypeInv, RowsProven, Traced, [Next]_vars
  PROVE  Traced'
<1>1. CASE Next
  <2> SUFFICES ASSUME NEW i \in Incidents \ lost', ByStages(incident'[i]),
                      NEW s \in States, s <= incident'[i].state
               PROVE  Noted(i, s)'
    BY DEF Traced
  <2>0. /\ i \notin lost
        /\ job \in [Callers -> Job]
        /\ incident[i].state \in 0..12
    <3>1. lost \subseteq lost'
      BY <1>1, Histories DEF Insert, Crash
    <3> QED BY <3>1, RowFields, TypeParts DEF TypeInv, JobsTyped
  <2>1. CASE incident'[i] = incident[i]
    <3>1. Noted(i, s)
      BY <2>0, <2>1 DEF Traced
    <3> QED BY <1>1, <3>1, NotedStays
  <2>2. ASSUME NEW c \in Callers, Insert(c, i), incident'[i].state = Detected PROVE Noted(i, s)'
    <3>1. /\ job'[c].at = i /\ job'[c].step = "inserted" /\ job'[c].from = 0
          /\ s = 1
      BY <2>0, <2>2 DEF Insert, NoJob
    <3> QED BY <3>1 DEF Noted
  <2>3. ASSUME NEW c \in Callers, WriteState(c), job[c].at = i, job[c].from = incident[i].state,
               incident'[i].state = incident[i].state + 1, ByStages(incident[i])
        PROVE  Noted(i, s)'
    <3>1. CASE s <= incident[i].state
      <4>1. Noted(i, s)
        BY <2>0, <2>3, <3>1 DEF Traced
      <4> QED BY <1>1, <4>1, NotedStays
    <3>2. CASE s = incident[i].state + 1
      <4>1. job'[c].at = i /\ job'[c].step = "advanced" /\ job'[c].from = s - 1
        BY <2>0, <2>3, <3>2 DEF WriteState, Goto, Job
      <4> QED BY <4>1 DEF Noted
    <3> QED BY <2>0, <2>3, <3>1, <3>2
  <2> QED BY <1>1, <2>1, <2>2, <2>3, StageStep
<1>2. CASE UNCHANGED vars
  BY <1>2 DEF vars, Traced, Noted
<1> QED BY <1>1, <1>2

\* Nothing is missing from the journal of an incident that is open or was closed
\* by its lifecycle, once the callers at work on it are done, unless an eviction
\* took an event.
THEOREM JournalIsComplete == Spec => []JournalComplete
<1>1. Init => Traced
  BY DEF Init, Traced, NoRow
<1>2. TypeInv /\ RowsProven /\ Traced /\ [Next]_vars => Traced'
  BY TracedStep
<1>3. Traced => JournalComplete
  BY DEF Traced, JournalComplete, Pending, Noted, ByStages
<1> QED BY <1>1, <1>2, <1>3, TypeCorrect, RowsAreProven, PTL DEF Spec

-----------------------------------------------------------------------------
(***************************************************************************)
(* One open incident for a failure class.                                  *)
(***************************************************************************)
RouteOf(r) == Route[r.failure]
SignatureOf(r) == Signature[r.failure]
OpenRow(r) == r.state \in Detected..Resumed

\* Open incidents differ in signature; of two open ones of a route one could not
\* have been found.  Whoever is to insert has seen only closed ones of its route.
Apart(i, j) ==
  OpenRow(incident[i]) /\ OpenRow(incident[j])
  => /\ SignatureOf(incident[i]) # SignatureOf(incident[j])
     /\ RouteOf(incident[i]) = RouteOf(incident[j]) => i \in unseen[j] \/ j \in unseen[i]
SeenClosed(c) ==
  job[c].step = "new"
  => \A i \in job[c].known :
       incident[i].state # Absent /\ (RouteOf(incident[i]) = Route[job[c].failure] => IsClosed(i))
Separate ==
  /\ \A i, j \in Incidents : i # j => Apart(i, j)
  /\ \A c \in Callers : SeenClosed(c)

\* What is open was open and of the same failure, or is the new one.
LEMMA OpenStep ==
  ASSUME TypeInv, Next, NEW i \in Incidents, OpenRow(incident'[i])
  PROVE  \/ OpenRow(incident[i]) /\ incident'[i].failure = incident[i].failure
         \/ \E c \in Callers : Insert(c, i) /\ incident'[i].failure = job[c].failure
<1>0. /\ incident \in [Incidents -> Row]
      /\ incident[i].state \in 0..12
      /\ Keeps(i)
  BY RowsStep, TypeParts, RowFields DEF TypeInv, RowsTyped
<1>1. CASE Exists(i)
  BY <1>0, <1>1 DEF Keeps, Exists, IsClosed, OpenRow
<1>2. CASE ~Exists(i)
  <2>1. incident'[i] # incident[i]
    BY <1>2 DEF Exists, OpenRow
  <2>2. ASSUME NEW c \in Callers, NEW k \in Incidents, Insert(c, k)
        PROVE  Insert(c, i) /\ incident'[i].failure = job[c].failure
    <3>1. i = k
      BY <1>0, <2>1, <2>2 DEF Insert
    <3>2. incident'[i].failure = job[c].failure
      BY <1>0, <2>2, <3>1 DEF Insert, NoRow
    <3> QED BY <2>2, <3>1, <3>2
  <2>3. ASSUME NEW c \in Callers, NEW e \in job[c].listed, CloseReplayed(c, e) PROVE FALSE
    BY <1>0, <1>2, <2>1, <2>3 DEF CloseReplayed, Open, Exists
  <2>4. ASSUME NEW c \in Callers, WriteState(c) PROVE FALSE
    BY <1>0, <1>2, <2>1, <2>4, JobBefore DEF WriteState, Knows, Exists
  <2>5. ASSUME NEW c \in Callers, CloseReconciled(c) PROVE FALSE
    BY <1>2, <2>1, <2>5, JobBefore DEF CloseReconciled, Knows, Exists
  <2>6. ASSUME CleanUp PROVE FALSE
    <3>1. ~Open(i)
      BY <1>0, <1>2 DEF Open, Exists
    <3>2. incident'[i] = incident[i]
      BY <2>6, <3>1 DEF CleanUp
    <3> QED BY <2>1, <3>2
  <2> QED BY <2>1, <2>2, <2>3, <2>4, <2>5, <2>6, Writers
<1> QED BY <1>1, <1>2

LEMMA ApartStep ==
  ASSUME TypeInv, Separate, Next, NEW i \in Incidents, NEW j \in Incidents, i # j
  PROVE  Apart(i, j)'
<1>0. unseen \in [Incidents -> SUBSET Incidents]
  BY TypeParts DEF TypeInv, HistoryTyped
<1>1. SUFFICES ASSUME OpenRow(incident'[i]), OpenRow(incident'[j])
               PROVE  /\ SignatureOf(incident'[i]) # SignatureOf(incident'[j])
                      /\ RouteOf(incident'[i]) = RouteOf(incident'[j]) => i \in unseen'[j] \/ j \in unseen'[i]
  BY DEF Apart
\* A new row and one that was there.
<1>2. ASSUME NEW c \in Callers, NEW k \in Incidents, NEW l \in Incidents, k # l, Insert(c, k),
             incident'[k].failure = job[c].failure,
             OpenRow(incident[l]), incident'[l].failure = incident[l].failure
      PROVE  /\ SignatureOf(incident'[k]) # SignatureOf(incident'[l])
             /\ RouteOf(incident'[k]) = RouteOf(incident'[l]) => l \in unseen'[k]
  <2>1. Signature[incident[l].failure] # Signature[job[c].failure]
    BY <1>2 DEF Insert, TakenAsRepeat, Open, OpenRow
  <2>2. unseen'[k] = {m \in Incidents : Exists(m)} \ job[c].known
    BY <1>0, <1>2 DEF Insert
  <2>3. Exists(l) /\ ~IsClosed(l)
    BY <1>2 DEF OpenRow, Exists, IsClosed
  <2>4. ASSUME RouteOf(incident'[k]) = RouteOf(incident'[l]) PROVE l \notin job[c].known
    BY <1>2, <2>3, <2>4 DEF Separate, SeenClosed, Insert, RouteOf
  <2> QED BY <1>2, <2>1, <2>2, <2>3, <2>4 DEF SignatureOf
<1>3. CASE /\ OpenRow(incident[i]) /\ incident'[i].failure = incident[i].failure
           /\ OpenRow(incident[j]) /\ incident'[j].failure = incident[j].failure
  <2>1. Apart(i, j)
    BY DEF Separate
  <2>2. unseen'[i] = unseen[i] /\ unseen'[j] = unseen[j]
    <3>1. ASSUME NEW c \in Callers, NEW k \in Incidents, Insert(c, k) PROVE k # i /\ k # j
      BY <1>3, <3>1 DEF Insert, Exists, OpenRow
    <3>2. ASSUME NEW c \in Callers, NEW k \in Incidents, Insert(c, k) PROVE unseen'[i] = unseen[i] /\ unseen'[j] = unseen[j]
      BY <1>0, <3>1, <3>2 DEF Insert
    <3> QED BY <3>2, Histories DEF Crash
  <2> QED BY <1>3, <2>1, <2>2 DEF Apart, SignatureOf, RouteOf
<1>4. ASSUME NEW c \in Callers, NEW d \in Callers, Insert(c, i), Insert(d, j) PROVE FALSE
  <2>1. incident \in [Incidents -> Row] /\ incident[j].state = 0
    BY <1>4, JobBefore DEF Insert, Exists
  <2>2. incident'[j] = incident[j]
    BY <1>4, <2>1 DEF Insert
  <2> QED BY <1>1, <2>1, <2>2 DEF OpenRow
<1> QED BY <1>1, <1>2, <1>3, <1>4, OpenStep

\* The steps at which a caller holds what it decided from the database.
Decisive == {"new", "anchored", "grounded"}

LEMMA Decisions ==
  ASSUME TypeInv, Next, NEW c \in Callers
  PROVE  \/ job'[c] = job[c]
         \/ LookFamily(c) \/ FindAnchor(c) \/ FindTargets(c)
         \/ job'[c].step \notin Decisive
<1>0. job \in [Callers -> Job] /\ job[c] \in Job
  BY JobBefore
<1>1. ASSUME End(c) PROVE job'[c].step \notin Decisive
  BY <1>0, <1>1 DEF End, NoJob, Decisive
<1>2. ASSUME Record(c), ~LookFamily(c) PROVE job'[c].step \notin Decisive
  <2>1. ASSUME NEW f \in Failures, NEW t \in MaybeIncident, Fail(c, f, t) PROVE job'[c].step \notin Decisive
    BY <1>0, <2>1 DEF Fail, Job, Decisive
  <2>2. ASSUME NEW i \in Incidents, Insert(c, i) PROVE job'[c].step \notin Decisive
    BY <1>0, <2>2 DEF Insert, NoJob, Decisive
  <2> QED BY <1>1, <1>2, <2>1, <2>2 DEF Record, Collide, NoteDetected
<1>3. ASSUME Resolve(c) PROVE job'[c].step \notin Decisive
  <2>1. ASSUME NEW f \in Failures, Succeed(c, f) PROVE job'[c].step \notin Decisive
    BY <1>0, <2>1 DEF Succeed, Job, Decisive
  <2>2. ASSUME NEW e \in job[c].listed, CloseReplayed(c, e), ~End(c) PROVE job'[c].step \notin Decisive
    BY <1>0, <2>2 DEF CloseReplayed, Job, Decisive
  <2> QED BY <1>1, <1>3, <2>1, <2>2 DEF Resolve
<1>4. ASSUME Advance(c) PROVE job'[c].step \notin Decisive
  <2>1. ASSUME NEW i \in Incidents, NEW brought \in Offers, NEW blanked \in Offers, NEW rule \in MaybeRule,
               ReadForAdvance(c, i, brought, blanked, rule)
        PROVE  job'[c].step \notin Decisive
    BY <1>0, <2>1 DEF ReadForAdvance, Job, Decisive
  <2>2. ASSUME NoteAdvance(c), ~End(c) PROVE job'[c].step \notin Decisive
    BY <1>0, <2>2 DEF NoteAdvance, NoJob, Decisive
  <2>3. ASSUME WriteState(c) PROVE job'[c].step \notin Decisive
    BY <1>0, <2>3 DEF WriteState, Goto, Job, Decisive
  <2> QED BY <1>1, <1>4, <2>1, <2>2, <2>3 DEF Advance
<1>5. ASSUME Reconcile(c), ~FindAnchor(c), ~FindTargets(c) PROVE job'[c].step \notin Decisive
  <2>1. ASSUME NEW told \in SUBSET Incidents, ListClient(c, told) PROVE job'[c].step \notin Decisive
    BY <1>0, <2>1 DEF ListClient, Job, Decisive
  <2> QED BY <1>1, <1>5, <2>1 DEF Reconcile, CloseReconciled
<1>6. ASSUME SweepStep(c) \/ Crash(c) PROVE job'[c].step \notin Decisive
  <2>1. ASSUME NEW batch \in SUBSET Incidents, Sweep(c, batch) PROVE job'[c].step \notin Decisive
    BY <1>0, <2>1 DEF Sweep, Job, Decisive
  <2>2. ASSUME NEW e \in job[c].listed, SweepOne(c, e), ~End(c) PROVE job'[c].step \notin Decisive
    BY <1>0, <2>2 DEF SweepOne, Job, Decisive
  <2> QED BY <1>1, <1>6, <2>1, <2>2 DEF SweepStep, Crash
<1>7. ASSUME NEW d \in Callers, d # c,
             Record(d) \/ Resolve(d) \/ Advance(d) \/ Reconcile(d) \/ SweepStep(d) \/ Crash(d)
      PROVE  job'[c] = job[c]
  BY <1>7, OthersWait
<1>8. ASSUME CleanUp PROVE job'[c] = job[c]
  BY <1>8 DEF CleanUp
<1> QED BY <1>2, <1>3, <1>4, <1>5, <1>6, <1>7, <1>8 DEF Next

LEMMA SeenStep ==
  ASSUME TypeInv, Truthful, Separate, Next, NEW c \in Callers
  PROVE  SeenClosed(c)'
<1>0. /\ job \in [Callers -> Job] /\ job[c] \in Job
      /\ \A i \in Incidents : Keeps(i) /\ incident[i].state \in 0..12 /\ incident'[i].state \in 0..12
  <2>1. RowsTyped'
    BY RowsStep
  <2> QED BY <2>1, JobBefore, RowsStep DEF RowsTyped, Row
<1>1. CASE /\ job'[c].step = "new" => job[c].step = "new"
           /\ job'[c].known = job[c].known /\ job'[c].failure = job[c].failure
  BY <1>0, <1>1 DEF Separate, SeenClosed, Job, Keeps, Exists, IsClosed, RouteOf
<1>2. CASE job'[c].step # "new"
  BY <1>2 DEF SeenClosed
<1>3. CASE LookFamily(c)
  <2>1. CASE End(c)
    BY <1>0, <1>2, <2>1 DEF End, NoJob
  <2>2. CASE ~(Taken(job[c].failure) \/ Handled(job[c].failure))
    <3> DEFINE f == job[c].failure
    <3>1. job'[c].known = {i \in Incidents : Visible(i)} /\ job'[c].failure = f
      BY <1>0, <1>3, <2>2 DEF LookFamily, Job
    <3>2. ASSUME NEW i \in Incidents, Visible(i)
          PROVE  incident[i].state # Absent /\ (RouteOf(incident[i]) = Route[f] => IsClosed(i))
      <4>1. Exists(i)
        BY <3>2 DEF Truthful, Visible
      <4>2. ASSUME RouteOf(incident[i]) = Route[f] PROVE ~Open(i)
        BY <2>2, <3>2, <4>2 DEF Taken, Related, RouteOf
      <4> QED BY <1>0, <4>1, <4>2 DEF Exists, Open, IsClosed
    <3>3. UNCHANGED incident
      BY <1>3 DEF LookFamily
    <3> QED BY <3>1, <3>2, <3>3 DEF SeenClosed, IsClosed
  <2> QED BY <1>3, <2>1, <2>2 DEF LookFamily
<1>4. CASE FindAnchor(c) \/ FindTargets(c)
  <2>1. CASE End(c)
    BY <1>0, <1>2, <2>1 DEF End, NoJob
  <2>2. CASE ~End(c)
    BY <1>0, <1>2, <1>4, <2>2 DEF FindAnchor, FindTargets, Goto, Job
  <2> QED BY <2>1, <2>2
<1> QED BY <1>1, <1>2, <1>3, <1>4, Decisions DEF Decisive

\* One open incident for each signature; two of a route only if neither recorder
\* could have found the other's.
THEOREM OneIsOpenPerRoute == Spec => []OneOpenPerRoute
<1>1. Init => Separate
  BY DEF Init, Separate, Apart, SeenClosed, OpenRow, NoRow, NoJob
<1>2. TypeInv /\ Truthful /\ Separate /\ [Next]_vars => Separate'
  <2>1. ASSUME TypeInv, Truthful, Separate, Next PROVE Separate'
    BY <2>1, ApartStep, SeenStep DEF Separate
  <2>2. ASSUME Separate, UNCHANGED vars PROVE Separate'
    BY <2>2 DEF vars, Separate, Apart, SeenClosed, IsClosed
  <2> QED BY <2>1, <2>2
<1>3. Separate => OneOpenPerRoute
  BY DEF Separate, Apart, OpenRow, SignatureOf, RouteOf, OneOpenPerRoute, Open
<1>4. Init => Truthful
  BY DEF Init, Truthful
<1>5. TypeInv /\ Truthful /\ [Next]_vars => Truthful'
  BY TruthfulStep
<1> QED BY <1>1, <1>2, <1>3, <1>4, <1>5, TypeCorrect, PTL DEF Spec

-----------------------------------------------------------------------------
(***************************************************************************)
(* The grounds of a reconciliation.                                        *)
(***************************************************************************)
Grounded(i) ==
  /\ incident[i].closedBy = "target" => incident[i].target \in {j \in Incidents \ {i} : IsClosed(j)}
  /\ incident[i].closedBy = "provider" => \E j \in Incidents \ {i} : IsAnchor(j)
HasGrounds(c) ==
  /\ job[c].step \in {"anchored", "grounded"} /\ job[c].known # {} => \E j \in Incidents : IsAnchor(j)
  /\ job[c].step = "grounded" => \A e \in job[c].listed : e[1] \in job[c].known \/ TargetClosed(e[1])
Grounds == (\A i \in Incidents : Grounded(i)) /\ (\A c \in Callers : HasGrounds(c))

\* What is closed stays closed, and with it every ground.
LEMMA GroundsStay ==
  ASSUME TypeInv, Next
  PROVE  /\ \A j \in Incidents : IsClosed(j) => IsClosed(j)' /\ incident'[j] = incident[j]
         /\ \A j \in Incidents : IsAnchor(j) => IsAnchor(j)'
         /\ \A i \in Incidents : Exists(i) /\ TargetClosed(i) => TargetClosed(i)'
<1>1. \A i \in Incidents : Keeps(i)
  BY RowsStep
<1>2. \A j \in Incidents : IsClosed(j) => IsClosed(j)' /\ incident'[j] = incident[j]
  BY <1>1 DEF Keeps, IsClosed
<1>3. \A j \in Incidents : IsAnchor(j) => IsAnchor(j)'
  BY <1>2 DEF IsAnchor
<1>4. ASSUME NEW i \in Incidents, Exists(i), TargetClosed(i) PROVE TargetClosed(i)'
  <2>1. incident'[i].target = incident[i].target /\ incident[i].target \in Incidents
    BY <1>1, <1>4, RowFields, TypeParts DEF Keeps, TypeInv, TargetClosed, MaybeIncident
  <2> QED BY <1>2, <1>4, <2>1 DEF TargetClosed
<1> QED BY <1>2, <1>3, <1>4

\* Only a reconciliation closes in the name of a target or of the provider.
LEMMA ReconciledStep ==
  ASSUME TypeInv, Next, NEW i \in Incidents, incident'[i].closedBy \in {"provider", "target"}
  PROVE  \/ incident'[i] = incident[i]
         \/ \E c \in Callers :
              /\ CloseReconciled(c)
              /\ <<i, incident[i].state>> \in job[c].listed
              /\ incident'[i].closedBy = IF i \in job[c].known THEN "provider" ELSE "target"
<1>0. incident \in [Incidents -> Row]
  BY TypeParts DEF TypeInv, RowsTyped
<1>1. ASSUME NEW c \in Callers, NEW k \in Incidents, Insert(c, k) PROVE incident'[i] = incident[i]
  <2>1. incident'[k].closedBy = "nobody" /\ (i # k => incident'[i] = incident[i])
    BY <1>0, <1>1 DEF Insert, NoRow
  <2> QED BY <2>1
<1>2. ASSUME NEW c \in Callers, NEW e \in job[c].listed, CloseReplayed(c, e) PROVE incident'[i] = incident[i]
  <2>1. CASE i = e[1] /\ Open(e[1])
    <3> DEFINE r == [incident[i] EXCEPT !.state = Closed, !.closedBy = "replay",
                       !.evidence = @ \cup {"sha", "deployment", "live", "resume"}]
    <3>1. incident' = [incident EXCEPT ![i] = r]
      BY <1>2, <2>1 DEF CloseReplayed
    <3>2. r.closedBy = "replay"
      BY <1>0 DEF Row
    <3> HIDE DEF r
    <3> QED BY <1>0, <3>1, <3>2
  <2>2. CASE ~(i = e[1] /\ Open(e[1]))
    BY <1>0, <1>2, <2>2 DEF CloseReplayed
  <2> QED BY <2>1, <2>2
<1>3. ASSUME NEW c \in Callers, WriteState(c) PROVE incident'[i] = incident[i]
  <2> DEFINE by == IF job[c].from + 1 = Closed THEN "lifecycle" ELSE "nobody"
             r == [incident[job[c].at] EXCEPT !.state = job[c].from + 1, !.evidence = job[c].evidence,
                     !.rule = job[c].rule, !.closedBy = by]
  <2>1. incident' = incident \/ incident' = [incident EXCEPT ![job[c].at] = r]
    BY <1>3 DEF WriteState
  <2>2. job[c].at \in Incidents
    BY <1>3, JobBefore DEF WriteState, Knows
  <2>3. r.closedBy \in {"lifecycle", "nobody"}
    BY <1>0, <2>2 DEF Row
  <2> HIDE DEF r
  <2> QED BY <1>0, <2>1, <2>2, <2>3
<1>4. ASSUME NEW c \in Callers, CloseReconciled(c), incident'[i] # incident[i]
      PROVE  /\ <<i, incident[i].state>> \in job[c].listed
             /\ incident'[i].closedBy = IF i \in job[c].known THEN "provider" ELSE "target"
  <2> DEFINE by == IF i \in job[c].known THEN "provider" ELSE "target"
             r == [incident[i] EXCEPT !.state = Closed, !.evidence = Kinds, !.rule = Convergence, !.closedBy = by]
  <2>1. incident'[i] = r /\ <<i, incident[i].state>> \in job[c].listed
    BY <1>4 DEF CloseReconciled
  <2>2. r.closedBy = by
    BY <1>0 DEF Row
  <2> HIDE DEF r
  <2> QED BY <2>1, <2>2
<1>5. ASSUME CleanUp PROVE incident'[i] = incident[i]
  <2>1. incident'[i] = incident[i] \/ incident'[i].closedBy = "expected"
    BY <1>0, <1>5 DEF CleanUp, Row
  <2> QED BY <2>1
<1> QED BY <1>1, <1>2, <1>3, <1>4, <1>5, Writers

LEMMA GroundedStep ==
  ASSUME TypeInv, RowsProven, Grounds, Next, NEW i \in Incidents
  PROVE  Grounded(i)'
<1>1. CASE incident'[i].closedBy \notin {"provider", "target"}
  BY <1>1 DEF Grounded
<1>2. CASE incident'[i].closedBy \in {"provider", "target"} /\ incident'[i] = incident[i]
  <2>1. Grounded(i)
    BY DEF Grounds
  <2> QED BY <1>2, <2>1, GroundsStay DEF Grounded
<1>3. ASSUME NEW c \in Callers, CloseReconciled(c), <<i, incident[i].state>> \in job[c].listed,
             incident'[i].closedBy = IF i \in job[c].known THEN "provider" ELSE "target"
      PROVE  Grounded(i)'
  <2>1. /\ job[c].step = "grounded" /\ HasGrounds(c)
        /\ Exists(i) /\ ~IsClosed(i)
    <3>1. Knows(job[c], incident)
      BY JobBefore
    <3>2. incident[i].state \in Detected..Resumed
      BY <1>3, <3>1 DEF Knows
    <3>3. Exists(i) /\ ~IsClosed(i)
      BY <3>2 DEF Exists, IsClosed
    <3>4. job[c].step = "grounded" /\ HasGrounds(c)
      BY <1>3 DEF CloseReconciled, Grounds
    <3> QED BY <3>3, <3>4
  <2>2. CASE i \in job[c].known
    <3>1. PICK j \in Incidents : IsAnchor(j)
      BY <2>1, <2>2 DEF HasGrounds
    <3>2. j # i /\ IsAnchor(j)'
      BY <2>1, <3>1, GroundsStay DEF IsAnchor
    <3> QED BY <1>3, <2>2, <3>2 DEF Grounded
  <2>3. CASE i \notin job[c].known
    <3>1. TargetClosed(i)
      BY <1>3, <2>1, <2>3 DEF HasGrounds
    <3>2. TargetClosed(i)'
      BY <2>1, <3>1, GroundsStay
    <3>3. incident'[i].target \in MaybeIncident
      <4>1. RowsTyped'
        BY RowsStep
      <4> QED BY <4>1 DEF RowsTyped, Row
    <3> QED BY <1>3, <2>3, <3>2, <3>3 DEF Grounded, TargetClosed, MaybeIncident
  <2> QED BY <2>2, <2>3
<1> QED BY <1>1, <1>2, <1>3, ReconciledStep

LEMMA HasGroundsStep ==
  ASSUME TypeInv, Grounds, Next, NEW c \in Callers
  PROVE  HasGrounds(c)'
<1>0. /\ job \in [Callers -> Job] /\ job[c] \in Job
      /\ \A e \in job[c].listed : e[1] \in Incidents /\ Exists(e[1])
      /\ HasGrounds(c)
  BY JobBefore DEF Knows, Exists, Job, Grounds
<1>1. CASE job'[c] = job[c]
  BY <1>0, <1>1, GroundsStay DEF HasGrounds
<1>2. CASE job'[c].step \notin {"anchored", "grounded"}
  BY <1>2 DEF HasGrounds
<1>3. CASE LookFamily(c)
  BY <1>0, <1>2, <1>3 DEF LookFamily, End, NoJob, Job
<1>4. CASE FindAnchor(c)
  <2>1. job'[c].step = "anchored" /\ (job'[c].known # {} => \E j \in Incidents : IsAnchor(j))
    BY <1>0, <1>4 DEF FindAnchor, Goto, Job
  <2> QED BY <2>1, GroundsStay DEF HasGrounds
<1>5. CASE FindTargets(c)
  <2>1. CASE End(c)
    BY <1>0, <1>2, <2>1 DEF End, NoJob
  <2>2. CASE ~End(c)
    <3> DEFINE grounded == {e \in job[c].listed : /\ incident[e[1]].failure \in Unreceived
                                                  /\ e[1] \in job[c].known \/ TargetClosed(e[1])}
    <3>1. /\ job'[c].step = "grounded" /\ job'[c].known = job[c].known /\ job'[c].listed = grounded
          /\ job[c].step = "anchored"
      BY <1>0, <1>5, <2>2 DEF FindTargets, Job
    <3>2. \A e \in grounded : e[1] \in job[c].known \/ TargetClosed(e[1])'
      BY <1>0, GroundsStay
    <3> HIDE DEF grounded
    <3> QED BY <1>0, <3>1, <3>2, GroundsStay DEF HasGrounds
  <2> QED BY <2>1, <2>2
<1> QED BY <1>1, <1>2, <1>3, <1>4, <1>5, Decisions DEF Decisive

\* Every incident that a reconciliation closed rests on another incident that is
\* closed: its target, or one with the provider's rule and proof.
THEOREM ReconciledIsGrounded == Spec => []ReconciledHasGround
<1>1. Init => Grounds
  BY DEF Init, Grounds, Grounded, HasGrounds, NoRow, NoJob
<1>2. TypeInv /\ RowsProven /\ Grounds /\ [Next]_vars => Grounds'
  <2>1. ASSUME TypeInv, RowsProven, Grounds, Next PROVE Grounds'
    BY <2>1, GroundedStep, HasGroundsStep DEF Grounds
  <2>2. ASSUME Grounds, UNCHANGED vars PROVE Grounds'
    BY <2>2 DEF vars, Grounds, Grounded, HasGrounds, IsClosed, IsAnchor, TargetClosed
  <2> QED BY <2>1, <2>2
<1>3. Grounds => ReconciledHasGround
  BY DEF Grounds, Grounded, ReconciledHasGround
<1> QED BY <1>1, <1>2, <1>3, TypeCorrect, RowsAreProven, PTL DEF Spec
=============================================================================
