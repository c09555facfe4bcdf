------------------------- MODULE PostRevisions_proofs -------------------------
(***************************************************************************)
(* Proofs about PostRevisions, for every set of texts and editors.         *)
(***************************************************************************)
EXTENDS PostRevisions, TLAPS

Busy == {"claimed", "sent", "read", "traced", "planned", "ready"}

\* What a job holds: a plan's last revision is its result and has its text; a
\* plan without revisions leaves text and revision as they were.
JobShape(j) ==
  /\ j \in Editors => job[j].step \in {"idle", "read", "traced", "planned"}
  /\ j = Publisher => job[j].current = NoId
  /\ job[j].step # "idle" => job[j].text \in Texts
  /\ job[j].step = "planned" => job[j].new \in Texts
  /\ job[j].rows # {} => job[j].step = "planned"
JobPlan(j) ==
  /\ job[j].rows # {} => \E r \in job[j].rows : r.id = job[j].result /\ r.text = job[j].new
  /\ job[j].step = "planned" /\ job[j].rows = {} =>
       /\ job[j].new = job[j].text
       /\ job[j].current # NoId => job[j].result = job[j].current
       /\ job[j].current = NoId => revisions # {}
JobsInv == \A j \in Jobs : JobShape(j) /\ JobPlan(j)

\* Numbers and ids, the latter up to n, are unique within a set of revisions that
\* has a latest one.
Ordered(S, n) ==
  /\ \A q, r \in S : q.number = r.number => q = r
  /\ \A q, r \in S : q.id = r.id => q = r
  /\ \A r \in S : r.id >= 1 /\ r.id <= n
  /\ S # {} => \E r \in S : \A q \in S : q.number <= r.number
Apart(S, T) == \A q \in S, r \in T : q.id # r.id
IdsInv ==
  /\ Ordered(revisions, issued)
  /\ \A j \in Jobs : Ordered(job[j].rows, issued) /\ Apart(job[j].rows, revisions)
  /\ \A i, j \in Jobs : i # j => Apart(job[i].rows, job[j].rows)

Ordinary == overlaps \cap {"edits", "recovery"} = {}
RowInv ==
  /\ row.current = NoId => revisions = {}
  /\ row.current # NoId => Records(row.current, row.text)
  /\ row.status = "posted" => row.published # NoId /\ row.published = row.current
PublisherInv ==
  /\ job[Publisher].step \in Busy => row.status = "posting"
  /\ job[Publisher].step \in {"read", "traced", "planned"} =>
       row.current = NoId /\ job[Publisher].text = row.text
  /\ job[Publisher].step = "planned" => job[Publisher].new = row.text
  /\ job[Publisher].step = "ready" => job[Publisher].result = row.current /\ row.current # NoId
SentInv ==
  /\ job[Publisher].step = "claimed" => job[Publisher].text = row.text
  /\ job[Publisher].step \in Busy \ {"claimed"} => sent = row.text
  /\ row.status = "posted" => sent = row.text
History ==
  /\ Ordinary => RowInv /\ PublisherInv
  /\ overlaps = {} => SentInv

Inv == TypeOK /\ JobsInv /\ IdsInv /\ History

-----------------------------------------------------------------------------
\* What a plan consists of: a fresh post gets a revision, and the last one has
\* the text of the edit.
LEMMA PlanTextsEndInNew ==
  ASSUME NEW seen \in Texts, NEW origin \in MaybeText, NEW new \in Texts,
         NEW fresh, NEW noted,
         NEW texts, texts = PlanTexts(fresh, seen, origin, new, noted)
  PROVE  /\ texts \in Seq(Texts)
         /\ texts = <<>> => ~fresh /\ new = seen
         /\ texts # <<>> => Len(texts) >= 1 /\ texts[Len(texts)] = new
<1> DEFINE baseline == IF origin = NoText THEN seen ELSE origin
           added == IF new # seen \/ noted THEN <<new>> ELSE <<>>
<1>1. baseline \in Texts
  BY DEF MaybeText
<1> HIDE DEF baseline
<1>2. CASE ~fresh
  <2>1. texts = <<>> \o added
    BY <1>2 DEF PlanTexts
  <2> QED BY <2>1, <1>2
<1>3. CASE fresh /\ baseline = seen
  <2>1. texts = <<seen>> \o added
    BY <1>3 DEF PlanTexts, baseline
  <2> QED BY <2>1, <1>3
<1>4. CASE fresh /\ baseline # seen
  <2>1. texts = <<baseline, seen>> \o added
    BY <1>4 DEF PlanTexts, baseline
  <2> QED BY <2>1, <1>4, <1>1
<1> QED BY <1>2, <1>3, <1>4

\* INSERT OR IGNORE keeps a history in order.
LEMMA StoredStaysOrdered ==
  ASSUME Inv, NEW j \in Jobs, NEW status,
         NEW S, S = Stored(job[j].rows, status)
  PROVE  /\ revisions \subseteq S /\ S \subseteq Revision
         /\ Ordered(S, issued)
         /\ S \subseteq revisions \cup job[j].rows
<1> DEFINE R == job[j].rows
<1>1. R \subseteq Revision /\ Ordered(R, issued) /\ Apart(R, revisions) /\ Ordered(revisions, issued) /\ revisions \subseteq Revision
  BY DEF Inv, IdsInv, TypeOK, Job
<1>2. S = revisions \cup {r \in R : status \in {"approved", "posting"} /\ \A q \in revisions : q.number # r.number}
  BY DEF Stored
<1> HIDE DEF R
<1>3. ASSUME NEW q \in S, NEW r \in S, q.number = r.number PROVE q = r
  BY <1>1, <1>2, <1>3 DEF Ordered
<1>4. ASSUME NEW q \in S, NEW r \in S, q.id = r.id PROVE q = r
  BY <1>1, <1>2, <1>4 DEF Ordered, Apart
<1>5. \A r \in S : r.id >= 1 /\ r.id <= issued
  BY <1>1, <1>2 DEF Ordered
<1>6. ASSUME S # {} PROVE \E r \in S : \A q \in S : q.number <= r.number
  <2> \A r \in S : r.number \in Nat
    BY <1>1, <1>2 DEF Revision
  <2>1. CASE S = revisions
    BY <2>1, <1>6, <1>1 DEF Ordered
  <2>2. CASE S # revisions
    <3>1. R # {} /\ status \in {"approved", "posting"}
      BY <2>2, <1>2
    <3>2. PICK m \in R : \A q \in R : q.number <= m.number
      BY <3>1, <1>1 DEF Ordered
    <3>3. CASE revisions = {}
      <4>1. S = R
        BY <3>1, <3>3, <1>2
      <4> QED BY <4>1, <3>2
    <3>4. CASE revisions # {}
      <4>1. PICK n \in revisions : \A q \in revisions : q.number <= n.number
        BY <3>4, <1>1 DEF Ordered
      <4>2. CASE m.number <= n.number
        <5>1. \A q \in S : q.number <= n.number
          BY <4>1, <4>2, <3>2, <1>1, <1>2 DEF Revision
        <5> QED BY <5>1, <4>1, <1>2
      <4>3. CASE ~(m.number <= n.number)
        <5>1. m \in S
          BY <4>1, <4>3, <3>1, <1>2, <1>1 DEF Revision
        <5>2. \A q \in S : q.number <= m.number
          BY <4>1, <4>3, <3>2, <1>1, <1>2 DEF Revision
        <5> QED BY <5>1, <5>2
      <4> QED BY <4>2, <4>3
    <3> QED BY <3>3, <3>4
  <2> QED BY <2>1, <2>2
<1> QED BY <1>1, <1>2, <1>3, <1>4, <1>5, <1>6 DEF Ordered, R

LEMMA LatestIsThere ==
  ASSUME Inv
  PROVE  /\ LatestNumber \in Nat /\ LatestId \in Nat
         /\ LatestId = NoId <=> revisions = {}
         /\ \A r \in revisions : r.number <= LatestNumber
<1> DEFINE last == CHOOSE r \in revisions : IsLatest(r)
<1>1. CASE revisions = {}
  BY <1>1 DEF LatestNumber, LatestId, NoId
<1>2. CASE revisions # {}
  <2>1. \E r \in revisions : IsLatest(r)
    BY <1>2 DEF Inv, IdsInv, Ordered, IsLatest
  <2>2. last \in revisions /\ IsLatest(last)
    BY <2>1
  <2>3. last.number \in Nat /\ last.id \in Nat /\ last.id >= 1
    BY <2>2 DEF Inv, IdsInv, Ordered, TypeOK, Revision
  <2> QED BY <1>2, <2>2, <2>3 DEF LatestNumber, LatestId, NoId, IsLatest
<1> QED BY <1>1, <1>2

-----------------------------------------------------------------------------
(***************************************************************************)
(* The steps.                                                              *)
(***************************************************************************)
LEMMA InvInit == Init => Inv
<1> SUFFICES ASSUME Init PROVE Inv
  OBVIOUS
<1> USE DEF Init, NoJob, NoText, NoId
<1>1. TypeOK
  <2>1. PICK t \in Texts : row = [status |-> "approved", text |-> t, current |-> 0, published |-> 0]
    OBVIOUS
  <2>4. row \in Row
    BY <2>1 DEF Row, Statuses
  <2>3. row.text \in Texts /\ draft \in MaybeText /\ lineup \in MaybeText /\ sent \in MaybeText
    BY <2>1 DEF MaybeText
  <2>2. NoJob \in Job
    BY DEF Job, MaybeText
  <2> QED BY <2>4, <2>2, <2>3 DEF TypeOK
<1>2. JobsInv
  BY EditorsAssumption DEF JobsInv, JobShape, JobPlan, Jobs
<1>3. IdsInv
  BY DEF IdsInv, Ordered, Apart
<1>4. History
  BY DEF History, Ordinary, RowInv, PublisherInv, SentInv, Busy, Jobs
<1> QED BY <1>1, <1>2, <1>3, <1>4 DEF Inv

\* A step that plans and stores nothing: it changes one job's progress and may
\* touch the row, but no history.
LEMMA QuietStep ==
  ASSUME Inv, NEW j \in Jobs, NEW h \in Job,
         job' = [job EXCEPT ![j] = h], h.rows = {},
         UNCHANGED <<revisions, issued>>,
         row' \in Row, draft' \in MaybeText, lineup' \in MaybeText, sent' \in MaybeText,
         overlaps' \subseteq OverlapKinds,
         JobShape(j)', h.step # "planned"
  PROVE  TypeOK' /\ JobsInv' /\ IdsInv'
<1>1. TypeOK'
  BY DEF Inv, TypeOK
<1> job'[j] = h /\ \A i \in Jobs \ {j} : job'[i] = job[i]
  BY DEF Inv, TypeOK
<1>2. JobsInv'
  <2> SUFFICES ASSUME NEW i \in Jobs PROVE JobShape(i)' /\ JobPlan(i)'
    BY DEF JobsInv
  <2>1. CASE i = j
    BY <2>1 DEF JobPlan
  <2>2. CASE i # j
    BY <2>2 DEF Inv, JobsInv, JobShape, JobPlan
  <2> QED BY <2>1, <2>2
<1>3. IdsInv'
  <2>1. Ordered(revisions, issued)'
    BY DEF Inv, IdsInv, Ordered
  <2>2. ASSUME NEW i \in Jobs PROVE Ordered(job[i].rows, issued)' /\ Apart(job[i].rows, revisions)'
    <3>1. CASE i = j
      BY <3>1 DEF Ordered, Apart
    <3>2. CASE i # j
      BY <3>2 DEF Inv, IdsInv, Ordered, Apart
    <3> QED BY <3>1, <3>2
  <2>3. ASSUME NEW i \in Jobs, NEW k \in Jobs, i # k PROVE Apart(job[i].rows, job[k].rows)'
    <3>1. CASE i = j \/ k = j
      BY <3>1, <2>3 DEF Apart
    <3>2. CASE i # j /\ k # j
      BY <3>2, <2>3 DEF Inv, IdsInv, Apart
    <3> QED BY <3>1, <3>2
  <2> QED BY <2>1, <2>2, <2>3 DEF IdsInv
<1> QED BY <1>1, <1>2, <1>3

\* A batch stores a job's revisions and the job holds none afterwards.
LEMMA StoringStep ==
  ASSUME Inv, NEW j \in Jobs, NEW h \in Job, NEW status,
         job' = [job EXCEPT ![j] = h], h.rows = {},
         revisions' = Stored(job[j].rows, status), issued' = issued,
         row' \in Row, draft' \in MaybeText, lineup' \in MaybeText, sent' \in MaybeText,
         overlaps' \subseteq OverlapKinds,
         JobShape(j)', h.step # "planned"
  PROVE  TypeOK' /\ JobsInv' /\ IdsInv' /\ revisions \subseteq revisions'
<1> DEFINE S == Stored(job[j].rows, status)
<1>1. /\ revisions \subseteq S /\ S \subseteq Revision /\ Ordered(S, issued)
      /\ S \subseteq revisions \cup job[j].rows
  BY StoredStaysOrdered
<1> HIDE DEF S
<1>2. revisions' = S
  BY DEF S
<1> job'[j] = h /\ \A i \in Jobs \ {j} : job'[i] = job[i]
  BY DEF Inv, TypeOK
<1>3. TypeOK'
  <2>1. \A q, r \in revisions' : q.number = r.number => q = r
    BY <1>1, <1>2 DEF Ordered
  <2> QED BY <2>1, <1>1, <1>2 DEF Inv, TypeOK
<1>4. JobsInv'
  <2> SUFFICES ASSUME NEW i \in Jobs PROVE JobShape(i)' /\ JobPlan(i)'
    BY DEF JobsInv
  <2>1. CASE i = j
    BY <2>1 DEF JobPlan
  <2>2. CASE i # j
    <3>1. revisions # {} => revisions' # {}
      BY <1>1, <1>2
    <3>2. JobShape(i) /\ JobPlan(i)
      BY DEF Inv, JobsInv
    <3>3. job'[i] = job[i]
      BY <2>2
    <3> QED BY <3>1, <3>2, <3>3 DEF JobShape, JobPlan
  <2> QED BY <2>1, <2>2
<1>5. IdsInv'
  <2>1. Ordered(revisions, issued)'
    BY <1>1, <1>2 DEF Ordered
  <2>2. ASSUME NEW i \in Jobs PROVE Ordered(job[i].rows, issued)' /\ Apart(job[i].rows, revisions)'
    <3>1. CASE i = j
      BY <3>1 DEF Ordered, Apart
    <3>2. CASE i # j
      <4>1. Ordered(job[i].rows, issued) /\ Apart(job[i].rows, revisions) /\ Apart(job[i].rows, job[j].rows)
        BY <3>2 DEF Inv, IdsInv
      <4>2. job'[i].rows = job[i].rows
        BY <3>2
      <4>3. Apart(job[i].rows, S)
        BY <4>1, <1>1 DEF Apart
      <4> QED BY <4>1, <4>2, <4>3, <1>2 DEF Ordered, Apart
    <3> QED BY <3>1, <3>2
  <2>3. ASSUME NEW i \in Jobs, NEW k \in Jobs, i # k PROVE Apart(job[i].rows, job[k].rows)'
    <3>1. CASE i = j \/ k = j
      BY <3>1, <2>3 DEF Apart
    <3>2. CASE i # j /\ k # j
      BY <3>2, <2>3 DEF Inv, IdsInv, Apart
    <3> QED BY <3>1, <3>2
  <2> QED BY <2>1, <2>2, <2>3 DEF IdsInv
<1> QED BY <1>1, <1>2, <1>3, <1>4, <1>5

\* A plan's revisions are new, in order, and end in the text of the edit.
LEMMA PlanningStep ==
  ASSUME Inv, NEW j \in Jobs, NEW new \in Texts, NEW noted \in BOOLEAN, Plan(j, new, noted)
  PROVE  TypeOK' /\ JobsInv' /\ IdsInv'
<1> DEFINE known == IF job[j].current # NoId THEN job[j].current ELSE LatestId
           fresh == known = NoId
           texts == PlanTexts(fresh, job[j].text, job[j].origin, new, noted)
           n == LatestNumber
           rows == {[id |-> issued + k, number |-> n + k, text |-> texts[k]] : k \in 1..Len(texts)}
           result == IF texts = <<>> THEN known ELSE issued + Len(texts)
<1>1. /\ n \in Nat /\ LatestId \in Nat
      /\ LatestId = NoId <=> revisions = {}
  BY LatestIsThere
<1>2. job[j].text \in Texts /\ job[j].origin \in MaybeText /\ job[j].current \in Nat /\ issued \in Nat
  BY DEF Inv, TypeOK, Job, JobsInv, JobShape, Plan
<1>3. known \in Nat
  BY <1>1, <1>2
<1>4. /\ texts \in Seq(Texts)
      /\ texts = <<>> => known # NoId /\ new = job[j].text
      /\ texts # <<>> => Len(texts) >= 1 /\ texts[Len(texts)] = new
  <2>1. fresh \in BOOLEAN
    OBVIOUS
  <2> HIDE DEF fresh
  <2>2. texts = PlanTexts(fresh, job[j].text, job[j].origin, new, noted)
    OBVIOUS
  <2> HIDE DEF texts
  <2>3. /\ texts \in Seq(Texts)
        /\ texts = <<>> => ~fresh /\ new = job[j].text
        /\ texts # <<>> => Len(texts) >= 1 /\ texts[Len(texts)] = new
    BY <1>2, <2>1, <2>2, PlanTextsEndInNew
  <2> QED BY <2>3 DEF fresh
<1>5. job' = [job EXCEPT ![j].step = "planned", ![j].new = new, ![j].rows = rows, ![j].result = result]
  BY DEF Plan
<1>u. issued' = issued + Len(texts) /\ UNCHANGED <<row, revisions, draft, lineup, sent, overlaps>>
  BY DEF Plan
<1>6. job[j].step = "traced"
  BY DEF Plan
<1> HIDE DEF known, fresh, texts, n
<1>7. Len(texts) \in Nat /\ \A k \in 1..Len(texts) : texts[k] \in Texts
  BY <1>4
<1>8. rows \subseteq Revision /\ result \in Nat
  BY <1>1, <1>2, <1>3, <1>7 DEF Revision
<1>9. /\ job'[j] = [job[j] EXCEPT !.step = "planned", !.new = new, !.rows = rows, !.result = result]
      /\ \A i \in Jobs \ {j} : job'[i] = job[i]
      /\ job[j] \in Job
  BY <1>5 DEF Inv, TypeOK
<1>10. /\ job'[j].step = "planned" /\ job'[j].new = new /\ job'[j].rows = rows
       /\ job'[j].result = result /\ job'[j].text = job[j].text /\ job'[j].current = job[j].current
       /\ job'[j] \in Job
  BY <1>9, <1>8 DEF Job, MaybeText
<1>11. TypeOK'
  <2>1. job' \in [Jobs -> Job]
    BY <1>5, <1>9, <1>10 DEF Inv, TypeOK
  <2>2. issued' \in Nat
    BY <1>u, <1>2, <1>7
  <2> QED BY <2>1, <2>2, <1>u DEF Inv, TypeOK
<1>12. JobsInv'
  <2> SUFFICES ASSUME NEW i \in Jobs PROVE JobShape(i)' /\ JobPlan(i)'
    BY DEF JobsInv
  <2>1. CASE i = j
    <3>1. JobShape(j)'
      BY <1>10, <1>6, <1>2 DEF Inv, JobsInv, JobShape
    <3>2. CASE texts = <<>>
      <4>1. rows = {}
        BY <3>2
      <4> QED BY <2>1, <3>1, <3>2, <4>1, <1>1, <1>4, <1>u, <1>10 DEF JobPlan, known
    <3>3. CASE texts # <<>>
      <4>1. Len(texts) \in 1..Len(texts)
        BY <3>3, <1>4, <1>7
      <4>2. [id |-> issued + Len(texts), number |-> n + Len(texts), text |-> new] \in rows
        BY <4>1, <3>3, <1>4
      <4>3. \E r \in rows : r.id = result /\ r.text = new
        BY <4>2, <3>3
      <4>4. rows # {}
        BY <4>2
      <4> HIDE DEF rows, result
      <4> QED BY <2>1, <3>1, <4>3, <4>4, <1>10 DEF JobPlan
    <3> QED BY <3>2, <3>3
  <2>2. CASE i # j
    <3>1. JobShape(i) /\ JobPlan(i) /\ job'[i] = job[i] /\ revisions' = revisions
      BY <2>2, <1>u, <1>9 DEF Inv, JobsInv
    <3> QED BY <3>1 DEF JobShape, JobPlan
  <2> QED BY <2>1, <2>2
<1>13. IdsInv'
  <2>1. Ordered(revisions, issued)'
    BY <1>u, <1>2, <1>7 DEF Inv, IdsInv, Ordered, TypeOK, Revision
  <2>2. \A r \in rows : r.id > issued /\ r.id <= issued'
    BY <1>2, <1>u, <1>7
  <2>3. Ordered(rows, issued')
    <3>1. \A q, r \in rows : q.number = r.number \/ q.id = r.id => q = r
      BY <1>1, <1>2, <1>7
    <3>2. ASSUME rows # {} PROVE \E r \in rows : \A q \in rows : q.number <= r.number
      <4>1. Len(texts) \in 1..Len(texts)
        BY <3>2, <1>7
      <4>2. [id |-> issued + Len(texts), number |-> n + Len(texts), text |-> texts[Len(texts)]] \in rows
        BY <4>1
      <4>3. \A q \in rows : q.number <= n + Len(texts)
        BY <1>1, <1>7
      <4> QED BY <4>2, <4>3
    <3>3. \A r \in rows : r.id >= 1
      BY <2>2, <1>2, <1>8 DEF Revision
    <3> HIDE DEF rows
    <3> QED BY <3>1, <3>2, <3>3, <2>2 DEF Ordered
  <2>4. Apart(rows, revisions)
    BY <2>2, <1>2, <1>8 DEF Apart, Inv, IdsInv, Ordered, TypeOK, Revision
  <2>5. ASSUME NEW i \in Jobs, i # j
        PROVE  /\ Ordered(job[i].rows, issued') /\ Apart(job[i].rows, revisions)
               /\ Apart(job[i].rows, rows) /\ Apart(rows, job[i].rows)
    <3>1. Ordered(job[i].rows, issued) /\ Apart(job[i].rows, revisions) /\ job[i].rows \subseteq Revision
      BY DEF Inv, IdsInv, TypeOK, Job
    <3>2. \A r \in job[i].rows : r.id <= issued /\ r.id <= issued' /\ r.id \in Nat
      BY <3>1, <1>2, <1>u, <1>7 DEF Ordered, Revision
    <3>3. \A r \in rows : r.id \in Nat /\ r.id > issued
      BY <2>2, <1>8 DEF Revision
    <3> HIDE DEF rows
    <3>4. Apart(job[i].rows, rows) /\ Apart(rows, job[i].rows)
      BY <3>2, <3>3, <1>2 DEF Apart
    <3> QED BY <3>1, <3>2, <3>4 DEF Ordered
  <2>6. /\ revisions' = revisions /\ job'[j].rows = rows
        /\ \A i \in Jobs \ {j} : job'[i].rows = job[i].rows
        /\ \A i, k \in Jobs : i # k => Apart(job[i].rows, job[k].rows)
    BY <1>u, <1>9, <1>10 DEF Inv, IdsInv
  <2> HIDE DEF rows
  <2>7. ASSUME NEW i \in Jobs PROVE Ordered(job'[i].rows, issued') /\ Apart(job'[i].rows, revisions')
    BY <2>3, <2>4, <2>5, <2>6
  <2>8. ASSUME NEW i \in Jobs, NEW k \in Jobs, i # k PROVE Apart(job'[i].rows, job'[k].rows)
    BY <2>8, <2>5, <2>6
  <2> QED BY <2>1, <2>7, <2>8 DEF IdsInv
<1> QED BY <1>11, <1>12, <1>13

LEMMA StepKeepsJobs ==
  ASSUME Inv, Next
  PROVE  TypeOK' /\ JobsInv' /\ IdsInv'
<1> USE DEF Jobs
<1>a. /\ Publisher \in Jobs /\ Publisher \notin Editors /\ NoJob \in Job /\ NoJob.rows = {}
      /\ NoJob.step = "idle" /\ NoJob.current = NoId
      /\ job \in [Jobs -> Job] /\ \A j \in Jobs : job[j] \in Job
  BY EditorsAssumption DEF Inv, TypeOK, NoJob, Job, MaybeText, NoId
<1>b. /\ row \in Row /\ draft \in MaybeText /\ lineup \in MaybeText /\ sent \in MaybeText
      /\ overlaps \subseteq OverlapKinds /\ revisions \subseteq Revision
  BY DEF Inv, TypeOK
<1>c. \A j \in Jobs : JobShape(j)
  BY DEF Inv, JobsInv
<1>1. ASSUME NEW e \in Editors, EditRead(e) PROVE TypeOK' /\ JobsInv' /\ IdsInv'
  <2> DEFINE h == [NoJob EXCEPT !.step = "read", !.text = row.text, !.current = row.current]
  <2>1. /\ h \in Job /\ h.rows = {} /\ h.step = "read" /\ h.text \in Texts
    BY <1>a, <1>b DEF Job, MaybeText, Row
  <2>2. job' = [job EXCEPT ![e] = h] /\ UNCHANGED <<row, revisions, draft, lineup, issued, sent, overlaps>>
    BY <1>1 DEF EditRead
  <2> HIDE DEF h
  <2>3. JobShape(e)'
    BY <1>a, <2>1, <2>2 DEF JobShape
  <2> QED BY <1>b, <2>1, <2>2, <2>3, QuietStep
<1>2. ASSUME NEW j \in Jobs, Trace(j) PROVE TypeOK' /\ JobsInv' /\ IdsInv'
  <2> DEFINE h == [job[j] EXCEPT !.step = "traced", !.origin = IF lineup # NoText THEN lineup ELSE draft]
  <2>1. /\ h \in Job /\ h.rows = job[j].rows /\ h.step = "traced" /\ h.text = job[j].text
        /\ h.current = job[j].current
    BY <1>a, <1>b DEF Job
  <2>2. job' = [job EXCEPT ![j] = h]
    BY <1>2 DEF Trace
  <2>3. job[j].step = "read" /\ UNCHANGED <<row, revisions, draft, lineup, issued, sent, overlaps>>
    BY <1>2 DEF Trace
  <2> HIDE DEF h
  <2>4. JobShape(j)' /\ h.rows = {}
    BY <1>a, <1>c, <2>1, <2>2, <2>3 DEF JobShape
  <2> QED BY <1>b, <2>1, <2>2, <2>3, <2>4, QuietStep
<1>3. ASSUME NEW e \in Editors, NEW new \in Texts, NEW noted \in BOOLEAN, Plan(e, new, noted)
      PROVE  TypeOK' /\ JobsInv' /\ IdsInv'
  BY <1>3, PlanningStep
<1>4. ASSUME NEW e \in Editors, EditCommit(e) PROVE TypeOK' /\ JobsInv' /\ IdsInv'
  <2>1. row' \in Row /\ draft' \in MaybeText /\ overlaps' \subseteq OverlapKinds
    <3>1. job[e].new \in Texts /\ job[e].result \in Nat
      BY <1>4, <1>a, <1>c DEF EditCommit, JobShape, Job
    <3>2. CASE row.status = "approved"
      <4>1. row' = [row EXCEPT !.text = job[e].new, !.current = job[e].result]
        BY <1>4, <3>2 DEF EditCommit
      <4> QED BY <4>1, <3>1, <1>b, <1>4 DEF Row, EditCommit, MaybeText, OverlapKinds
    <3>3. CASE row.status # "approved"
      BY <3>3, <3>1, <1>b, <1>4 DEF EditCommit, MaybeText, OverlapKinds
    <3> QED BY <3>2, <3>3
  <2>2. job' = [job EXCEPT ![e] = NoJob] /\ revisions' = Stored(job[e].rows, row.status)
        /\ UNCHANGED <<lineup, issued, sent>>
    BY <1>4 DEF EditCommit
  <2>3. JobShape(e)' /\ NoJob.step # "planned"
    BY <1>a, <2>2 DEF JobShape
  <2> QED BY <1>a, <1>b, <2>1, <2>2, <2>3, StoringStep
<1>5. CASE Select
  <2> DEFINE h == [NoJob EXCEPT !.step = "selected", !.text = row.text]
  <2>1. /\ h \in Job /\ h.rows = {} /\ h.step = "selected" /\ h.text \in Texts /\ h.current = NoId
    BY <1>a, <1>b DEF Job, MaybeText, Row
  <2>2. job' = [job EXCEPT ![Publisher] = h] /\ UNCHANGED <<row, revisions, draft, lineup, issued, sent, overlaps>>
    BY <1>5 DEF Select
  <2> HIDE DEF h
  <2>3. JobShape(Publisher)'
    BY <1>a, <2>1, <2>2 DEF JobShape
  <2> QED BY <1>a, <1>b, <2>1, <2>2, <2>3, QuietStep
<1>6. CASE Claim
  <2>1. CASE row.status = "approved"
    <3> DEFINE h == [job[Publisher] EXCEPT !.step = "claimed"]
    <3>1. /\ h \in Job /\ h.rows = job[Publisher].rows /\ h.step = "claimed"
          /\ h.text = job[Publisher].text /\ h.current = job[Publisher].current
      BY <1>a DEF Job
    <3>2. job' = [job EXCEPT ![Publisher] = h]
      BY <1>6, <2>1 DEF Claim
    <3>3. /\ job[Publisher].step = "selected" /\ row' = [row EXCEPT !.status = "posting"]
          /\ overlaps' \subseteq OverlapKinds /\ UNCHANGED <<revisions, draft, lineup, issued, sent>>
      BY <1>6, <2>1, <1>b DEF Claim, OverlapKinds
    <3>4. row' \in Row
      BY <3>3, <1>b DEF Row, Statuses
    <3> HIDE DEF h
    <3>5. JobShape(Publisher)' /\ h.rows = {}
      BY <1>a, <1>c, <3>1, <3>2, <3>3 DEF JobShape
    <3> QED BY <1>a, <1>b, <3>1, <3>2, <3>3, <3>4, <3>5, QuietStep
  <2>2. CASE row.status # "approved"
    <3>1. job' = [job EXCEPT ![Publisher] = NoJob] /\ UNCHANGED <<row, revisions, draft, lineup, issued, sent, overlaps>>
      BY <1>6, <2>2 DEF Claim
    <3>2. JobShape(Publisher)' /\ NoJob.step # "planned"
      BY <1>a, <3>1 DEF JobShape
    <3> QED BY <1>a, <1>b, <3>1, <3>2, QuietStep
  <2> QED BY <2>1, <2>2
<1>7. CASE Send
  <2> DEFINE h == [job[Publisher] EXCEPT !.step = "sent"]
  <2>1. /\ h \in Job /\ h.rows = job[Publisher].rows /\ h.step = "sent"
        /\ h.text = job[Publisher].text /\ h.current = job[Publisher].current
    BY <1>a DEF Job
  <2>2. job' = [job EXCEPT ![Publisher] = h]
    BY <1>7 DEF Send
  <2>3. /\ job[Publisher].step = "claimed" /\ sent' = job[Publisher].text
        /\ UNCHANGED <<row, revisions, draft, lineup, issued, overlaps>>
    BY <1>7 DEF Send
  <2> HIDE DEF h
  <2>4. JobShape(Publisher)' /\ h.rows = {} /\ sent' \in MaybeText
    BY <1>a, <1>c, <2>1, <2>2, <2>3 DEF JobShape, MaybeText
  <2> QED BY <1>a, <1>b, <2>1, <2>2, <2>3, <2>4, QuietStep
<1>8. CASE FinalizeRead
  <2>1. job[Publisher].step = "sent" /\ UNCHANGED <<row, revisions, draft, lineup, issued, sent, overlaps>>
    BY <1>8 DEF FinalizeRead
  <2>2. CASE row.current # NoId
    <3> DEFINE h == [job[Publisher] EXCEPT !.step = "ready", !.result = row.current]
    <3>1. /\ h \in Job /\ h.rows = job[Publisher].rows /\ h.step = "ready"
          /\ h.text = job[Publisher].text /\ h.current = job[Publisher].current
      BY <1>a, <1>b DEF Job, Row
    <3>2. job' = [job EXCEPT ![Publisher] = h]
      BY <1>8, <2>2 DEF FinalizeRead
    <3> HIDE DEF h
    <3>3. JobShape(Publisher)' /\ h.rows = {}
      BY <1>a, <1>c, <2>1, <3>1, <3>2 DEF JobShape
    <3> QED BY <1>a, <1>b, <2>1, <3>1, <3>2, <3>3, QuietStep
  <2>3. CASE row.current = NoId
    <3> DEFINE h == [job[Publisher] EXCEPT !.step = "read", !.text = row.text]
    <3>1. /\ h \in Job /\ h.rows = job[Publisher].rows /\ h.step = "read"
          /\ h.text \in Texts /\ h.current = job[Publisher].current
      BY <1>a, <1>b DEF Job, Row, MaybeText
    <3>2. job' = [job EXCEPT ![Publisher] = h]
      BY <1>8, <2>3 DEF FinalizeRead
    <3> HIDE DEF h
    <3>3. JobShape(Publisher)' /\ h.rows = {}
      BY <1>a, <1>c, <2>1, <3>1, <3>2 DEF JobShape
    <3> QED BY <1>a, <1>b, <2>1, <3>1, <3>2, <3>3, QuietStep
  <2> QED BY <2>2, <2>3
<1>9. CASE EnsurePlan
  <2>1. job[Publisher].text \in Texts
    BY <1>9, <1>a, <1>c DEF EnsurePlan, Plan, JobShape
  <2> QED BY <1>9, <1>a, <2>1, PlanningStep DEF EnsurePlan
<1>10. CASE EnsureCommit
  <2> DEFINE h == [job[Publisher] EXCEPT !.step = "ready", !.rows = {}]
  <2>1. /\ h \in Job /\ h.rows = {} /\ h.step = "ready"
        /\ h.text = job[Publisher].text /\ h.current = job[Publisher].current
    BY <1>a DEF Job
  <2>2. job' = [job EXCEPT ![Publisher] = h]
    BY <1>10 DEF EnsureCommit
  <2>3. /\ job[Publisher].step = "planned" /\ revisions' = Stored(job[Publisher].rows, row.status)
        /\ UNCHANGED <<draft, lineup, issued, sent, overlaps>>
    BY <1>10 DEF EnsureCommit
  <2>4. row' \in Row
    <3>1. job[Publisher].result \in Nat
      BY <1>a DEF Job
    <3>2. row' = row \/ row' = [row EXCEPT !.current = job[Publisher].result]
      BY <1>10 DEF EnsureCommit
    <3> QED BY <3>1, <3>2, <1>b DEF Row
  <2> HIDE DEF h
  <2>5. JobShape(Publisher)'
    BY <1>a, <1>c, <2>1, <2>2, <2>3 DEF JobShape
  <2> QED BY <1>a, <1>b, <2>1, <2>2, <2>3, <2>4, <2>5, StoringStep
<1>11. CASE Finalize
  <2>1. /\ job' = [job EXCEPT ![Publisher] = NoJob]
        /\ row' = [row EXCEPT !.status = "posted", !.published = job[Publisher].result]
        /\ UNCHANGED <<revisions, draft, lineup, issued, sent, overlaps>>
    BY <1>11 DEF Finalize
  <2>2. JobShape(Publisher)' /\ NoJob.step # "planned"
    BY <1>a, <2>1 DEF JobShape
  <2>3. row' \in Row
    BY <1>a, <1>b, <2>1 DEF Row, Statuses, Job
  <2> QED BY <1>a, <1>b, <2>1, <2>2, <2>3, QuietStep
<1>12. CASE Recover
  <2>1. row' = [row EXCEPT !.status = "approved"] /\ overlaps' \subseteq OverlapKinds
    BY <1>12, <1>b DEF Recover, OverlapKinds
  <2>2. row' \in Row
    BY <2>1, <1>b DEF Row, Statuses
  <2>3. UNCHANGED <<revisions, draft, lineup, issued, job, sent>>
    BY <1>12 DEF Recover
  <2>4. TypeOK' /\ JobsInv' /\ IdsInv'
    BY <2>1, <2>2, <2>3 DEF Inv, TypeOK, JobsInv, JobShape, JobPlan, IdsInv, Ordered, Apart
  <2> QED BY <2>4
<1>13. ASSUME NEW j \in Jobs, Crash(j) PROVE TypeOK' /\ JobsInv' /\ IdsInv'
  <2>1. job' = [job EXCEPT ![j] = NoJob] /\ UNCHANGED <<row, revisions, draft, lineup, issued, sent, overlaps>>
    BY <1>13 DEF Crash
  <2>2. JobShape(j)' /\ NoJob.step # "planned"
    BY <1>a, <2>1 DEF JobShape
  <2> QED BY <1>a, <1>b, <2>1, <2>2, QuietStep
<1> QED
  BY <1>1, <1>2, <1>3, <1>4, <1>5, <1>6, <1>7, <1>8, <1>9, <1>10, <1>11, <1>12, <1>13, <1>a DEF Next

\* An edit that met what it had read leaves a row whose revision is recorded.
LEMMA UndisturbedEditIsRecorded ==
  ASSUME Inv, NEW e \in Editors, EditCommit(e), Undisturbed(e), RowInv
  PROVE  RowInv'
<1> DEFINE R == job[e].rows
<1>1. /\ row.status = "approved" /\ row.text = job[e].text /\ row.current = job[e].current
      /\ \A r \in R, q \in revisions : q.number # r.number
  BY DEF Undisturbed
<1>2. /\ row' = [row EXCEPT !.text = job[e].new, !.current = job[e].result]
      /\ revisions' = Stored(R, row.status) /\ job[e].step = "planned"
  BY <1>1 DEF EditCommit
<1>3. revisions' = revisions \cup R
  BY <1>1, <1>2 DEF Stored
<1>4. row \in Row /\ JobPlan(e) /\ JobShape(e)
  BY DEF Inv, TypeOK, JobsInv, Jobs
<1>5. row'.status = "approved" /\ row'.text = job[e].new /\ row'.current = job[e].result
  BY <1>1, <1>2, <1>4 DEF Row
<1>6. CASE R # {}
  <2>1. PICK r \in R : r.id = job[e].result /\ r.text = job[e].new
    BY <1>4, <1>6 DEF JobPlan
  <2>2. r.id >= 1 /\ r.id \in Nat
    BY <2>1 DEF Inv, IdsInv, Ordered, TypeOK, Job, Revision, Jobs
  <2>3. row'.current # NoId
    BY <2>1, <2>2, <1>5 DEF NoId
  <2>4. \E q \in revisions' : q.id = row'.current /\ q.text = row'.text
    BY <2>1, <1>3, <1>5
  <2> HIDE DEF R
  <2> QED BY <2>3, <2>4, <1>5 DEF RowInv, Records
<1>7. CASE R = {}
  <2>1. /\ job[e].new = job[e].text
        /\ job[e].current # NoId => job[e].result = job[e].current
        /\ job[e].current = NoId => revisions # {}
    BY <1>2, <1>4, <1>7 DEF JobPlan
  <2>2. row.current # NoId
    BY <1>1, <2>1 DEF RowInv
  <2>3. row'.current = row.current /\ row'.text = row.text /\ revisions' = revisions
    BY <1>1, <1>3, <1>5, <1>7, <2>1, <2>2
  <2>4. Records(row.current, row.text)
    BY <2>2 DEF RowInv
  <2> HIDE DEF R
  <2> QED BY <2>2, <2>3, <2>4, <1>5 DEF RowInv, Records
<1> QED BY <1>6, <1>7

\* Finalization without a revision: the history was empty, and what is stored
\* describes the row.
LEMMA EnsuredIsRecorded ==
  ASSUME Inv, EnsureCommit, RowInv, PublisherInv
  PROVE  RowInv' /\ PublisherInv'
<1> DEFINE R == job[Publisher].rows
           h == [job[Publisher] EXCEPT !.step = "ready", !.rows = {}]
<1>1. /\ job[Publisher].step = "planned" /\ revisions' = Stored(R, row.status)
      /\ row' = IF R = {} THEN row ELSE [row EXCEPT !.current = job[Publisher].result]
      /\ job' = [job EXCEPT ![Publisher] = h]
  BY DEF EnsureCommit
<1>2. /\ row \in Row /\ JobPlan(Publisher) /\ JobShape(Publisher)
      /\ job \in [Jobs -> Job] /\ Publisher \in Jobs /\ job[Publisher] \in Job
  BY DEF Inv, TypeOK, JobsInv, Jobs
<1>3. row.status = "posting" /\ row.current = NoId /\ revisions = {}
  BY <1>1 DEF PublisherInv, RowInv, Busy
<1>4. R # {}
  BY <1>1, <1>2, <1>3 DEF JobPlan, JobShape
<1>5. PICK r \in R : r.id = job[Publisher].result /\ r.text = job[Publisher].new
  BY <1>2, <1>4 DEF JobPlan
<1>6. r.id >= 1 /\ r.id \in Nat
  BY <1>2, <1>5 DEF Inv, IdsInv, Ordered, Job, Revision
<1>7. row'.current = job[Publisher].result /\ row'.text = row.text /\ row'.status = "posting"
  BY <1>1, <1>2, <1>3, <1>4 DEF Row
<1>8. job[Publisher].new = row.text
  BY <1>1 DEF PublisherInv
<1>9. r \in revisions'
  BY <1>1, <1>3, <1>5 DEF Stored
<1>10. job'[Publisher].step = "ready" /\ job'[Publisher].result = job[Publisher].result
  BY <1>1, <1>2 DEF Job
<1>11. row'.current # NoId
  BY <1>5, <1>6, <1>7 DEF NoId
<1>12. \E q \in revisions' : q.id = row'.current /\ q.text = row'.text
  BY <1>5, <1>7, <1>8, <1>9
<1> HIDE DEF R
<1>13. RowInv'
  BY <1>7, <1>11, <1>12 DEF RowInv, Records
<1>14. PublisherInv'
  BY <1>7, <1>10, <1>11 DEF PublisherInv
<1> QED BY <1>13, <1>14

LEMMA StepKeepsHistory ==
  ASSUME Inv, Next
  PROVE  History'
<1> USE DEF Jobs
<1>a. /\ Publisher \in Jobs /\ Publisher \notin Editors
      /\ NoJob.step = "idle" /\ job \in [Jobs -> Job] /\ \A j \in Jobs : job[j] \in Job
      /\ row \in Row
  BY EditorsAssumption DEF Inv, TypeOK, NoJob
<1>h. History
  BY DEF Inv
<1>1. ASSUME NEW e \in Editors, EditRead(e) \/ Trace(e) \/ \E new \in Texts, noted \in BOOLEAN : Plan(e, new, noted)
      PROVE  History'
  <2>1. /\ UNCHANGED <<row, revisions, sent, overlaps>>
        /\ job'[Publisher] = job[Publisher]
    <3>1. CASE EditRead(e)
      BY <3>1, <1>a DEF EditRead
    <3>2. CASE Trace(e)
      BY <3>2, <1>a DEF Trace
    <3>3. ASSUME NEW new \in Texts, NEW noted \in BOOLEAN, Plan(e, new, noted)
          PROVE  UNCHANGED <<row, revisions, sent, overlaps>> /\ job'[Publisher] = job[Publisher]
      <4>1. UNCHANGED <<row, revisions, sent, overlaps>>
        BY <3>3 DEF Plan
      <4>2. \E g : job' = [job EXCEPT ![e] = g]
        BY <3>3 DEF Plan
      <4> QED BY <4>1, <4>2, <1>a
    <3> QED BY <1>1, <3>1, <3>2, <3>3
  <2> QED BY <2>1, <1>h DEF History, Ordinary, RowInv, PublisherInv, SentInv, Records
<1>2. ASSUME NEW e \in Editors, EditCommit(e) PROVE History'
  <2>1. job'[Publisher] = job[Publisher] /\ UNCHANGED sent
    BY <1>2, <1>a DEF EditCommit
  <2>2. CASE Undisturbed(e)
    <3>1. overlaps' = overlaps
      BY <1>2, <2>2 DEF EditCommit
    <3>2. row.status = "approved" /\ row' = [row EXCEPT !.text = job[e].new, !.current = job[e].result]
      BY <1>2, <2>2 DEF EditCommit, Undisturbed
    <3>3. row'.status = "approved"
      BY <3>2, <1>a DEF Row
    <3>4. ASSUME Ordinary PROVE RowInv' /\ PublisherInv'
      <4>1. RowInv /\ PublisherInv
        BY <3>4, <1>h DEF History
      <4>2. RowInv'
        BY <4>1, <1>2, <2>2, UndisturbedEditIsRecorded
      <4>3. job[Publisher].step \notin Busy
        BY <4>1, <3>2 DEF PublisherInv
      <4>4. PublisherInv'
        BY <4>3, <2>1 DEF PublisherInv, Busy
      <4> QED BY <4>2, <4>4
    <3>5. ASSUME overlaps = {} PROVE SentInv'
      <4>1. PublisherInv
        BY <3>5, <1>h DEF History, Ordinary
      <4>2. job[Publisher].step \notin Busy
        BY <4>1, <3>2 DEF PublisherInv
      <4> QED BY <4>2, <2>1, <3>3 DEF SentInv, Busy
    <3> QED BY <3>1, <3>4, <3>5 DEF History, Ordinary
  <2>3. CASE ~Undisturbed(e)
    <3>1. "edits" \in overlaps'
      BY <1>2, <2>3 DEF EditCommit
    <3> QED BY <3>1 DEF History, Ordinary
  <2> QED BY <2>2, <2>3
<1>3. CASE Select
  <2>1. UNCHANGED <<row, revisions, sent, overlaps>> /\ job'[Publisher].step = "selected"
    <3>1. job' = [job EXCEPT ![Publisher] = [NoJob EXCEPT !.step = "selected", !.text = row.text]]
      BY <1>3 DEF Select
    <3>2. job'[Publisher].step = "selected"
      BY <3>1, <1>a DEF NoJob
    <3> QED BY <3>2, <1>3 DEF Select
  <2> QED BY <2>1, <1>h DEF History, Ordinary, RowInv, PublisherInv, SentInv, Records, Busy
<1>4. CASE Claim
  <2>1. UNCHANGED <<revisions, sent>> /\ job[Publisher].step = "selected"
    BY <1>4 DEF Claim
  <2>2. CASE row.status = "approved"
    <3>1. /\ row' = [row EXCEPT !.status = "posting"]
          /\ job' = [job EXCEPT ![Publisher].step = "claimed"]
          /\ overlaps' = IF row.text = job[Publisher].text THEN overlaps ELSE overlaps \cup {"selection"}
      BY <1>4, <2>2 DEF Claim
    <3>2. /\ row'.status = "posting" /\ row'.text = row.text /\ row'.current = row.current
          /\ job'[Publisher].step = "claimed" /\ job'[Publisher].text = job[Publisher].text
      BY <3>1, <1>a DEF Row, Job
    <3>3. ASSUME Ordinary' PROVE RowInv' /\ PublisherInv'
      <4>1. Ordinary
        BY <3>1, <3>3 DEF Ordinary
      <4>2. RowInv'
        BY <4>1, <1>h, <3>2, <2>1 DEF History, RowInv, Records
      <4> QED BY <4>2, <3>2 DEF PublisherInv
    <3>4. ASSUME overlaps' = {} PROVE SentInv'
      <4>1. row.text = job[Publisher].text
        BY <3>1, <3>4
      <4> QED BY <4>1, <3>2 DEF SentInv, Busy
    <3> QED BY <3>3, <3>4 DEF History
  <2>3. CASE row.status # "approved"
    <3>1. UNCHANGED <<row, overlaps>> /\ job'[Publisher].step = "idle"
      BY <1>4, <2>3, <1>a DEF Claim
    <3> QED BY <2>1, <3>1, <1>h DEF History, Ordinary, RowInv, PublisherInv, SentInv, Records, Busy
  <2> QED BY <2>2, <2>3
<1>5. CASE Send
  <2>1. /\ UNCHANGED <<row, revisions, overlaps>> /\ sent' = job[Publisher].text
        /\ job[Publisher].step = "claimed" /\ job'[Publisher].step = "sent"
    BY <1>5, <1>a DEF Send, Job
  <2>2. ASSUME Ordinary PROVE RowInv' /\ PublisherInv'
    BY <2>1, <2>2, <1>h DEF History, RowInv, PublisherInv, Records, Busy
  <2>3. ASSUME overlaps = {} PROVE SentInv'
    <3>1. PublisherInv /\ SentInv
      BY <2>3, <1>h DEF History, Ordinary
    <3> QED BY <2>1, <3>1 DEF SentInv, PublisherInv, Busy
  <2> QED BY <2>1, <2>2, <2>3 DEF History, Ordinary
<1>6. CASE FinalizeRead
  <2>1. UNCHANGED <<row, revisions, sent, overlaps>> /\ job[Publisher].step = "sent"
    BY <1>6 DEF FinalizeRead
  <2>2. CASE row.current # NoId
    <3>1. job'[Publisher].step = "ready" /\ job'[Publisher].result = row.current
      BY <1>6, <2>2, <1>a DEF FinalizeRead, Job
    <3>2. ASSUME Ordinary PROVE RowInv' /\ PublisherInv'
      BY <2>1, <2>2, <3>1, <3>2, <1>h DEF History, RowInv, PublisherInv, Records, Busy
    <3>3. ASSUME overlaps = {} PROVE SentInv'
      BY <2>1, <3>1, <3>3, <1>h DEF History, SentInv, Busy
    <3> QED BY <2>1, <3>2, <3>3 DEF History, Ordinary
  <2>3. CASE row.current = NoId
    <3>1. job'[Publisher].step = "read" /\ job'[Publisher].text = row.text
      BY <1>6, <2>3, <1>a DEF FinalizeRead, Job
    <3>2. ASSUME Ordinary PROVE RowInv' /\ PublisherInv'
      BY <2>1, <2>3, <3>1, <3>2, <1>h DEF History, RowInv, PublisherInv, Records, Busy
    <3>3. ASSUME overlaps = {} PROVE SentInv'
      BY <2>1, <3>1, <3>3, <1>h DEF History, SentInv, Busy
    <3> QED BY <2>1, <3>2, <3>3 DEF History, Ordinary
  <2> QED BY <2>2, <2>3
<1>7. CASE Trace(Publisher)
  <2>1. /\ UNCHANGED <<row, revisions, sent, overlaps>> /\ job[Publisher].step = "read"
        /\ job'[Publisher].step = "traced" /\ job'[Publisher].text = job[Publisher].text
    BY <1>7, <1>a DEF Trace, Job
  <2> QED BY <2>1, <1>h DEF History, Ordinary, RowInv, PublisherInv, SentInv, Records, Busy
<1>8. CASE EnsurePlan
  <2>1. UNCHANGED <<row, revisions, sent, overlaps>> /\ job[Publisher].step = "traced"
    BY <1>8 DEF EnsurePlan, Plan
  <2>2. \E R, id : job' = [job EXCEPT ![Publisher].step = "planned", ![Publisher].new = job[Publisher].text,
                                      ![Publisher].rows = R, ![Publisher].result = id]
    BY <1>8 DEF EnsurePlan, Plan
  <2>3. /\ job'[Publisher].step = "planned" /\ job'[Publisher].text = job[Publisher].text
        /\ job'[Publisher].new = job[Publisher].text
    BY <2>2, <1>a DEF Job
  <2> QED BY <2>1, <2>3, <1>h DEF History, Ordinary, RowInv, PublisherInv, SentInv, Records, Busy
<1>9. CASE EnsureCommit
  <2>1. /\ UNCHANGED <<sent, overlaps>> /\ job[Publisher].step = "planned"
        /\ job'[Publisher].step = "ready"
    BY <1>9, <1>a DEF EnsureCommit, Job
  <2>2. row'.text = row.text /\ row'.status = row.status
    BY <1>9, <1>a DEF EnsureCommit, Row
  <2>3. ASSUME Ordinary PROVE RowInv' /\ PublisherInv'
    BY <2>3, <1>9, <1>h, EnsuredIsRecorded DEF History
  <2>4. ASSUME overlaps = {} PROVE SentInv'
    BY <2>1, <2>2, <2>4, <1>h DEF History, SentInv, Busy
  <2> QED BY <2>1, <2>3, <2>4 DEF History, Ordinary
<1>10. CASE Finalize
  <2>1. /\ UNCHANGED <<revisions, sent, overlaps>> /\ job[Publisher].step = "ready"
        /\ job'[Publisher].step = "idle"
        /\ row' = [row EXCEPT !.status = "posted", !.published = job[Publisher].result]
    BY <1>10, <1>a DEF Finalize
  <2>2. /\ row'.status = "posted" /\ row'.text = row.text /\ row'.current = row.current
        /\ row'.published = job[Publisher].result
    BY <2>1, <1>a DEF Row
  <2>3. ASSUME Ordinary PROVE RowInv' /\ PublisherInv'
    BY <2>1, <2>2, <2>3, <1>h DEF History, RowInv, PublisherInv, Records, Busy
  <2>4. ASSUME overlaps = {} PROVE SentInv'
    BY <2>1, <2>2, <2>4, <1>h DEF History, SentInv, Busy
  <2> QED BY <2>1, <2>3, <2>4 DEF History, Ordinary
<1>11. CASE Recover
  <2>1. /\ UNCHANGED <<revisions, job, sent>> /\ row' = [row EXCEPT !.status = "approved"]
        /\ overlaps' = IF job[Publisher].step = "idle" THEN overlaps ELSE overlaps \cup {"recovery"}
    BY <1>11 DEF Recover
  <2>2. row'.status = "approved" /\ row'.text = row.text /\ row'.current = row.current
    BY <2>1, <1>a DEF Row
  <2>3. CASE job[Publisher].step = "idle"
    BY <2>1, <2>2, <2>3, <1>h DEF History, Ordinary, RowInv, PublisherInv, SentInv, Records, Busy
  <2>4. CASE job[Publisher].step # "idle"
    <3>1. "recovery" \in overlaps'
      BY <2>1, <2>4
    <3> QED BY <3>1 DEF History, Ordinary
  <2> QED BY <2>3, <2>4
<1>12. ASSUME NEW j \in Jobs, Crash(j) PROVE History'
  <2>1. UNCHANGED <<row, revisions, sent, overlaps>> /\ (job'[Publisher] = job[Publisher] \/ job'[Publisher].step = "idle")
    BY <1>12, <1>a DEF Crash
  <2> QED BY <2>1, <1>h DEF History, Ordinary, RowInv, PublisherInv, SentInv, Records, Busy
<1> QED
  BY <1>1, <1>2, <1>3, <1>4, <1>5, <1>6, <1>7, <1>8, <1>9, <1>10, <1>11, <1>12 DEF Next

-----------------------------------------------------------------------------
(***************************************************************************)
(* The theorems.                                                           *)
(***************************************************************************)
\* The inductive invariant: rows, histories and the plans under way.
THEOREM HistoryIsKept == Spec => []Inv
<1>1. Init => Inv
  BY InvInit
<1>2. ASSUME Inv, [Next]_vars PROVE Inv'
  <2>1. CASE Next
    BY <1>2, <2>1, StepKeepsJobs, StepKeepsHistory DEF Inv
  <2>2. CASE UNCHANGED vars
    BY <1>2, <2>2 DEF vars, Inv, TypeOK, JobsInv, JobShape, JobPlan, IdsInv, Ordered, Apart,
       History, Ordinary, RowInv, PublisherInv, SentInv, Records
  <2> QED BY <1>2, <2>1, <2>2
<1> QED BY <1>1, <1>2, PTL DEF Spec

\* Types, and the uniqueness of a post's revision numbers.
THEOREM RevisionsAreTyped == Spec => []TypeOK
<1>1. Inv => TypeOK
  BY DEF Inv
<1> QED BY <1>1, HistoryIsKept, PTL

\* What current_revision_id points at, as updateScheduledPostForAppUser leaves it.
THEOREM CurrentStaysRecorded == Spec => []CurrentIsRecorded
<1>1. Inv => CurrentIsRecorded
  BY DEF Inv, History, Ordinary, RowInv, CurrentIsRecorded
<1> QED BY <1>1, HistoryIsKept, PTL

\* A recorded id is that of one revision.
LEMMA RecordedIsChosen ==
  ASSUME Inv, NEW id, NEW text, Records(id, text)
  PROVE  /\ \E r \in revisions : r.id = id
         /\ (CHOOSE r \in revisions : r.id = id).text = text
<1>1. PICK r \in revisions : r.id = id /\ r.text = text
  BY DEF Records
<1>2. \A q \in revisions : q.id = id => q = r
  BY <1>1 DEF Inv, IdsInv, Ordered
<1>3. (CHOOSE q \in revisions : q.id = id) = r
  BY <1>1, <1>2
<1> QED BY <1>1, <1>3

LEMMA PostedIsCredited ==
  ASSUME Inv, row.status = "posted", overlaps = {}
  PROVE  Records(row.published, sent) /\ CreditedText = sent
<1>1. RowInv /\ SentInv
  BY DEF Inv, History, Ordinary
<1>2. Records(row.published, sent)
  BY <1>1 DEF RowInv, SentInv
<1>3. CreditedText = sent
  BY <1>2, RecordedIsChosen DEF CreditedText
<1> QED BY <1>2, <1>3

\* The text finalizeScheduledPostPublished credits is the one that was published.
THEOREM CreditedWasSent == Spec => []CreditedIsSentOutsideWindows
<1>1. Inv => CreditedIsSentOutsideWindows
  BY PostedIsCredited DEF CreditedIsSentOutsideWindows
<1> QED BY <1>1, HistoryIsKept, PTL

\* No refused edit changes what a posted row is credited with.
THEOREM CreditIsFinal == Spec => CreditStands
<1>1. ASSUME Inv, Inv', Next, row.status = "posted", overlaps = {}
      PROVE  CreditedText' = CreditedText
  <2>1. Records(row.published, sent) /\ CreditedText = sent
    BY <1>1, PostedIsCredited
  <2>2. job[Publisher].step \notin Busy
    BY <1>1 DEF Inv, History, Ordinary, PublisherInv
  <2>3. row' = row /\ revisions \subseteq revisions'
    <3>1. ASSUME NEW e \in Editors, EditRead(e) \/ Trace(e) \/ \E new \in Texts, noted \in BOOLEAN : Plan(e, new, noted)
          PROVE  row' = row /\ revisions' = revisions
      BY <3>1 DEF EditRead, Trace, Plan
    <3>2. ASSUME NEW e \in Editors, EditCommit(e)
          PROVE  row' = row /\ revisions \subseteq revisions'
      BY <1>1, <3>2 DEF EditCommit, Stored
    <3>3. \/ ~Claim /\ ~Send /\ ~FinalizeRead /\ ~EnsureCommit /\ ~Finalize /\ ~Recover
             /\ ~Trace(Publisher) /\ ~EnsurePlan
          \/ row' = row /\ revisions' = revisions
      <4>1. ~Send /\ ~EnsureCommit /\ ~Finalize /\ ~FinalizeRead
        BY <2>2 DEF Busy, Send, EnsureCommit, Finalize, FinalizeRead
      <4>2. ~Trace(Publisher) /\ ~EnsurePlan
        BY <2>2 DEF Busy, Trace, EnsurePlan, Plan
      <4>3. ~Recover
        BY <1>1 DEF Recover
      <4>4. Claim => row' = row /\ revisions' = revisions
        BY <1>1 DEF Claim
      <4> QED BY <4>1, <4>2, <4>3, <4>4
    <3>4. Select \/ (\E j \in Jobs : Crash(j)) => row' = row /\ revisions' = revisions
      BY DEF Select, Crash
    <3> QED BY <1>1, <3>1, <3>2, <3>3, <3>4 DEF Next
  <2>5. \E r \in revisions' : r.id = row'.published /\ r.text = sent
    BY <2>1, <2>3 DEF Records
  <2>6. PICK r \in revisions' : r.id = row'.published /\ r.text = sent
    BY <2>5
  <2>7. \A q \in revisions' : q.id = row'.published => q = r
    BY <1>1, <2>6 DEF Inv, IdsInv, Ordered
  <2>8. (CHOOSE q \in revisions' : q.id = row'.published) = r
    BY <2>6, <2>7
  <2>9. CreditedText' = sent
    BY <2>6, <2>8 DEF CreditedText
  <2> QED BY <2>1, <2>9
<1>2. ASSUME UNCHANGED vars PROVE CreditedText' = CreditedText
  BY <1>2 DEF vars, CreditedText
<1>3. Inv /\ Inv' /\ [Next]_vars => (row.status = "posted" /\ overlaps = {} => CreditedText' = CreditedText)
  BY <1>1, <1>2
<1> QED BY <1>3, HistoryIsKept, PTL DEF Spec, CreditStands
=============================================================================
