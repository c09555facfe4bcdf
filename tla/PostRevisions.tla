---------------------------- MODULE PostRevisions ----------------------------
(***************************************************************************)
(* The text of one scheduled post and the history of its revisions         *)
(* (lensically-worker/src/operatorOwnerEditLearningService.ts and the      *)
(* edit, publication and finalization of index.ts).  An edit reads the row *)
(* and the history, then writes both in one batch; a publication sends the *)
(* text that its selection read and credits it to the row's revision.      *)
(*                                                                         *)
(* A step is one statement or one DB.batch; anything may run in between.   *)
(* Attempts that overlap each other are the subject of ScheduledDelivery:  *)
(* here one publisher works at a time.                                     *)
(***************************************************************************)
EXTENDS Naturals, Sequences

CONSTANTS
  Texts,     \* post texts
  Editors,   \* calls of updateScheduledPostForAppUser
  Publisher, \* the execution of processScheduledPost
  MaxIds     \* bound on the revision ids generated

NoText == "no text"
NoId == 0

ASSUME TextsAssumption == NoText \notin Texts
ASSUME EditorsAssumption == Publisher \notin Editors
ASSUME MaxIdsAssumption == MaxIds \in Nat

Jobs == Editors \cup {Publisher}

VARIABLES
  row,        \* the row of scheduled_posts
  revisions,  \* the rows of operator_scheduled_post_revisions
  draft,      \* text of the linked gpt_generation_drafts row
  lineup,     \* text of the operator_autonomous_lineup_items row
  issued,     \* revision ids generated so far: crypto.randomUUID()
  job,        \* [Jobs -> Job]
  sent,       \* the text that Threads published last
  overlaps    \* which windows were hit, see OverlapKinds

vars == <<row, revisions, draft, lineup, issued, job, sent, overlaps>>

Statuses == {"approved", "posting", "posted"}
MaybeText == Texts \cup {NoText}

\* current and published are current_revision_id and published_revision_id.
Row == [status : Statuses, text : Texts, current : Nat, published : Nat]
Revision == [id : Nat, number : Nat, text : Texts]

\* What an edit or a publication has read and planned: the row's text and
\* revision (for a publication before "read": the text of the selection), the
\* original model text, the revisions to insert, the revision that results.
Job == [step : {"idle", "selected", "claimed", "sent", "read", "traced", "planned", "ready"},
        text : MaybeText, current : Nat, origin : MaybeText,
        new : MaybeText, rows : SUBSET Revision, result : Nat]
NoJob == [step |-> "idle", text |-> NoText, current |-> NoId, origin |-> NoText,
          new |-> NoText, rows |-> {}, result |-> NoId]

\* "edits": an edit's batch met a row or a history that had changed since it read
\* them; "selection": the claimed row's text is not the selected one; "recovery":
\* the row was approved again while its attempt was still running.
OverlapKinds == {"edits", "selection", "recovery"}

\* UNIQUE(scheduled_post_id, revision_number)
TypeOK ==
  /\ row \in Row
  /\ revisions \subseteq Revision
  /\ \A q, r \in revisions : q.number = r.number => q = r
  /\ draft \in MaybeText
  /\ lineup \in MaybeText
  /\ issued \in Nat
  /\ job \in [Jobs -> Job]
  /\ sent \in MaybeText
  /\ overlaps \subseteq OverlapKinds

\* A row that no revision describes yet.  Its text may be another than that of
\* its lineup item: an owner edited it before revisions were recorded.
Init ==
  /\ row \in [status : {"approved"}, text : Texts, current : {NoId}, published : {NoId}]
  /\ revisions = {}
  /\ draft \in {row.text, NoText}
  /\ lineup \in MaybeText
  /\ issued = 0
  /\ job = [j \in Jobs |-> NoJob]
  /\ sent = NoText
  /\ overlaps = {}

-----------------------------------------------------------------------------
(***************************************************************************)
(* prepareScheduledPostRevisionPlan                                        *)
(***************************************************************************)
\* The revisions a plan adds to a post in which an edit read the text `seen`:
\* the baseline and, if an owner had changed it, the text it really had, when
\* there is no history; the new text if it is one or comes with a note.
\* Broken: an owner's earlier change is not recovered.
PlanTextsBaselineOnly(fresh, seen, origin, new, noted) ==
  (IF fresh THEN <<IF origin = NoText THEN seen ELSE origin>> ELSE <<>>)
  \o (IF new # seen \/ noted THEN <<new>> ELSE <<>>)
PlanTexts(fresh, seen, origin, new, noted) ==
  LET baseline == IF origin = NoText THEN seen ELSE origin IN
  (IF ~fresh THEN <<>> ELSE IF baseline = seen THEN <<seen>> ELSE <<baseline, seen>>)
  \o (IF new # seen \/ noted THEN <<new>> ELSE <<>>)

\* SELECT ... ORDER BY revision_number DESC LIMIT 1
IsLatest(r) == r \in revisions /\ \A q \in revisions : q.number <= r.number
LatestNumber == IF revisions = {} THEN 0 ELSE (CHOOSE r \in revisions : IsLatest(r)).number
LatestId == IF revisions = {} THEN NoId ELSE (CHOOSE r \in revisions : IsLatest(r)).id

\* The query of the original model text: the lineup item's, else the draft's.
Trace(j) ==
  /\ job[j].step = "read"
  /\ job' = [job EXCEPT ![j].step = "traced", ![j].origin = IF lineup # NoText THEN lineup ELSE draft]
  /\ UNCHANGED <<row, revisions, draft, lineup, issued, sent, overlaps>>

\* The query of the latest revision, and the plan.
Plan(j, new, noted) ==
  LET seen  == job[j].text
      known == IF job[j].current # NoId THEN job[j].current ELSE LatestId
      texts == PlanTexts(known = NoId, seen, job[j].origin, new, noted)
      rows  == {[id |-> issued + k, number |-> LatestNumber + k, text |-> texts[k]] : k \in 1..Len(texts)}
  IN
  /\ job[j].step = "traced"
  /\ issued + Len(texts) <= MaxIds
  /\ issued' = issued + Len(texts)
  /\ job' = [job EXCEPT ![j].step = "planned", ![j].new = new, ![j].rows = rows,
                        ![j].result = IF texts = <<>> THEN known ELSE issued + Len(texts)]
  /\ UNCHANGED <<row, revisions, draft, lineup, sent, overlaps>>

\* revisionInsertStatement: only while the post is approved or posting (as it is
\* after the batch's earlier statements), and OR IGNORE of a number that is taken.
\* Broken: without the unique number.
StoredAnyNumber(rows, status) ==
  revisions \cup {r \in rows : status \in {"approved", "posting"}}
Stored(rows, status) ==
  revisions \cup {r \in rows : /\ status \in {"approved", "posting"}
                               /\ \A q \in revisions : q.number # r.number}

-----------------------------------------------------------------------------
(***************************************************************************)
(* updateScheduledPostForAppUser                                           *)
(***************************************************************************)
EditRead(e) ==
  /\ job[e].step = "idle"
  /\ row.status = "approved"
  /\ job' = [job EXCEPT ![e] = [NoJob EXCEPT !.step = "read", !.text = row.text, !.current = row.current]]
  /\ UNCHANGED <<row, revisions, draft, lineup, issued, sent, overlaps>>

\* Nothing that the edit read and planned from has changed.
Undisturbed(e) ==
  /\ row.status = "approved"
  /\ row.text = job[e].text
  /\ row.current = job[e].current
  /\ \A r \in job[e].rows, q \in revisions : q.number # r.number

\* The batch.  The row is written only if it is still approved (or the caller is
\* told 409), the revisions also while it is posting, the draft whatever it is.
EditCommit(e) ==
  /\ job[e].step = "planned"
  /\ row' = IF row.status = "approved"
            THEN [row EXCEPT !.text = job[e].new, !.current = job[e].result] ELSE row
  /\ revisions' = Stored(job[e].rows, row.status)
  /\ draft' = IF draft = NoText THEN NoText ELSE job[e].new
  /\ overlaps' = IF Undisturbed(e) THEN overlaps ELSE overlaps \cup {"edits"}
  /\ job' = [job EXCEPT ![e] = NoJob]
  /\ UNCHANGED <<lineup, issued, sent>>

-----------------------------------------------------------------------------
(***************************************************************************)
(* getDueApprovedScheduledPosts, processScheduledPost                      *)
(***************************************************************************)
Select ==
  /\ job[Publisher].step = "idle"
  /\ row.status = "approved"
  /\ job' = [job EXCEPT ![Publisher] = [NoJob EXCEPT !.step = "selected", !.text = row.text]]
  /\ UNCHANGED <<row, revisions, draft, lineup, issued, sent, overlaps>>

Claim ==
  /\ job[Publisher].step = "selected"
  /\ IF row.status = "approved"
     THEN /\ row' = [row EXCEPT !.status = "posting"]
          /\ job' = [job EXCEPT ![Publisher].step = "claimed"]
          /\ overlaps' = IF row.text = job[Publisher].text THEN overlaps
                         ELSE overlaps \cup {"selection"}
     ELSE /\ job' = [job EXCEPT ![Publisher] = NoJob]
          /\ UNCHANGED <<row, overlaps>>
  /\ UNCHANGED <<revisions, draft, lineup, issued, sent>>

\* Broken: the call takes the text that the draft has by now.
SendDraft ==
  /\ job[Publisher].step = "claimed"
  /\ sent' = draft
  /\ job' = [job EXCEPT ![Publisher].step = "sent"]
  /\ UNCHANGED <<row, revisions, draft, lineup, issued, overlaps>>
\* Threads publishes the text of the selection; a refusal is a crash to this module.
Send ==
  /\ job[Publisher].step = "claimed"
  /\ sent' = job[Publisher].text
  /\ job' = [job EXCEPT ![Publisher].step = "sent"]
  /\ UNCHANGED <<row, revisions, draft, lineup, issued, overlaps>>

(***************************************************************************)
(* finalizeScheduledPostPublished, ensureScheduledPostCurrentRevision      *)
(***************************************************************************)
\* Broken: a row without a revision is finalized as it is.
FinalizeReadOnly ==
  /\ job[Publisher].step = "sent"
  /\ job' = [job EXCEPT ![Publisher].step = "ready", ![Publisher].result = row.current]
  /\ UNCHANGED <<row, revisions, draft, lineup, issued, sent, overlaps>>
FinalizeRead ==
  /\ job[Publisher].step = "sent"
  /\ job' = IF row.current # NoId
            THEN [job EXCEPT ![Publisher].step = "ready", ![Publisher].result = row.current]
            ELSE [job EXCEPT ![Publisher].step = "read", ![Publisher].text = row.text]
  /\ UNCHANGED <<row, revisions, draft, lineup, issued, sent, overlaps>>

\* Both queries and the plan are those of an edit that changes nothing.
EnsurePlan == Plan(Publisher, job[Publisher].text, FALSE)

\* The batch that stores the planned revisions, if any, and the row's revision.
EnsureCommit ==
  /\ job[Publisher].step = "planned"
  /\ job' = [job EXCEPT ![Publisher].step = "ready", ![Publisher].rows = {}]
  /\ revisions' = Stored(job[Publisher].rows, row.status)
  /\ row' = IF job[Publisher].rows = {} THEN row ELSE [row EXCEPT !.current = job[Publisher].result]
  /\ UNCHANGED <<draft, lineup, issued, sent, overlaps>>

\* The batch that marks row, revision and draft as published, by id alone.
Finalize ==
  /\ job[Publisher].step = "ready"
  /\ row' = [row EXCEPT !.status = "posted", !.published = job[Publisher].result]
  /\ job' = [job EXCEPT ![Publisher] = NoJob]
  /\ UNCHANGED <<revisions, draft, lineup, issued, sent, overlaps>>

-----------------------------------------------------------------------------
\* recoverOverdueScheduledPostRows: a row left in posting is approved again.
Recover ==
  /\ row.status = "posting"
  /\ row' = [row EXCEPT !.status = "approved"]
  /\ overlaps' = IF job[Publisher].step = "idle" THEN overlaps ELSE overlaps \cup {"recovery"}
  /\ UNCHANGED <<revisions, draft, lineup, issued, job, sent>>

\* Eviction; also an edit refused for its arguments and a call Threads refuses.
Crash(j) ==
  /\ job[j].step # "idle"
  /\ job' = [job EXCEPT ![j] = NoJob]
  /\ UNCHANGED <<row, revisions, draft, lineup, issued, sent, overlaps>>

Next ==
  \/ \E e \in Editors :
       \/ EditRead(e)
       \/ Trace(e)
       \/ \E new \in Texts, noted \in BOOLEAN : Plan(e, new, noted)
       \/ EditCommit(e)
  \/ Select
  \/ Claim
  \/ Send
  \/ FinalizeRead
  \/ Trace(Publisher)
  \/ EnsurePlan
  \/ EnsureCommit
  \/ Finalize
  \/ Recover
  \/ \E j \in Jobs : Crash(j)

Spec == Init /\ [][Next]_vars

-----------------------------------------------------------------------------
(***************************************************************************)
(* Properties.                                                             *)
(***************************************************************************)
Records(id, text) == \E r \in revisions : r.id = id /\ r.text = text

\* The text that the performance of the post is attributed to: that of its
\* published revision, else that of its draft (exact_published_text).
CreditedText ==
  IF \E r \in revisions : r.id = row.published
  THEN (CHOOSE r \in revisions : r.id = row.published).text
  ELSE draft

\* The revision a row points at exists and has the row's text, through every
\* sequence of edits, refused edits, publications and recoveries, as long as no
\* edit wrote over something that it had not read and no attempt outlived a
\* recovery of its row.
CurrentIsRecorded ==
  overlaps \cap {"edits", "recovery"} = {} => row.current = NoId \/ Records(row.current, row.text)

\* What is credited with the performance of a posted row is the text that Threads
\* published, unless one of the three windows was hit.
CreditedIsSentOutsideWindows ==
  row.status = "posted" /\ overlaps = {} => CreditedText = sent

\* A posted row keeps the text it is credited with: an edit that was under way
\* when the row was published and is then refused does not change it.
CreditStands ==
  [][row.status = "posted" /\ overlaps = {} => CreditedText' = CreditedText]_vars

\* "The exact published revision remains the only text credited with the
\* resulting performance" (the rule given to the operator with every source card).
CreditedIsSent == row.status = "posted" => CreditedText = sent
=============================================================================
