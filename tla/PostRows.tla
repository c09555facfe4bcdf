------------------------------- MODULE PostRows -------------------------------
(***************************************************************************)
(* The rows of scheduled_posts as the scheduler and the delivery share     *)
(* them, without clocks, statements, errors and executions: what may       *)
(* become of a row, and who may post it.  An execution that claims a row   *)
(* holds it; only what is held is ever posted, and holding ends with the   *)
(* attempt or with the execution.                                          *)
(***************************************************************************)
CONSTANT Posts

VARIABLES
  row,    \* [Posts -> RowStatus]
  held    \* the posts that some execution has claimed and not let go of

rowsVars == <<row, held>>

\* Approved rows are "future", "due" or, cancelled by a recovery, "retired"; a
\* cancelled row in status posting is "withdrawn"; a deleted row is "gone".
\* A row not yet created is a future one.
RowStatus == {"future", "due", "retired", "posting", "withdrawn", "posted", "gone"}
Claimable == {"future", "due", "retired"}

Init ==
  /\ row \in [Posts -> {"future", "due"}]
  /\ held = {}

Becomes(S, status) == row' = [p \in Posts |-> IF p \in S THEN status ELSE row[p]]

\* Time passes, or the owner moves a row to now; or moves one to later.
ComeDue(S) ==
  /\ \A p \in S : row[p] = "future"
  /\ Becomes(S, "due")
  /\ held' = held

Reschedule(p) ==
  /\ row[p] = "due"
  /\ Becomes({p}, "future")
  /\ held' = held

\* Only what nobody has claimed is deleted.
Remove(S) ==
  /\ \A p \in S : row[p] \in Claimable
  /\ Becomes(S, "gone")
  /\ held' = held

\* Overdue rows, and attempts of unknown outcome, are retired or, those of R,
\* rescheduled; whoever holds such a row goes on holding it.
Recover(S, R) ==
  /\ \A p \in S : row[p] \in {"due", "posting"}
  /\ row' = [p \in Posts |->
       IF p \in S \cap R THEN "future"
       ELSE IF p \in S THEN (IF row[p] = "due" THEN "retired" ELSE "withdrawn")
       ELSE row[p]]
  /\ held' = held

Claim(p) ==
  /\ row[p] \in Claimable
  /\ Becomes({p}, IF row[p] = "retired" THEN "withdrawn" ELSE "posting")
  /\ held' = held \cup {p}

\* A holder records its publication, whatever became of the row but its end.
Settle(p) ==
  /\ p \in held
  /\ row[p] # "gone"
  /\ Becomes({p}, "posted")
  /\ held' \in {held, held \ {p}}

\* Attempts fail, and executions end: their rows stay as they are.
LetGo ==
  /\ held' \in SUBSET held
  /\ row' = row

Next ==
  \/ \E S \in SUBSET Posts : ComeDue(S) \/ Remove(S)
  \/ \E S, R \in SUBSET Posts : Recover(S, R)
  \/ \E p \in Posts : Reschedule(p) \/ Claim(p) \/ Settle(p)
  \/ LetGo

Spec == Init /\ [][Next]_rowsVars

-----------------------------------------------------------------------------
\* What a recovery retired stays out of the queue, whatever edits, attempts and
\* recoveries follow; so does what was posted or deleted.
OutOfQueue == {"retired", "withdrawn", "posted", "gone"}
NeverBack == [][\A p \in Posts : row[p] \in OutOfQueue => row'[p] \in OutOfQueue]_rowsVars

\* A row turns to posted only in the hands of whoever claimed it.
PostedByHolder ==
  [][\A p \in Posts : row[p] # "posted" /\ row'[p] = "posted" => p \in held]_rowsVars
=============================================================================
