-------------------------- MODULE OperationReceipts --------------------------
(***************************************************************************)
(* The idempotency receipt of one state-changing operator operation:       *)
(* beginOperatorOperationReceipt, completeOperatorOperationReceipt and     *)
(* failOperatorOperationReceipt of lensically-worker/src/index.ts, as      *)
(* dispatchOperatorMcpToolCall (operatorMcpToolCallDispatcher.ts) uses     *)
(* them.  Several calls name the same operation: repetitions after an      *)
(* interruption, duplicates, or calls with other arguments.  Each step is  *)
(* one statement on the database, the tool's effect, or a decision taken   *)
(* right after a read.                                                     *)
(***************************************************************************)
EXTENDS Naturals, FiniteSets

CONSTANTS
  Calls,   \* tool calls that resolve to the same idempotency key
  Prints   \* request fingerprints: hashes of the calls' arguments

VARIABLES
  receipt,  \* the operator_operation_receipts row of the key
  pc,       \* [Calls -> Step]
  print,    \* [Calls -> Prints]: the fingerprint of the call
  wanted,   \* [Calls -> Status]: status a reclaiming call has read
  touched,  \* [Calls -> BOOLEAN]: updated_at differs from what the call read
  created,  \* [Calls -> BOOLEAN]: the call inserted or reclaimed the receipt
  waited,   \* [Calls -> BOOLEAN]: the call has waited for another one
  effects,  \* calls that had the operation's effect
  settled,  \* history: the receipt has been completed
  failed    \* history: the receipt has been failed

callVars == <<pc, print, wanted, touched, created, waited>>
historyVars == <<effects, settled, failed>>
vars == <<receipt, callVars, historyVars>>

Status == {"absent", "started", "completed", "failed"}

\* createdLong, updatedLong: more than the lease ago.
Receipt == [status : Status, print : Prints, createdLong : BOOLEAN, updatedLong : BOOLEAN]

\* A call that is "executing" may run the tool; one that "acted" has its result.
Step == {"idle", "begin", "insert", "reclaim", "look", "waiting", "executing", "acted",
         "throwing", "replayed", "mismatch", "busy", "answered", "thrown", "dead"}
Ended == {"replayed", "mismatch", "busy", "answered", "thrown", "dead"}

TypeOK ==
  /\ receipt \in Receipt
  /\ pc \in [Calls -> Step]
  /\ print \in [Calls -> Prints]
  /\ wanted \in [Calls -> Status]
  /\ touched \in [Calls -> BOOLEAN]
  /\ created \in [Calls -> BOOLEAN]
  /\ waited \in [Calls -> BOOLEAN]
  /\ effects \subseteq Calls
  /\ settled \in BOOLEAN
  /\ failed \in BOOLEAN

Init ==
  /\ receipt \in [status : {"absent"}, print : Prints,
                  createdLong : {FALSE}, updatedLong : {FALSE}]
  /\ pc = [c \in Calls |-> "idle"]
  /\ print \in [Calls -> Prints]
  /\ wanted = [c \in Calls |-> "absent"]
  /\ touched = [c \in Calls |-> FALSE]
  /\ created = [c \in Calls |-> FALSE]
  /\ waited = [c \in Calls |-> FALSE]
  /\ effects = {}
  /\ settled = FALSE
  /\ failed = FALSE

Exists == receipt.status # "absent"
Executing == {c \in Calls : pc[c] \in {"executing", "acted", "throwing"}}
Goto(c, step) == pc' = [pc EXCEPT ![c] = step]

\* A write moves updated_at, which counts seconds: a call that read a receipt
\* written in the same second does not see the difference.  A receipt past its
\* lease was not.
Touch ==
  touched' \in {t \in [Calls -> BOOLEAN] :
                  \A c \in Calls : (touched[c] => t[c]) /\ (wanted[c] = "started" => t[c])}

-----------------------------------------------------------------------------
(***************************************************************************)
(* beginOperatorOperationReceipt.                                          *)
(***************************************************************************)
Call(c) ==
  /\ pc[c] = "idle"
  /\ Goto(c, "begin")
  /\ UNCHANGED <<receipt, print, wanted, touched, created, waited, historyVars>>

\* A failed receipt, or one started longer than the lease ago, may be reclaimed
\* by a call with the same arguments.
Reclaimable(c) ==
  /\ receipt.print = print[c]
  /\ receipt.status = "failed" \/ (receipt.status = "started" /\ receipt.updatedLong)

Begin(c) ==
  /\ pc[c] = "begin"
  /\ IF ~Exists THEN Goto(c, "insert")
     ELSE IF Reclaimable(c) THEN Goto(c, "reclaim") ELSE Goto(c, "look")
  /\ wanted' = [wanted EXCEPT ![c] = receipt.status]
  /\ touched' = [touched EXCEPT ![c] = FALSE]
  /\ created' = [created EXCEPT ![c] = FALSE]
  /\ UNCHANGED <<receipt, print, waited, historyVars>>

\* Broken: a receipt that is already there is replaced.
InsertOrReplace(c) ==
  /\ pc[c] = "insert"
  /\ receipt' = [status |-> "started", print |-> print[c],
                 createdLong |-> FALSE, updatedLong |-> FALSE]
  /\ created' = [created EXCEPT ![c] = TRUE]
  /\ Touch
  /\ Goto(c, "look")
  /\ UNCHANGED <<print, wanted, waited, historyVars>>
\* INSERT OR IGNORE ... RETURNING
Insert(c) ==
  /\ pc[c] = "insert"
  /\ \/ /\ ~Exists
        /\ receipt' = [status |-> "started", print |-> print[c],
                       createdLong |-> FALSE, updatedLong |-> FALSE]
        /\ created' = [created EXCEPT ![c] = TRUE]
        /\ Touch
     \/ /\ Exists
        /\ UNCHANGED <<receipt, created, touched>>
  /\ Goto(c, "look")
  /\ UNCHANGED <<print, wanted, waited, historyVars>>

\* Broken: the update looks at the key alone.
AnyReceipt(c) == TRUE
Unchanged(c) == receipt.status = wanted[c] /\ ~touched[c]

\* UPDATE ... WHERE status = ? AND updated_at = ?
Reclaim(c) ==
  /\ pc[c] = "reclaim"
  /\ \/ /\ Unchanged(c)
        /\ receipt' = [receipt EXCEPT !.status = "started", !.updatedLong = FALSE]
        /\ created' = [created EXCEPT ![c] = TRUE]
        /\ Touch
     \/ /\ ~Unchanged(c)
        /\ UNCHANGED <<receipt, created, touched>>
  /\ Goto(c, "look")
  /\ UNCHANGED <<print, wanted, waited, historyVars>>

(***************************************************************************)
(* The dispatcher reads the receipt again and decides.  What is left goes  *)
(* on to execute the tool: the calls that created the receipt, and those   *)
(* that find it started by another call whose creation is past the lease,  *)
(* or failed.                                                              *)
(***************************************************************************)
Young == receipt.status = "started" /\ ~receipt.createdLong

\* Broken: the arguments are not compared.
DecideAnyPrint(c) ==
  IF receipt.status = "completed" THEN "replayed"
  ELSE IF ~waited[c] /\ ~created[c] /\ Young THEN "waiting"
  ELSE IF waited[c] /\ Young THEN "busy"
  ELSE "executing"
Decide(c) ==
  IF receipt.status = "completed" THEN "replayed"
  ELSE IF ~waited[c] /\ ~created[c] /\ receipt.print # print[c] THEN "mismatch"
  ELSE IF ~waited[c] /\ ~created[c] /\ Young THEN "waiting"
  ELSE IF waited[c] /\ Young THEN "busy"
  ELSE "executing"

Look(c) ==
  /\ pc[c] = "look"
  /\ Goto(c, Decide(c))
  /\ UNCHANGED <<receipt, print, wanted, touched, created, waited, historyVars>>

\* The wait is bounded; the receipt is then begun once more.
Wait(c) ==
  /\ pc[c] = "waiting"
  /\ waited' = [waited EXCEPT ![c] = TRUE]
  /\ Goto(c, "begin")
  /\ UNCHANGED <<receipt, print, wanted, touched, created, historyVars>>

-----------------------------------------------------------------------------
(***************************************************************************)
(* Execution.  The tool has its effect or answers with an error; it, or    *)
(* the authorization before it, may also throw, before or after the        *)
(* effect.  Completion and failure are written by key alone.               *)
(***************************************************************************)
Act(c) ==
  /\ pc[c] = "executing"
  /\ effects' \in {effects, effects \cup {c}}
  /\ Goto(c, "acted") \/ Goto(c, "throwing")
  /\ UNCHANGED <<receipt, print, wanted, touched, created, waited, settled, failed>>

Complete(c) ==
  /\ pc[c] = "acted"
  /\ receipt' = [receipt EXCEPT !.status = "completed", !.updatedLong = FALSE]
  /\ settled' = TRUE
  /\ Touch
  /\ Goto(c, "answered")
  /\ UNCHANGED <<print, wanted, created, waited, effects, failed>>

FailReceipt(c) ==
  /\ pc[c] = "throwing"
  /\ receipt' = [receipt EXCEPT !.status = "failed", !.updatedLong = FALSE]
  /\ failed' = TRUE
  /\ Touch
  /\ Goto(c, "thrown")
  /\ UNCHANGED <<print, wanted, created, waited, effects, settled>>

\* The isolate is evicted, or an exception passes the receipt by.
Crash(c) ==
  /\ pc[c] \notin Ended \cup {"idle"}
  /\ Goto(c, "dead")
  /\ UNCHANGED <<receipt, print, wanted, touched, created, waited, historyVars>>

\* The lease runs out, counted from the creation and from the last update.
Lapse ==
  /\ Exists
  /\ receipt' \in {[receipt EXCEPT !.createdLong = TRUE],
                   [receipt EXCEPT !.createdLong = TRUE, !.updatedLong = TRUE]}
  /\ UNCHANGED <<callVars, historyVars>>

Next ==
  \/ \E c \in Calls :
       \/ Call(c) \/ Begin(c) \/ Insert(c) \/ Reclaim(c) \/ Look(c) \/ Wait(c)
       \/ Act(c) \/ Complete(c) \/ FailReceipt(c) \/ Crash(c)
  \/ Lapse

Spec == Init /\ [][Next]_vars

-----------------------------------------------------------------------------
\* Until the lease of the first attempt runs out, and as long as no attempt has
\* failed, one call at most executes, and the operation has one effect at most,
\* however many calls repeat it.
ExclusiveWithinLease ==
  ~receipt.createdLong /\ ~failed => Cardinality(effects \cup Executing) <= 1

\* A completed receipt that no call is still executing under is final: whatever
\* calls were on their way to insert or reclaim it replay its result, and the
\* operation has no further effect.
Settled == receipt.status = "completed" /\ Executing = {}
SettledIsFinal == [][Settled => Settled' /\ effects' = effects]_vars

\* Only calls with the arguments the receipt was created for execute.
ExecutesWhatItRecords == \A c \in Executing : receipt.print = print[c]

\* What the documentation says: a repetition of an operation that has a durable
\* result returns it, and does not execute again.
DurableResultIsReplayed ==
  [][settled => \A c \in Calls : pc[c] = "begin" => pc'[c] \notin {"reclaim", "insert"}]_vars
=============================================================================
