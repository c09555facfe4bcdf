----------------------- MODULE OperationReceipts_proofs -----------------------
(***************************************************************************)
(* Theorems about OperationReceipts, for any set of calls and fingerprints.*)
(* The inductive invariant says what a call at each of its steps knows of  *)
(* the receipt, and that the first lease has one holder until an attempt   *)
(* fails.                                                                  *)
(***************************************************************************)
EXTENDS OperationReceipts, FiniteSetTheorems, TLAPS

\* Steps before the receipt is held.
Arriving == {"idle", "begin", "insert", "reclaim", "waiting"}

\* The key is free: nobody has got past its insertion.
FreeInv ==
  ~Exists =>
    /\ ~receipt.createdLong /\ ~receipt.updatedLong
    /\ effects = {}
    /\ \A c \in Calls : /\ pc[c] \in {"idle", "begin", "insert", "dead"}
                        /\ ~created[c] /\ ~waited[c]

\* What the receipt tells of its past.
PastInv ==
  /\ receipt.updatedLong => receipt.createdLong
  /\ receipt.status = "failed" => failed

\* What a call knows: it waits for, holds and reclaims only a receipt of its own
\* arguments, and reclaims none that is completed or within its first lease.
Knows(c) ==
  /\ pc[c] \in Arriving => ~created[c]
  /\ pc[c] \in Arriving \cup {"look", "executing"} => c \notin effects
  /\ pc[c] = "reclaim" => /\ receipt.print = print[c]
                          /\ wanted[c] \in {"started", "failed"}
                          /\ failed \/ receipt.createdLong
  /\ waited[c] \/ created[c] \/ pc[c] = "waiting" \/ c \in Executing
       => receipt.print = print[c]

\* The first lease belongs to the call that created the receipt.
FirstLeaseInv ==
  ~receipt.createdLong /\ ~failed =>
    /\ \A c \in Executing \cup effects : created[c]
    /\ \A c, d \in Calls : created[c] /\ created[d] => c = d

Inv == TypeOK /\ FreeInv /\ PastInv /\ FirstLeaseInv /\ \A c \in Calls : Knows(c)

-----------------------------------------------------------------------------
LEMMA InvInit == Init => Inv
BY DEF Init, Inv, TypeOK, FreeInv, PastInv, FirstLeaseInv, Knows, Exists, Executing,
       Receipt, Status, Step, Arriving

LEMMA FreshType ==
  ASSUME NEW f \in Prints
  PROVE  [status |-> "started", print |-> f, createdLong |-> FALSE, updatedLong |-> FALSE]
           \in Receipt
BY DEF Receipt, Status

LEMMA TouchType == Touch => touched' \in [Calls -> BOOLEAN]
BY DEF Touch

\* A call that does not move knows what it knew, if the receipt keeps its
\* fingerprint and forgets neither a failure nor the end of the first lease.
LEMMA KnowsFrame ==
  ASSUME NEW c \in Calls, Knows(c), pc'[c] = pc[c], print' = print,
         wanted'[c] = wanted[c], created'[c] = created[c], waited'[c] = waited[c],
         c \in effects' => c \in effects,
         receipt'.print = receipt.print,
         failed \/ receipt.createdLong => failed' \/ receipt'.createdLong
  PROVE  Knows(c)'
BY DEF Knows, Executing

\* A call that moves without touching the receipt, short of executing.
LEMMA QuietStepKeepsInv ==
  ASSUME Inv, NEW c \in Calls, NEW step \in Step, Goto(c, step), TypeOK',
         UNCHANGED <<receipt, print, historyVars>>,
         \A d \in Calls : d # c => /\ wanted'[d] = wanted[d]
                                   /\ created'[d] = created[d]
                                   /\ waited'[d] = waited[d],
         created'[c] => created[c],
         ~Exists => step \in {"begin", "insert", "dead"} /\ ~waited'[c],
         step \in {"executing", "acted", "throwing"} /\ ~receipt.createdLong /\ ~failed
           => created[c],
         c \in effects /\ ~receipt.createdLong /\ ~failed => created'[c] = created[c],
         created[c] /\ step \in {"executing", "acted", "throwing"} => created'[c],
         Knows(c)'
  PROVE  Inv'
<1> USE DEF Inv
<1>1. FreeInv'
  BY DEF FreeInv, TypeOK, Goto, Exists, historyVars
<1>2. PastInv'
  BY DEF PastInv, historyVars
<1>3. FirstLeaseInv'
  <2> SUFFICES ASSUME ~receipt.createdLong, ~failed
               PROVE  /\ \A d \in (Executing \cup effects)' : created'[d]
                      /\ \A d, e \in Calls : created'[d] /\ created'[e] => d = e
    BY DEF FirstLeaseInv, historyVars
  <2>1. \A d \in Calls : created'[d] => created[d]
    OBVIOUS
  <2>2. ASSUME NEW d \in (Executing \cup effects)' PROVE created'[d]
    BY DEF FirstLeaseInv, TypeOK, Goto, Executing, historyVars
  <2> QED BY <2>1, <2>2 DEF FirstLeaseInv
<1>4. ASSUME NEW d \in Calls, d # c PROVE Knows(d)'
  BY <1>4, KnowsFrame DEF TypeOK, Goto, historyVars
<1> QED BY <1>1, <1>2, <1>3, <1>4

LEMMA CallKeepsInv == ASSUME Inv, NEW c \in Calls, Call(c) PROVE Inv'
<1> USE DEF Inv, TypeOK
<1>1. TypeOK'
  BY DEF Call, Goto, Step, historyVars
<1>2. Knows(c)'
  BY DEF Call, Goto, Knows, Arriving, Executing, historyVars
<1> QED BY <1>1, <1>2, QuietStepKeepsInv DEF Call, Goto, Step, FreeInv

LEMMA BeginKeepsInv == ASSUME Inv, NEW c \in Calls, Begin(c) PROVE Inv'
<1> USE DEF Inv, TypeOK
<1>1. PICK step \in {"insert", "reclaim", "look"} :
        /\ Goto(c, step)
        /\ ~Exists => step = "insert"
        /\ step = "reclaim" => Exists /\ Reclaimable(c)
  BY DEF Begin
<1>2. TypeOK'
  BY <1>1 DEF Begin, Goto, Step, Status, Receipt, historyVars
<1>3. ~created[c] /\ c \notin effects
  BY DEF Begin, Knows, Arriving
<1>4. Knows(c)'
  <2>1. /\ pc'[c] = step /\ wanted'[c] = receipt.status /\ ~created'[c]
        /\ waited' = waited /\ effects' = effects /\ print' = print
        /\ receipt' = receipt /\ failed' = failed
    BY <1>1 DEF Begin, Goto, historyVars
  <2>2. step = "reclaim" => /\ receipt.print = print[c]
                            /\ receipt.status \in {"started", "failed"}
                            /\ failed \/ receipt.createdLong
    BY <1>1 DEF Reclaimable, PastInv
  <2>3. waited[c] => receipt.print = print[c]
    BY DEF Knows
  <2> QED BY <1>3, <2>1, <2>2, <2>3 DEF Knows, Executing
<1> QED BY <1>1, <1>2, <1>3, <1>4, QuietStepKeepsInv DEF Begin, Step, FreeInv

LEMMA LookKeepsInv == ASSUME Inv, NEW c \in Calls, Look(c) PROVE Inv'
<1> USE DEF Inv, TypeOK
<1>1. Decide(c) \in {"replayed", "mismatch", "waiting", "busy", "executing"}
  BY DEF Decide
<1>2. TypeOK'
  BY <1>1 DEF Look, Goto, Step, historyVars
<1>3. Exists
  BY DEF Look, FreeInv
<1>4. Decide(c) = "executing" /\ ~receipt.createdLong /\ ~failed => created[c]
  BY <1>3 DEF Decide, Young, Exists, PastInv, Receipt, Status
<1>5. Decide(c) = "waiting" => ~created[c] /\ receipt.print = print[c]
  BY DEF Decide
<1>6. Decide(c) = "executing" => receipt.print = print[c]
  BY DEF Decide, Knows
<1>7. Knows(c)'
  <2>1. /\ pc'[c] = Decide(c) /\ created' = created /\ waited' = waited
        /\ effects' = effects /\ print' = print /\ receipt' = receipt
    BY DEF Look, Goto, historyVars
  <2>2. c \notin effects
    BY DEF Look, Knows
  <2>3. waited[c] \/ created[c] => receipt.print = print[c]
    BY DEF Knows
  <2> QED BY <1>1, <1>5, <1>6, <2>1, <2>2, <2>3 DEF Knows, Arriving, Executing
<1> QED BY <1>1, <1>2, <1>3, <1>4, <1>7, QuietStepKeepsInv DEF Look, Step

LEMMA WaitKeepsInv == ASSUME Inv, NEW c \in Calls, Wait(c) PROVE Inv'
<1> USE DEF Inv, TypeOK
<1>1. TypeOK'
  BY DEF Wait, Goto, Step, historyVars
<1>2. Knows(c)'
  BY DEF Wait, Goto, Knows, Arriving, Executing, historyVars
<1>3. Exists
  BY DEF Wait, FreeInv
<1> QED BY <1>1, <1>2, <1>3, QuietStepKeepsInv DEF Wait, Step

LEMMA CrashKeepsInv == ASSUME Inv, NEW c \in Calls, Crash(c) PROVE Inv'
<1> USE DEF Inv, TypeOK
<1>1. TypeOK'
  BY DEF Crash, Goto, Step, historyVars
<1>2. Knows(c)'
  BY DEF Crash, Goto, Knows, Arriving, Executing, historyVars
<1> QED BY <1>1, <1>2, QuietStepKeepsInv DEF Crash, Goto, Step, FreeInv

-----------------------------------------------------------------------------
\* An insertion into a free key has the receipt to itself; any other one
\* changes nothing.
LEMMA InsertKeepsInv == ASSUME Inv, NEW c \in Calls, Insert(c) PROVE Inv'
<1> USE DEF Inv
<1>1. TypeOK'
  <2>1. receipt' \in Receipt
    BY FreshType DEF TypeOK, Insert
  <2>2. touched' \in [Calls -> BOOLEAN]
    BY TouchType DEF TypeOK, Insert
  <2> QED BY <2>1, <2>2 DEF TypeOK, Insert, Goto, Step, historyVars
<1> USE DEF TypeOK
<1>2. CASE Exists
  <2>1. Knows(c)'
    BY <1>2 DEF Insert, Goto, Knows, Arriving, Executing, historyVars
  <2> QED BY <1>1, <1>2, <2>1, QuietStepKeepsInv DEF Insert, Step
<1>3. CASE ~Exists
  <2>1. /\ receipt' = [status |-> "started", print |-> print[c],
                       createdLong |-> FALSE, updatedLong |-> FALSE]
        /\ created' = [created EXCEPT ![c] = TRUE]
        /\ pc' = [pc EXCEPT ![c] = "look"]
        /\ waited' = waited /\ effects' = effects /\ print' = print /\ failed' = failed
    BY <1>3 DEF Insert, Goto, historyVars
  <2>2. effects = {} /\ \A d \in Calls : /\ pc[d] \in {"idle", "begin", "insert", "dead"}
                                         /\ ~created[d] /\ ~waited[d]
    BY <1>3 DEF FreeInv
  <2>3. FreeInv' /\ PastInv'
    BY <2>1 DEF FreeInv, PastInv, Exists
  <2>4. Executing' = {}
    BY <2>1, <2>2 DEF Executing
  <2>5. FirstLeaseInv'
    BY <2>1, <2>2, <2>4 DEF FirstLeaseInv
  <2>6. ASSUME NEW d \in Calls PROVE Knows(d)'
    BY <2>1, <2>2, <2>4 DEF Knows, Arriving
  <2> QED BY <1>1, <2>3, <2>5, <2>6
<1> QED BY <1>2, <1>3

\* A receipt is reclaimed after a failure or after its first lease only.
LEMMA ReclaimKeepsInv == ASSUME Inv, NEW c \in Calls, Reclaim(c) PROVE Inv'
<1> USE DEF Inv
<1>1. TypeOK'
  <2>1. receipt' \in Receipt
    BY DEF TypeOK, Reclaim, Receipt, Status
  <2>2. touched' \in [Calls -> BOOLEAN]
    BY TouchType DEF TypeOK, Reclaim
  <2> QED BY <2>1, <2>2 DEF TypeOK, Reclaim, Goto, Step, historyVars
<1> USE DEF TypeOK
<1>2. Exists /\ (failed \/ receipt.createdLong)
  BY DEF Reclaim, FreeInv, Knows
<1>3. /\ receipt'.print = receipt.print /\ receipt'.createdLong = receipt.createdLong
      /\ receipt'.status # "absent"
      /\ receipt'.status = "failed" => receipt.status = "failed"
      /\ receipt'.updatedLong => receipt.updatedLong
  BY <1>2 DEF Reclaim, Receipt, Exists
<1>4. FreeInv' /\ PastInv' /\ FirstLeaseInv'
  BY <1>2, <1>3 DEF Reclaim, FreeInv, PastInv, FirstLeaseInv, Exists, historyVars
<1>5. Knows(c)'
  BY <1>3 DEF Reclaim, Goto, Knows, Arriving, Executing, historyVars
<1>6. ASSUME NEW d \in Calls, d # c PROVE Knows(d)'
  BY <1>3, <1>6, KnowsFrame DEF Reclaim, Goto, historyVars
<1> QED BY <1>1, <1>4, <1>5, <1>6

-----------------------------------------------------------------------------
LEMMA ActKeepsInv == ASSUME Inv, NEW c \in Calls, Act(c) PROVE Inv'
<1> USE DEF Inv, TypeOK
<1>1. TypeOK'
  BY DEF Act, Goto, Step
<1>2. c \in Executing /\ Exists
  BY DEF Act, Executing, FreeInv
<1>3. Executing' \cup effects' \subseteq Executing \cup effects
  BY <1>2 DEF Act, Goto, Executing
<1>4. FreeInv' /\ PastInv' /\ FirstLeaseInv'
  BY <1>2, <1>3 DEF Act, FreeInv, PastInv, FirstLeaseInv, Exists
<1>5. Knows(c)'
  BY DEF Act, Goto, Knows, Arriving, Executing
<1>6. ASSUME NEW d \in Calls, d # c PROVE Knows(d)'
  BY <1>6, KnowsFrame DEF Act, Goto
<1> QED BY <1>1, <1>4, <1>5, <1>6

\* Completion and failure end an execution.
LEMMA SettleKeepsInv ==
  ASSUME Inv, NEW c \in Calls, Complete(c) \/ FailReceipt(c) PROVE Inv'
<1> USE DEF Inv, TypeOK
<1>1. TypeOK'
  BY TouchType DEF Complete, FailReceipt, Goto, Step, Receipt, Status
<1>2. /\ receipt'.print = receipt.print /\ receipt'.createdLong = receipt.createdLong
      /\ receipt'.status # "absent" /\ ~receipt'.updatedLong
      /\ receipt'.status = "failed" => failed'
      /\ failed => failed'
  BY DEF Complete, FailReceipt, Receipt
<1>3. Executing' \cup effects' \subseteq Executing \cup effects
  BY DEF Complete, FailReceipt, Goto, Executing
<1>4. FreeInv' /\ PastInv' /\ FirstLeaseInv'
  BY <1>2, <1>3 DEF Complete, FailReceipt, FreeInv, PastInv, FirstLeaseInv, Exists
<1>5. Knows(c)'
  BY <1>2 DEF Complete, FailReceipt, Goto, Knows, Arriving, Executing
<1>6. ASSUME NEW d \in Calls, d # c PROVE Knows(d)'
  BY <1>2, <1>6, KnowsFrame DEF Complete, FailReceipt, Goto
<1> QED BY <1>1, <1>4, <1>5, <1>6

LEMMA LapseKeepsInv == ASSUME Inv, Lapse PROVE Inv'
<1> USE DEF Inv, TypeOK
<1>1. /\ receipt' \in Receipt /\ receipt'.createdLong
      /\ receipt'.print = receipt.print /\ receipt'.status = receipt.status
  BY DEF Lapse, Receipt
<1>2. TypeOK' /\ FreeInv' /\ PastInv' /\ FirstLeaseInv'
  BY <1>1 DEF Lapse, callVars, historyVars, FreeInv, PastInv, FirstLeaseInv, Exists
<1>3. ASSUME NEW c \in Calls PROVE Knows(c)'
  BY <1>1, KnowsFrame DEF Lapse, callVars, historyVars
<1> QED BY <1>2, <1>3

LEMMA InvStep == Inv /\ [Next]_vars => Inv'
<1> SUFFICES ASSUME Inv, [Next]_vars PROVE Inv'
  OBVIOUS
<1>1. CASE UNCHANGED vars
  BY <1>1 DEF vars, callVars, historyVars, Inv, TypeOK, FreeInv, PastInv, FirstLeaseInv,
              Knows, Exists, Executing
<1>2. ASSUME NEW c \in Calls,
             \/ Call(c) \/ Begin(c) \/ Insert(c) \/ Reclaim(c) \/ Look(c) \/ Wait(c)
             \/ Act(c) \/ Complete(c) \/ FailReceipt(c) \/ Crash(c)
      PROVE  Inv'
  BY <1>2, CallKeepsInv, BeginKeepsInv, InsertKeepsInv, ReclaimKeepsInv, LookKeepsInv,
     WaitKeepsInv, ActKeepsInv, SettleKeepsInv, CrashKeepsInv
<1> QED BY <1>1, <1>2, LapseKeepsInv DEF Next

\* In every reachable state each call knows what its step says it knows, and
\* the first lease has one holder (beginOperatorOperationReceipt and the
\* decisions of dispatchOperatorMcpToolCall).
THEOREM CallsKnowTheReceipt == Spec => []Inv
BY InvInit, InvStep, PTL DEF Spec

\* The receipt and the calls are always typed.
THEOREM ReceiptIsTyped == Spec => []TypeOK
<1>1. Inv => TypeOK
  BY DEF Inv
<1> QED BY <1>1, CallsKnowTheReceipt, PTL

-----------------------------------------------------------------------------
\* Whatever the number of calls, only those with the arguments the receipt was
\* created for reach the tool.
THEOREM ExecutesRecorded == Spec => []ExecutesWhatItRecords
<1>1. Inv => ExecutesWhatItRecords
  BY DEF Inv, Knows, ExecutesWhatItRecords, Executing
<1> QED BY <1>1, CallsKnowTheReceipt, PTL

\* Whatever the number of calls, one at most executes before the first lease
\* ends or an attempt fails.
THEOREM FirstLeaseIsExclusive == Spec => []ExclusiveWithinLease
<1>1. ASSUME Inv PROVE ExclusiveWithinLease
  <2> SUFFICES ASSUME ~receipt.createdLong, ~failed
               PROVE  Cardinality(effects \cup Executing) <= 1
    BY DEF ExclusiveWithinLease
  <2>1. \A c, d \in effects \cup Executing : c = d
    BY <1>1 DEF Inv, TypeOK, FirstLeaseInv, Executing
  <2>2. CASE effects \cup Executing = {}
    BY <2>2, FS_EmptySet
  <2>3. CASE effects \cup Executing # {}
    <3>1. PICK c \in effects \cup Executing : TRUE
      BY <2>3
    <3>2. effects \cup Executing = {c}
      BY <2>1, <3>1
    <3>3. Cardinality({c}) = 1
      BY FS_Singleton
    <3> QED BY <3>2, <3>3
  <2> QED BY <2>2, <2>3
<1> QED BY <1>1, CallsKnowTheReceipt, PTL

\* A completed receipt that nobody executes under stays completed, for every
\* interleaving of calls that had set out to insert or reclaim it.
THEOREM SettledStaysFinal == Spec => SettledIsFinal
<1>1. ASSUME Inv, Next, Settled PROVE Settled' /\ effects' = effects
  <2> USE <1>1 DEF Inv, Settled
  <2>0. receipt.status = "completed" /\ Executing = {} /\ Exists
    BY DEF Exists
  <2>1. ASSUME NEW c \in Calls, Act(c) \/ Complete(c) \/ FailReceipt(c) PROVE FALSE
    BY <2>0, <2>1 DEF Act, Complete, FailReceipt, Executing
  <2>2. ASSUME NEW c \in Calls, Call(c) \/ Begin(c) \/ Wait(c) \/ Crash(c)
        PROVE  Settled' /\ effects' = effects
    BY <2>0, <2>2 DEF Call, Begin, Wait, Crash, Goto, TypeOK, Executing, historyVars
  <2>3. ASSUME NEW c \in Calls, Insert(c) PROVE Settled' /\ effects' = effects
    BY <2>0, <2>3 DEF Insert, Goto, TypeOK, Executing, historyVars
  <2>4. ASSUME NEW c \in Calls, Reclaim(c) PROVE Settled' /\ effects' = effects
    <3>1. ~Unchanged(c)
      BY <2>0, <2>4 DEF Reclaim, Knows, Unchanged
    <3> QED BY <2>0, <2>4, <3>1 DEF Reclaim, Goto, TypeOK, Executing, historyVars
  <2>5. ASSUME NEW c \in Calls, Look(c) PROVE Settled' /\ effects' = effects
    <3>1. Decide(c) = "replayed"
      BY <2>0 DEF Decide
    <3> QED BY <2>0, <2>5, <3>1 DEF Look, Goto, TypeOK, Executing, historyVars
  <2>6. CASE Lapse
    BY <2>0, <2>6 DEF Lapse, TypeOK, Receipt, Executing, callVars, historyVars
  <2> QED BY <2>1, <2>2, <2>3, <2>4, <2>5, <2>6 DEF Next
<1>2. ASSUME UNCHANGED vars, Settled PROVE Settled' /\ effects' = effects
  BY <1>2 DEF vars, callVars, historyVars, Settled, Executing
<1>3. Inv /\ [Next]_vars => [Settled => Settled' /\ effects' = effects]_vars
  BY <1>1, <1>2
<1> QED BY <1>3, CallsKnowTheReceipt, PTL DEF Spec, SettledIsFinal
=============================================================================
