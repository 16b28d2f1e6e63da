---------------------------- MODULE OrderTrigger ---------------------------
(***************************************************************************)
(* The trigger of one order draft.  Participants edit the draft, prepare a *)
(* trigger (a signed authorization with a deadline and an order id of its  *)
(* own), and trigger it: the product service stores "submitted",           *)
(* broadcasts, and stores the result.  Beside them the registration lane   *)
(* of the reconcile worker checks the stored record against the node and   *)
(* the projections and writes it back.                                     *)
(*                                                                         *)
(* A draft has one registration row, rows of other drafts are independent, *)
(* so the module follows one draft.  Only triggerOrder runs under the lock *)
(* of the draft.  Every store write replaces a whole record by one built   *)
(* from what its writer had read.                                          *)
(***************************************************************************)
EXTENDS Integers, FiniteSets, ReconcileOutcome

CONSTANTS
  Requests,            \* concurrent requests of the product service
  Editors,             \* the requests that may edit the draft
  Preps,               \* prepareIds; each derives an order id of its own
  TxIds,               \* transaction hashes
  NoRequest, NoPrep, NoTx,
  WaitForReceipt,      \* adapter option
  PrepareTtl,          \* lifetime of a prepared trigger
  TxTimeout,           \* RECONCILE_TX_TIMEOUT_MS
  MaxClock, MaxFaults  \* bounds of the model: time, and crashes and failing calls

(* What is assumed of the constants, by the modules that give them values. *)
TriggerConstants ==
  /\ NoRequest \notin Requests /\ NoPrep \notin Preps /\ NoTx \notin TxIds
  /\ IsFiniteSet(Preps)
  /\ Editors \subseteq Requests
  /\ WaitForReceipt \in BOOLEAN
  /\ PrepareTtl \in Nat \ {0}
  /\ TxTimeout \in Nat \ {0}
  /\ MaxClock \in Nat /\ MaxFaults \in Nat

VARIABLES
  clock, faults,
  onChain,     \* whether the configured adapter broadcasts (else it only records)
  draft,       \* product_order_draft: status and triggeredOrderId
  reg,         \* product_order_trigger, the row of the draft
  deadline,    \* deadline of each prepared authorization, or NotIssued
  chain,       \* transactions: the authorization they carry and their fate
  projected,   \* transactions whose order the indexer has projected
  lock,        \* holder of the trigger lock of the draft
  pc, job,     \* step and local variables of each request
  wpc, wjob,   \* step and local variables of the worker
  reopened     \* history: prepares stored as failed and retryable, and not stored as
               \* submitted since

vars == << clock, faults, onChain, draft, reg, deadline, chain, projected,
           lock, pc, job, wpc, wjob, reopened >>
envVars    == << clock, onChain, deadline >>
chainVars  == << chain, projected >>
workerVars == << wpc, wjob >>

NotIssued == -1

DraftStatus == { "awaiting_participants", "ready_to_trigger", "triggering", "triggered",
                 "failed" }
RegStatus == { "none", "prepared", "submitted", "pending", "indexing", "confirmed",
               "failed" }
Draft == [ status : DraftStatus, order : Preps \cup {NoPrep} ]
Registration == [ status : RegStatus, prep : Preps \cup {NoPrep},
                  tx : TxIds \cup {NoTx}, retryable : BOOLEAN, createdAt : Nat ]
NoReg == [ status |-> "none", prep |-> NoPrep, tx |-> NoTx, retryable |-> FALSE,
           createdAt |-> 0 ]
NoDraft == [ status |-> "awaiting_participants", order |-> NoPrep ]

(* ProductOrderTriggerBroadcastResult *)
Result(status, tx, retryable) == [ status |-> status, tx |-> tx, retryable |-> retryable ]
NoResult == Result("none", NoTx, FALSE)

TriggerSteps == { "trigger", "submitting", "broadcast", "receipt", "broadcasted" }
Steps == { "idle", "edit", "prepare", "prepared" } \cup TriggerSteps
Job == [ draft : Draft, reg : Registration, prep : Preps \cup {NoPrep}, at : Nat,
         result : [ status : RegStatus, tx : TxIds \cup {NoTx}, retryable : BOOLEAN ],
         again : BOOLEAN ]   \* history: the request found its prepare reopened
NoJob == [ draft |-> NoDraft, reg |-> NoReg, prep |-> NoPrep, at |-> 0,
           result |-> NoResult, again |-> FALSE ]

WorkerSteps == { "idle", "check", "receipt", "projection", "store", "getDraft",
                 "updateDraft" }
WorkerJob == [ reg : Registration, kind : Kinds, draft : Draft ]
NoWorkerJob == [ reg |-> NoReg, kind |-> "pending", draft |-> NoDraft ]

(* Rows, requests, the worker's copies and the chain hold what the stores  *)
(* and the service's types allow.                                          *)
TypeOK ==
  /\ clock \in Nat /\ faults \in Nat /\ onChain \in BOOLEAN
  /\ draft \in Draft /\ reg \in Registration
  /\ deadline \in [ Preps -> Nat \cup {NotIssued} ]
  /\ chain \in [ TxIds -> [ prep : Preps \cup {NoPrep},
                            fate : { "none", "pending", "success", "reverted" } ] ]
  /\ projected \in SUBSET TxIds
  /\ lock \in Requests \cup {NoRequest}
  /\ pc \in [ Requests -> Steps ] /\ job \in [ Requests -> Job ]
  /\ wpc \in WorkerSteps /\ wjob \in WorkerJob
  /\ reopened \in SUBSET Preps

Init ==
  /\ clock = 0 /\ faults = 0
  /\ onChain \in BOOLEAN
  /\ draft = [ NoDraft EXCEPT !.status = "ready_to_trigger" ]
  /\ reg = NoReg
  /\ deadline = [ p \in Preps |-> NotIssued ]
  /\ chain = [ t \in TxIds |-> [ prep |-> NoPrep, fate |-> "none" ] ]
  /\ projected = {}
  /\ lock = NoRequest
  /\ pc = [ r \in Requests |-> "idle" ]
  /\ job = [ r \in Requests |-> NoJob ]
  /\ wpc = "idle" /\ wjob = NoWorkerJob
  /\ reopened = {}

-----------------------------------------------------------------------------
At(r, step) == pc[r] = step
Goto(r, step, locals) ==
  /\ pc'  = [ pc  EXCEPT ![r] = step ]
  /\ job' = [ job EXCEPT ![r] = locals ]
Return(r) == Goto(r, "idle", NoJob)

isPrepareExpired(p) == deadline[p] <= clock

(* Both tables in one transaction; reopened follows what is stored.        *)
StoreRegistration(record) ==
  /\ reg' = record
  /\ reopened' = CASE record.status = "failed" /\ record.retryable
                        -> reopened \cup {record.prep}
                    [] record.status = "submitted" -> reopened \ {record.prep}
                    [] OTHER -> reopened

-----------------------------------------------------------------------------
(* updateDraft: the edited fields are of no concern here, but the write    *)
(* puts back the status the request had read.                              *)
EditRead(r) ==
  /\ At(r, "idle")
  /\ r \in Editors
  /\ Goto(r, "edit", [ NoJob EXCEPT !.draft = draft ])
  /\ UNCHANGED << envVars, faults, draft, reg, chainVars, lock, workerVars, reopened >>

EditStore(r) ==
  /\ At(r, "edit")
  /\ draft' = job[r].draft
  /\ Return(r)
  /\ UNCHANGED << envVars, faults, reg, chainVars, lock, workerVars, reopened >>

-----------------------------------------------------------------------------
(* prepareOrderTrigger reads the draft and, later, its registration.       *)
PrepareRead(r) ==
  /\ At(r, "idle")
  /\ Goto(r, "prepare", [ NoJob EXCEPT !.draft = draft ])
  /\ UNCHANGED << envVars, faults, draft, reg, chainVars, lock, workerVars, reopened >>

RetryingFailedTrigger(g) == g.status = "failed" /\ g.retryable
ExpiredPreparedTrigger(g) == g.status = "prepared" /\ isPrepareExpired(g.prep)

CanPrepare(d, g) ==
  /\ g.status = "none" \/ RetryingFailedTrigger(g) \/ ExpiredPreparedTrigger(g)
  /\ \/ d.status = "ready_to_trigger"
     \/ d.status = "failed" /\ RetryingFailedTrigger(g)

(* Bound of the model: prepareIds are finite.                              *)
IdsLeft == \E p \in Preps : deadline[p] = NotIssued

(* What the rest of the request needs: the draft to write back, the time,  *)
(* whether there was a registration, and when it was created.              *)
PrepareChecked(r) ==
  /\ At(r, "prepare")
  /\ CanPrepare(job[r].draft, reg)
  /\ IdsLeft
  /\ Goto(r, "prepared",
          [ job[r] EXCEPT !.draft.status = "ready_to_trigger", !.at = clock,
                          !.reg = [ NoReg EXCEPT !.status = reg.status,
                                                 !.createdAt = reg.createdAt ] ])
  /\ UNCHANGED << envVars, faults, draft, reg, chainVars, lock, workerVars, reopened >>

(* A first registration is inserted only if the draft has none by now.     *)
InsertLost(j) == j.reg.status = "none" /\ reg.status # "none"

(* An unexpired prepare is returned as it is, also to the loser of a race  *)
(* of first prepares; everything else is a 409.                            *)
PrepareRefused(r) ==
  /\ pc[r] \in { "prepare", "prepared" }
  /\ At(r, "prepare") => ~(CanPrepare(job[r].draft, reg) /\ IdsLeft)
  /\ At(r, "prepared") => InsertLost(job[r])
  /\ Return(r)
  /\ UNCHANGED << envVars, faults, draft, reg, chainVars, lock, workerVars, reopened >>

PreparedRegistration(p, j) ==
  [ status |-> "prepared", prep |-> p, tx |-> NoTx, retryable |-> FALSE,
    createdAt |-> IF j.reg.status = "none" THEN j.at ELSE j.reg.createdAt ]

PrepareStore(r, p) ==
  /\ At(r, "prepared")
  /\ deadline[p] = NotIssued
  /\ ~InsertLost(job[r])
  /\ deadline' = [ deadline EXCEPT ![p] = job[r].at + PrepareTtl ]
  /\ StoreRegistration(PreparedRegistration(p, job[r]))
  /\ draft' = job[r].draft
  /\ Return(r)
  /\ UNCHANGED << clock, onChain, faults, chainVars, lock, workerVars >>

-----------------------------------------------------------------------------
(* Fault: no lock around triggerOrder.                                     *)
TriggerUnlocked(r, p) ==
  /\ At(r, "idle")
  /\ deadline[p] # NotIssued
  /\ lock' = r
  /\ Goto(r, "trigger", 
          [ NoJob EXCEPT !.draft = [ draft EXCEPT !.status = "triggering" ], !.prep = p ])
  /\ UNCHANGED << envVars, faults, draft, reg, chainVars, workerVars, reopened >>

(* triggerOrder enters the critical section of the draft and reads it; all *)
(* its writes replace the status.                                          *)
Trigger(r, p) ==
  /\ At(r, "idle")
  /\ lock = NoRequest
  /\ deadline[p] # NotIssued
  /\ lock' = r
  /\ Goto(r, "trigger", 
          [ NoJob EXCEPT !.draft = [ draft EXCEPT !.status = "triggering" ], !.prep = p ])
  /\ UNCHANGED << envVars, faults, draft, reg, chainVars, workerVars, reopened >>

CanTrigger(p) ==
  /\ reg.prep = p
  /\ reg.status = "prepared" \/ RetryingFailedTrigger(reg)
  /\ ~isPrepareExpired(p)

TriggerChecked(r) ==
  /\ At(r, "trigger")
  /\ CanTrigger(job[r].prep)
  /\ Goto(r, "submitting",
          [ job[r] EXCEPT !.reg = [ reg EXCEPT !.status = "submitted", !.retryable = FALSE ],
                          !.again = job[r].prep \in reopened ])
  /\ UNCHANGED << envVars, faults, draft, reg, chainVars, lock, workerVars, reopened >>

TriggerRefused(r) ==
  /\ At(r, "trigger")
  /\ ~CanTrigger(job[r].prep)
  /\ Return(r)
  /\ lock' = NoRequest
  /\ UNCHANGED << envVars, faults, draft, reg, chainVars, workerVars, reopened >>

StoreSubmitting(r) ==
  /\ At(r, "submitting")
  /\ StoreRegistration(job[r].reg)
  /\ draft' = job[r].draft
  /\ Goto(r, "broadcast", job[r])
  /\ UNCHANGED << envVars, faults, chainVars, lock, workerVars >>

-----------------------------------------------------------------------------
(* The broadcast adapters.                                                 *)
EnterPool(t, p) ==
  /\ chain[t].fate = "none"
  /\ chain' = [ chain EXCEPT ![t] = [ prep |-> p, fate |-> "pending" ] ]

Broadcasted(r, result) == Goto(r, "broadcasted", [ job[r] EXCEPT !.result = result ])

(* The memory adapter records the attempt and reports "pending".           *)
BroadcastRecorded(r) ==
  /\ At(r, "broadcast")
  /\ ~onChain
  /\ Broadcasted(r, Result("pending", NoTx, FALSE))
  /\ UNCHANGED << envVars, faults, draft, reg, chainVars, lock, workerVars, reopened >>

(* A refusal without a transaction: deterministic, or of the transport.    *)
BroadcastRefused(r) ==
  /\ At(r, "broadcast")
  /\ onChain
  /\ \E retryable \in BOOLEAN : Broadcasted(r, Result("failed", NoTx, retryable))
  /\ UNCHANGED << envVars, faults, draft, reg, chainVars, lock, workerVars, reopened >>

(* writeContract succeeds; the receipt is awaited if so configured.        *)
BroadcastSent(r, t) ==
  /\ At(r, "broadcast")
  /\ onChain
  /\ EnterPool(t, job[r].reg.prep)
  /\ IF WaitForReceipt
       THEN Goto(r, "receipt", [ job[r] EXCEPT !.result = Result("none", t, FALSE) ])
       ELSE Broadcasted(r, Result("submitted", t, FALSE))
  /\ UNCHANGED << envVars, faults, draft, reg, projected, lock, workerVars, reopened >>

(* The node takes the transaction but writeContract throws a transport     *)
(* error: failed, retryable, and no hash.                                  *)
BroadcastUnseen(r, t) ==
  /\ At(r, "broadcast")
  /\ onChain
  /\ faults < MaxFaults
  /\ EnterPool(t, job[r].reg.prep)
  /\ Broadcasted(r, Result("failed", NoTx, TRUE))
  /\ faults' = faults + 1
  /\ UNCHANGED << envVars, draft, reg, projected, lock, workerVars, reopened >>

(* What the adapter reports for a transaction of the given fate.  Without  *)
(* a readable receipt the error decides: retryable ones keep the hash in   *)
(* "indexing", the others report a failure with the hash.                  *)
ReceiptResults(t) ==
  CASE chain[t].fate = "success" ->
         { Result("confirmed", t, FALSE), Result("indexing", t, FALSE) }
    [] chain[t].fate = "reverted" -> { Result("failed", t, FALSE) }
    [] OTHER -> { Result("indexing", t, TRUE), Result("failed", t, FALSE) }

ReceiptAwaited(r) ==
  /\ At(r, "receipt")
  /\ \E result \in ReceiptResults(job[r].result.tx) : Broadcasted(r, result)
  /\ UNCHANGED << envVars, faults, draft, reg, chainVars, lock, workerVars, reopened >>

draftFrom(d, g) ==
  CASE g.status = "confirmed" -> [ status |-> "triggered", order |-> g.prep ]
    [] g.status = "failed"    -> [ d EXCEPT !.status = "failed" ]
    [] OTHER                  -> [ d EXCEPT !.status = "triggering" ]

(* A result without a hash leaves the hash of an earlier attempt in place. *)
BroadcastedRegistration(j) ==
  [ j.reg EXCEPT !.status = j.result.status, !.retryable = j.result.retryable,
                 !.tx = IF j.result.tx = NoTx THEN @ ELSE j.result.tx ]

StoreBroadcast(r) ==
  LET g == BroadcastedRegistration(job[r]) IN
  /\ At(r, "broadcasted")
  /\ StoreRegistration(g)
  /\ draft' = draftFrom(job[r].draft, g)
  /\ Return(r)
  /\ lock' = NoRequest
  /\ UNCHANGED << envVars, faults, chainVars, workerVars >>

-----------------------------------------------------------------------------
(* Fault: only rows in flight are checked.                                 *)
ReconcileableInFlight(g) == g.status \in { "submitted", "indexing" }

(* The registration lane of the reconcile worker.                          *)
isReconcileableRegistration(g) ==
  IF g.status = "failed" THEN g.tx # NoTx ELSE g.status \in { "submitted", "indexing" }

timedOut(g) == clock - g.createdAt >= TxTimeout

(* Fault: any transaction that created the order confirms the record.      *)
ProjectionOfOrder(g) == \E t \in projected : chain[t].prep = g.prep

(* The order of the record is projected, and by the transaction the record *)
(* carries.                                                                *)
registrationProjectionConfirmation(g) ==
  \E t \in projected : chain[t].prep = g.prep /\ t = g.tx

WorkerGoto(step, locals) == wpc' = step /\ wjob' = locals

Concluded(kind) == WorkerGoto("store", [ wjob EXCEPT !.kind = kind ])

(* A pass lists the registrations: the check works on this copy.           *)
WorkerList ==
  /\ wpc = "idle"
  /\ isReconcileableRegistration(reg)
  /\ WorkerGoto("check", [ NoWorkerJob EXCEPT !.reg = reg ])
  /\ UNCHANGED << envVars, faults, draft, reg, chainVars, lock, pc, job, reopened >>

WorkerCheck ==
  /\ wpc = "check"
  /\ IF wjob.reg.tx = NoTx THEN Concluded(Unseen(timedOut(wjob.reg)))
     ELSE IF registrationProjectionConfirmation(wjob.reg) THEN Concluded("confirmed")
     ELSE WorkerGoto("receipt", wjob)
  /\ UNCHANGED << envVars, faults, draft, reg, chainVars, lock, pc, job, reopened >>

(* What getTransactionReceipt may return for a transaction of the fate.    *)
ReceiptOf(t) ==
  CASE chain[t].fate = "success"  -> { "success", "unknown" }
    [] chain[t].fate = "reverted" -> { "reverted", "unknown" }
    [] OTHER                      -> { "missing" }

WorkerReceipt ==
  /\ wpc = "receipt"
  /\ \E receipt \in ReceiptOf(wjob.reg.tx) :
       IF receipt = "success" THEN WorkerGoto("projection", wjob)
                              ELSE Concluded(FromReceipt(receipt, timedOut(wjob.reg)))
  /\ UNCHANGED << envVars, faults, draft, reg, chainVars, lock, pc, job, reopened >>

WorkerProjection ==
  /\ wpc = "projection"
  /\ Concluded(FromProjection(registrationProjectionConfirmation(wjob.reg)))
  /\ UNCHANGED << envVars, faults, draft, reg, chainVars, lock, pc, job, reopened >>

ReconciledRegistration(j) ==
  [ j.reg EXCEPT !.status = RegistrationStatus(j.kind, j.reg.status),
                 !.retryable = Retryable(j.kind) ]

(* The copy is written back whole, whatever the row holds by now.          *)
WorkerStore ==
  LET g == ReconciledRegistration(wjob) IN
  /\ wpc = "store"
  /\ StoreRegistration(g)
  /\ WorkerGoto("getDraft", [ NoWorkerJob EXCEPT !.reg = g ])
  /\ UNCHANGED << envVars, faults, draft, chainVars, lock, pc, job >>

WorkerGetDraft ==
  /\ wpc = "getDraft"
  /\ WorkerGoto("updateDraft", [ NoWorkerJob EXCEPT !.draft = draftFrom(draft, wjob.reg) ])
  /\ UNCHANGED << envVars, faults, draft, reg, chainVars, lock, pc, job, reopened >>

WorkerUpdateDraft ==
  /\ wpc = "updateDraft"
  /\ draft' = wjob.draft
  /\ WorkerGoto("idle", NoWorkerJob)
  /\ UNCHANGED << envVars, faults, reg, chainVars, lock, pc, job, reopened >>

(* A projection, receipt or store call throws: the record is skipped.      *)
WorkerFails ==
  /\ wpc # "idle"
  /\ faults < MaxFaults
  /\ faults' = faults + 1
  /\ WorkerGoto("idle", NoWorkerJob)
  /\ UNCHANGED << envVars, draft, reg, chainVars, lock, pc, job, reopened >>

-----------------------------------------------------------------------------
(* A store write of a request throws; the lock is released by finally.     *)
RequestFails(r) ==
  /\ pc[r] \in { "edit", "prepared", "submitting", "broadcasted" }
  /\ faults < MaxFaults
  /\ faults' = faults + 1
  /\ Return(r)
  /\ lock' = IF lock = r THEN NoRequest ELSE lock
  /\ UNCHANGED << envVars, draft, reg, chainVars, workerVars, reopened >>

(* The process dies: the lock and every request live in memory only.       *)
Crash ==
  /\ faults < MaxFaults
  /\ faults' = faults + 1
  /\ pc' = [ r \in Requests |-> "idle" ]
  /\ job' = [ r \in Requests |-> NoJob ]
  /\ lock' = NoRequest
  /\ WorkerGoto("idle", NoWorkerJob)
  /\ UNCHANGED << envVars, draft, reg, chainVars, reopened >>

Tick ==
  /\ clock < MaxClock
  /\ clock' = clock + 1
  /\ UNCHANGED << onChain, deadline, faults, draft, reg, chainVars, lock, pc, job,
                  workerVars, reopened >>

OrderExists(p) == \E t \in TxIds : chain[t].prep = p /\ chain[t].fate = "success"

(* The contract accepts an authorization up to its deadline, and creates   *)
(* the order it derives once.                                              *)
Mine(t) ==
  /\ chain[t].fate = "pending"
  /\ chain' = [ chain EXCEPT ![t].fate =
       IF deadline[chain[t].prep] < clock \/ OrderExists(chain[t].prep)
         THEN "reverted" ELSE "success" ]
  /\ UNCHANGED << envVars, faults, draft, reg, projected, lock, pc, job, workerVars,
                  reopened >>

Index(t) ==
  /\ chain[t].fate = "success"
  /\ t \notin projected
  /\ projected' = projected \cup {t}
  /\ UNCHANGED << envVars, faults, draft, reg, chain, lock, pc, job, workerVars,
                  reopened >>

Worker == \/ WorkerList \/ WorkerCheck \/ WorkerReceipt \/ WorkerProjection
          \/ WorkerStore \/ WorkerGetDraft \/ WorkerUpdateDraft

Request(r) ==
  \/ EditRead(r) \/ EditStore(r)
  \/ PrepareRead(r) \/ PrepareChecked(r) \/ PrepareRefused(r)
  \/ \E p \in Preps : PrepareStore(r, p) \/ Trigger(r, p)
  \/ TriggerChecked(r) \/ TriggerRefused(r) \/ StoreSubmitting(r)
  \/ BroadcastRecorded(r) \/ BroadcastRefused(r)
  \/ \E t \in TxIds : BroadcastSent(r, t) \/ BroadcastUnseen(r, t)
  \/ ReceiptAwaited(r) \/ StoreBroadcast(r) \/ RequestFails(r)

Next ==
  \/ \E r \in Requests : Request(r)
  \/ Worker \/ WorkerFails \/ Crash \/ Tick
  \/ \E t \in TxIds : Mine(t) \/ Index(t)

Spec == Init /\ [][Next]_vars

(* The worker polls, and each of its calls returns or throws.              *)
FairSpec == Spec /\ WF_vars(Worker)

-----------------------------------------------------------------------------
(* A registration is confirmed, and a draft triggered, only for an order   *)
(* that exists: the transaction on the record succeeded and created the    *)
(* order the record names, and the draft names an existing order.          *)
ConfirmedIsOnChain ==
  /\ reg.status = "confirmed" => /\ reg.tx \in TxIds
                                 /\ chain[reg.tx].fate = "success"
                                 /\ chain[reg.tx].prep = reg.prep
  /\ draft.status = "triggered" => OrderExists(draft.order)

(* The registration of the draft has the type its store gives it, and      *)
(* claims nothing the chain did not do.                                    *)
RegistrationTruthful == TypeOK /\ ConfirmedIsOnChain

Sent(p) == { t \in TxIds : chain[t].prep = p }

(* triggerOrder sends a prepared authorization a second time only if it    *)
(* found the record stored as failed and retryable after the first attempt *)
(* had been stored as submitted: two requests that both found it prepared  *)
(* never both send it.                                                     *)
NoAccidentalRebroadcast ==
  [][ \A r \in Requests, t \in TxIds :
        (At(r, "broadcast") /\ ~At(r, "broadcast")' /\ chain[t].fate = "none"
           /\ chain'[t].fate # "none" /\ Sent(chain'[t].prep) # {})
        => job[r].again ]_vars

Issued == { p \in Preps : deadline[p] # NotIssued }

(* Concurrent first prepares of a draft settle on one record: while it is  *)
(* prepared and unexpired no second authorization is issued.               *)
ConcurrentPreparesSettle ==
  [][ (Cardinality(Issued) = 1 /\ reg.status = "prepared" /\ ~isPrepareExpired(reg.prep))
      => Issued' = Issued ]_vars

(* By accident, no authorization is issued beside one that is still good,  *)
(* and none is sent twice.                                                 *)
TriggersOnce == NoAccidentalRebroadcast /\ ConcurrentPreparesSettle

(* A late success heals the record: once the order is projected by the     *)
(* transaction the record carries, the worker confirms it, even after a    *)
(* timeout had marked it failed, unless the record moves on to another     *)
(* transaction or prepare.                                                 *)
SelfHeals ==
  \A p \in Preps, t \in TxIds :
    (reg.prep = p /\ reg.tx = t /\ t \in projected)
      ~> (reg.status = "confirmed" \/ reg.tx # t \/ reg.prep # p)

(* Re-checking failed registrations keeps a draft from producing two       *)
(* orders.  Does not hold.                                                 *)
OneOrderPerDraft == \A p, q \in Preps : OrderExists(p) /\ OrderExists(q) => p = q

-----------------------------------------------------------------------------
(* What is true between the steps of requests and of the worker, from      *)
(* which the safety properties above follow.                               *)

(* Transaction t created the order of authorization p.                     *)
Created(t, p) == t \in TxIds /\ chain[t].prep = p /\ chain[t].fate = "success"

RegTrue(g) == g.status = "confirmed" => Created(g.tx, g.prep)
DraftTrue(d) == d.status = "triggered" => OrderExists(d.order)

(* Only issued authorizations are on chain, and only mined ones projected. *)
ChainInv ==
  /\ \A t \in TxIds : IF chain[t].fate = "none" THEN chain[t].prep = NoPrep
                                                ELSE chain[t].prep \in Issued
  /\ \A t \in projected : chain[t].fate = "success"

(* A record that is prepared was never sent; one that may be triggered     *)
(* again is on the history as reopened.                                    *)
StoreInv ==
  /\ RegTrue(reg) /\ DraftTrue(draft)
  /\ reg.status # "none" => reg.prep \in Issued
  /\ reg.status = "prepared" => Sent(reg.prep) = {}
  /\ RetryingFailedTrigger(reg) => reg.prep \in reopened

(* The lock of the draft belongs to the request inside triggerOrder.       *)
LockInv == \A r \in Requests : pc[r] \in TriggerSteps => lock = r

GoodPrepared == reg.status = "prepared" /\ ~isPrepareExpired(reg.prep)

(* A prepare that saw a registration writes over it only if that one is no *)
(* longer good, or a newer one has been issued.                            *)
PrepareInv(r) ==
  (pc[r] = "prepared" /\ job[r].reg.status # "none") =>
    /\ Issued # {}
    /\ (\E p \in Preps : Issued = {p}) => ~GoodPrepared

(* Inside triggerOrder the request holds an issued authorization, that was *)
(* sent before only if the request found it reopened.                      *)
TriggerInv(r) ==
  /\ pc[r] \in TriggerSteps => job[r].prep \in Issued
  /\ pc[r] \in TriggerSteps \ {"trigger"} =>
       job[r].reg.prep \in Issued /\ job[r].reg.status = "submitted"
  /\ (pc[r] \in { "submitting", "broadcast" } /\ Sent(job[r].reg.prep) # {}) => job[r].again
  /\ pc[r] \in { "broadcast", "receipt", "broadcasted" } =>
       ~(reg.status = "prepared" /\ reg.prep = job[r].reg.prep)
  /\ pc[r] = "receipt" =>
       job[r].result.tx \in TxIds /\ chain[job[r].result.tx].prep = job[r].reg.prep
  /\ pc[r] = "broadcasted" =>
       /\ job[r].result.status \notin { "none", "prepared" }
       /\ job[r].result.status = "confirmed" => Created(job[r].result.tx, job[r].reg.prep)

RequestInv(r) == DraftTrue(job[r].draft) /\ PrepareInv(r) /\ TriggerInv(r)

(* The worker's copy is never of a prepared record, and what it concluded  *)
(* is a fact of the chain.                                                 *)
WorkerInv ==
  /\ RegTrue(wjob.reg) /\ DraftTrue(wjob.draft)
  /\ wpc \in { "check", "receipt", "projection", "store" } =>
       wjob.reg.prep \in Issued /\ wjob.reg.status \in { "submitted", "indexing", "failed" }
  /\ (wpc = "store" /\ wjob.kind = "confirmed") => Created(wjob.reg.tx, wjob.reg.prep)

IndInv ==
  /\ TriggerConstants
  /\ TypeOK /\ ChainInv /\ StoreInv /\ LockInv /\ WorkerInv
  /\ \A r \in Requests : RequestInv(r)
=============================================================================
