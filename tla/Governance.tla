----------------------------- MODULE Governance ----------------------------
(***************************************************************************)
(* Identity governance of one subject: the review that admits it, the      *)
(* registration and revocation of its on-chain binding, the ledger of the  *)
(* broadcasts, and the governance lane of the reconcile worker, which      *)
(* alone updates the ledger and raises the alert for a reverted            *)
(* revocation.                                                             *)
(*                                                                         *)
(* Requests run concurrently: every read or write of the store is a step,  *)
(* and putReview replaces the whole review by one built from an earlier    *)
(* read.  The requests modelled name the same review, account, binding and *)
(* reason; reviews of other subjects are independent.                      *)
(***************************************************************************)
EXTENDS Integers, Sequences, FiniteSets, ReconcileOutcome

CONSTANTS
  Requests,            \* concurrent requests of the governance service
  Operations,          \* the operations they call: "save", "register", "revoke"
  ReviewInputs,        \* statuses an operator may ask for in saveReview
  TxIds,               \* transaction hashes of the registry
  NoTx,
  SimulatedTx,         \* the hash the simulated adapter derives from a request
  WaitForReceipt,      \* txConfirmations > 0
  TxTimeout,           \* RECONCILE_TX_TIMEOUT_MS
  MaxClock, MaxLogs, MaxFaults  \* bounds: time, ledger entries, crashes and failing calls

ReviewStatus == { "draft", "submitted", "approved_for_broadcast", "approved",
                  "restricted", "rejected", "revoked" }

ASSUME GovernanceConstants ==
  /\ NoTx \notin TxIds /\ SimulatedTx \notin TxIds /\ NoTx # SimulatedTx
  /\ Operations \subseteq { "save", "register", "revoke" }
  /\ ReviewInputs \subseteq ReviewStatus
  /\ WaitForReceipt \in BOOLEAN
  /\ TxTimeout \in Nat \ {0}
  /\ MaxClock \in Nat /\ MaxLogs \in Nat /\ MaxFaults \in Nat

VARIABLES
  clock, faults,
  onChain,     \* whether the broadcaster is configured (else the simulated adapter)
  review,      \* status of the subject's review, or "none"
  logs,        \* governance_tx_log, in the order of the worker's scan
  snapshots,   \* descriptors persisted for the public descriptor endpoint
  alerts,      \* ledger entries with a governance_revoke_reverted audit record
  chain,       \* registry transactions: request and fate
  binding,     \* status of the binding in the registry
  projected,   \* transactions the indexer has projected
  pc, job,     \* step and local variables of each request
  wpc, wjob    \* step and local variables of the worker

vars == << clock, faults, onChain, review, logs, snapshots, alerts, chain,
           binding, projected, pc, job, wpc, wjob >>
envVars     == << clock, onChain >>
storeVars   == << review, logs, snapshots >>
chainVars   == << chain, binding, projected >>
requestVars == << pc, job >>
workerVars  == << wpc, wjob, alerts >>

Actions == { "register_identity", "revoke_identity" }

(* A chain request.  With account, binding and reason given, it is told    *)
(* apart by the review it hashes: the descriptor hash covers the status    *)
(* the review had, the reason hash the review as marked revoked, if any.   *)
Request == [ action : Actions, review : ReviewStatus \cup {"none"} ]
NoTarget == [ action |-> "register_identity", review |-> "none" ]

Hashes == TxIds \cup { NoTx, SimulatedTx }
BroadcastStatus == { "simulated_tx", "submitted", "confirmed", "failed" }
LogStatus == { "pending", "indexing", "confirmed", "failed" }
Log == [ request : Request, tx : Hashes, status : LogStatus,
         broadcast : BroadcastStatus, createdAt : Nat, checked : Kinds \cup {"none"} ]

Steps == { "idle", "save", "mark", "snapshot", "duplicate", "broadcast", "receipt",
           "broadcasted", "append" }
Job == [ request : Request, review : ReviewStatus \cup {"none"},
         tx : Hashes, broadcast : BroadcastStatus ]
NoJob == [ request |-> NoTarget, review |-> "none", tx |-> NoTx, broadcast |-> "failed" ]

WorkerSteps == { "idle", "scan", "check", "receipt", "projection", "store", "alert" }
WorkerJob == [ index : Nat, kind : Kinds, before : LogStatus ]
NoWorkerJob == [ index |-> 0, kind |-> "pending", before |-> "pending" ]

(* Reviews, ledger entries and local copies hold what the service's types  *)
(* allow, and the scan stays inside the ledger.                            *)
TypeOK ==
  /\ clock \in Nat /\ faults \in Nat /\ onChain \in BOOLEAN
  /\ review \in ReviewStatus \cup {"none"}
  /\ logs \in Seq(Log)
  /\ snapshots \in SUBSET ReviewStatus
  /\ alerts \in SUBSET DOMAIN logs
  /\ chain \in [ TxIds -> [ request : Request,
                            fate : { "none", "pending", "success", "reverted" } ] ]
  /\ binding \in { "active", "revoked" }
  /\ projected \in SUBSET TxIds
  /\ pc \in [ Requests -> Steps ] /\ job \in [ Requests -> Job ]
  /\ wpc \in WorkerSteps /\ wjob \in WorkerJob
  /\ wjob.index \in DOMAIN logs \cup {0}

(* The binding was registered earlier; its review may predate this store.  *)
Init ==
  /\ clock = 0 /\ faults = 0
  /\ onChain \in BOOLEAN
  /\ review \in { "none", "approved" }
  /\ logs = << >> /\ snapshots = {} /\ alerts = {}
  /\ chain = [ t \in TxIds |-> [ request |-> NoTarget, fate |-> "none" ] ]
  /\ binding = "active" /\ projected = {}
  /\ pc = [ r \in Requests |-> "idle" ] /\ job = [ r \in Requests |-> NoJob ]
  /\ wpc = "idle" /\ wjob = NoWorkerJob

-----------------------------------------------------------------------------
At(r, step) == pc[r] = step
Goto(r, step, locals) ==
  /\ pc'  = [ pc  EXCEPT ![r] = step ]
  /\ job' = [ job EXCEPT ![r] = locals ]
Return(r) == Goto(r, "idle", NoJob)

PutReview(status) == review' = status

Accepts(r, operation) ==
  /\ At(r, "idle")
  /\ operation \in Operations
  /\ Len(logs) < MaxLogs

Approved == { "approved_for_broadcast", "approved", "restricted" }

canTransitionReviewStatus(from, to) ==
  \/ from = to
  \/ to = "revoked" /\ from # "revoked"
  \/ from \in { "draft", "submitted" } /\ to \in Approved \cup { "draft", "submitted", "rejected" }
  \/ from \in { "approved_for_broadcast", "approved" } /\ to = "restricted"
  \/ from = "restricted" /\ to \in { "approved_for_broadcast", "approved", "rejected" }
  \/ from = "rejected" /\ to \in { "draft", "submitted" }

(* saveReview without a review id: one write, and any status.              *)
CreateReview(r, status) ==
  /\ Accepts(r, "save")
  /\ review = "none"
  /\ PutReview(status)
  /\ UNCHANGED << envVars, faults, logs, snapshots, chainVars, requestVars, workerVars >>

(* saveReview of the existing review: the transition is checked against    *)
(* the status read; what is refused changes nothing.                       *)
SaveRead(r, status) ==
  /\ Accepts(r, "save")
  /\ review # "none"
  /\ canTransitionReviewStatus(review, status)
  /\ Goto(r, "save", [ NoJob EXCEPT !.review = status ])
  /\ UNCHANGED << envVars, faults, storeVars, chainVars, workerVars >>

SaveStore(r) ==
  /\ At(r, "save")
  /\ PutReview(job[r].review)
  /\ Return(r)
  /\ UNCHANGED << envVars, faults, logs, snapshots, chainVars, workerVars >>

(* registerIdentity needs a review that admits the subject.                *)
RegisterRead(r) ==
  /\ Accepts(r, "register")
  /\ review \in Approved
  /\ Goto(r, "snapshot", [ NoJob EXCEPT
       !.request = [ action |-> "register_identity", review |-> review ],
       !.review = review ])
  /\ UNCHANGED << envVars, faults, storeVars, chainVars, workerVars >>

persistIdentityDescriptorSnapshot(r) ==
  /\ At(r, "snapshot")
  /\ snapshots' = snapshots \cup { job[r].request.review }
  /\ Goto(r, "duplicate", job[r])
  /\ UNCHANGED << envVars, faults, review, logs, chainVars, workerVars >>

(* revokeIdentity marks the review first, if there is one to mark.         *)
RevokeRead(r) ==
  /\ Accepts(r, "revoke")
  /\ Goto(r, IF review \in { "none", "revoked" } THEN "duplicate" ELSE "mark",
          [ NoJob EXCEPT
            !.request = [ action |-> "revoke_identity",
                          review |-> IF review = "none" THEN "none" ELSE "revoked" ],
            !.review = review ])
  /\ UNCHANGED << envVars, faults, storeVars, chainVars, workerVars >>

markReviewRevoked(r) ==
  /\ At(r, "mark")
  /\ PutReview("revoked")
  /\ Goto(r, "duplicate", job[r])
  /\ UNCHANGED << envVars, faults, logs, snapshots, chainVars, workerVars >>

(* A broadcast that went out answers a replay of its request.              *)
isReusableDuplicateLog(l) == l.broadcast \in { "simulated_tx", "submitted", "confirmed" }

Duplicate(request) ==
  \E l \in DOMAIN logs : logs[l].request = request /\ isReusableDuplicateLog(logs[l])

AnsweredByLog(r) ==
  /\ At(r, "duplicate")
  /\ Duplicate(job[r].request)
  /\ Return(r)
  /\ UNCHANGED << envVars, faults, storeVars, chainVars, workerVars >>

NotADuplicate(r) ==
  /\ At(r, "duplicate")
  /\ ~Duplicate(job[r].request)
  /\ Goto(r, "broadcast", job[r])
  /\ UNCHANGED << envVars, faults, storeVars, chainVars, workerVars >>

-----------------------------------------------------------------------------
(* The chain adapters; safeBroadcast turns what they throw into "failed".  *)
Broadcasted(r, status, tx) ==
  Goto(r, "broadcasted", [ job[r] EXCEPT !.broadcast = status, !.tx = tx ])

EnterPool(t, request) ==
  /\ chain[t].fate = "none"
  /\ chain' = [ chain EXCEPT ![t] = [ request |-> request, fate |-> "pending" ] ]

simulatedBroadcast(r) ==
  /\ At(r, "broadcast")
  /\ ~onChain
  /\ Broadcasted(r, "simulated_tx", SimulatedTx)
  /\ UNCHANGED << envVars, faults, storeVars, chainVars, workerVars >>

(* A failed preflight, or writeContract fails: no hash.                    *)
BroadcastRefused(r) ==
  /\ At(r, "broadcast")
  /\ onChain
  /\ Broadcasted(r, "failed", NoTx)
  /\ UNCHANGED << envVars, faults, storeVars, chainVars, workerVars >>

BroadcastSent(r, t) ==
  /\ At(r, "broadcast")
  /\ onChain
  /\ EnterPool(t, job[r].request)
  /\ IF WaitForReceipt THEN Goto(r, "receipt", [ job[r] EXCEPT !.tx = t ])
                       ELSE Broadcasted(r, "submitted", t)
  /\ UNCHANGED << envVars, faults, storeVars, binding, projected, workerVars >>

(* The node takes the transaction but writeContract throws: no hash.       *)
BroadcastUnseen(r, t) ==
  /\ At(r, "broadcast")
  /\ onChain
  /\ faults < MaxFaults
  /\ EnterPool(t, job[r].request)
  /\ Broadcasted(r, "failed", NoTx)
  /\ faults' = faults + 1
  /\ UNCHANGED << envVars, storeVars, binding, projected, workerVars >>

ReceiptAwaited(r) ==
  /\ At(r, "receipt")
  /\ chain[job[r].tx].fate # "pending"
  /\ Broadcasted(r, IF chain[job[r].tx].fate = "reverted" THEN "failed" ELSE "confirmed",
                 job[r].tx)
  /\ UNCHANGED << envVars, faults, storeVars, chainVars, workerVars >>

(* waitForTransactionReceipt gives up: failed, with the hash.              *)
ReceiptTimeout(r) ==
  /\ At(r, "receipt")
  /\ faults < MaxFaults
  /\ Broadcasted(r, "failed", job[r].tx)
  /\ faults' = faults + 1
  /\ UNCHANGED << envVars, storeVars, chainVars, workerVars >>

-----------------------------------------------------------------------------
(* A failed revocation puts back the review it had read.                   *)
Restores(j) ==
  /\ j.request.action = "revoke_identity"
  /\ j.broadcast = "failed"
  /\ j.review \notin { "none", "revoked" }

RestoreReview(r) ==
  /\ At(r, "broadcasted")
  /\ Restores(job[r])
  /\ PutReview(job[r].review)
  /\ Goto(r, "append", job[r])
  /\ UNCHANGED << envVars, faults, logs, snapshots, chainVars, workerVars >>

txLogStatusFromBroadcast(status) ==
  CASE status \in { "simulated_tx", "submitted" } -> "pending"
    [] status = "confirmed" -> "indexing"
    [] status = "failed" -> "failed"

identityLog(j) ==
  [ request |-> j.request, tx |-> j.tx, status |-> txLogStatusFromBroadcast(j.broadcast),
    broadcast |-> j.broadcast, createdAt |-> clock, checked |-> "none" ]

AppendLog(r) ==
  /\ At(r, "append") \/ (At(r, "broadcasted") /\ ~Restores(job[r]))
  /\ logs' = Append(logs, identityLog(job[r]))
  /\ Return(r)
  /\ UNCHANGED << envVars, faults, review, snapshots, chainVars, workerVars >>

-----------------------------------------------------------------------------
(* The governance lane: one pass scans the ledger once, in order.          *)
isSimulatedGovernanceLog(l) == l.tx = SimulatedTx

(* Fault: failed entries are never looked at again.                        *)
ReconcileableInFlight(l) == l.status \in { "pending", "indexing" }

isReconcileableGovernanceLog(l) ==
  IF l.status = "failed" THEN l.tx # NoTx ELSE l.status \in { "pending", "indexing" }

timedOut(l) == clock - l.createdAt >= TxTimeout

(* Fault: any projected transaction for the request confirms the entry.    *)
ProjectionOfRequest(l) == \E t \in projected : chain[t].request.action = l.request.action

(* The binding is projected as registered, or revoked, by the entry's own  *)
(* transaction.                                                            *)
governanceProjectionConfirmation(l) ==
  \E t \in projected : t = l.tx /\ chain[t].request.action = l.request.action

WorkerGoto(step, locals) == wpc' = step /\ wjob' = locals
Current == logs[wjob.index]
Concluded(kind) == WorkerGoto("store", [ wjob EXCEPT !.kind = kind ])
WorkerKeeps == UNCHANGED << envVars, faults, storeVars, alerts, chainVars, requestVars >>

WorkerStarts ==
  /\ wpc = "idle"
  /\ logs # << >>
  /\ WorkerGoto("scan", NoWorkerJob)
  /\ WorkerKeeps

(* The next entry the pass has to check, or the end of the pass.           *)
WorkerScans ==
  /\ wpc = "scan"
  /\ LET due == { l \in wjob.index + 1 .. Len(logs) :
                    isReconcileableGovernanceLog(logs[l]) /\ ~isSimulatedGovernanceLog(logs[l]) }
     IN IF due = {} THEN WorkerGoto("idle", NoWorkerJob)
        ELSE \E l \in due :
               /\ \A m \in due : l <= m
               /\ WorkerGoto("check", [ NoWorkerJob EXCEPT !.index = l,
                                                           !.before = logs[l].status ])
  /\ WorkerKeeps

WorkerCheck ==
  /\ wpc = "check"
  /\ IF governanceProjectionConfirmation(Current) THEN Concluded("confirmed")
                                                  ELSE WorkerGoto("receipt", wjob)
  /\ WorkerKeeps

ReceiptOf(t) ==
  CASE chain[t].fate = "success"  -> { "success", "unknown" }
    [] chain[t].fate = "reverted" -> { "reverted", "unknown" }
    [] OTHER                      -> { "missing" }

WorkerReceipt ==
  /\ wpc = "receipt"
  /\ \E receipt \in ReceiptOf(Current.tx) :
       IF receipt = "success" THEN WorkerGoto("projection", wjob)
                              ELSE Concluded(FromReceipt(receipt, timedOut(Current)))
  /\ WorkerKeeps

WorkerProjection ==
  /\ wpc = "projection"
  /\ Concluded(FromProjection(governanceProjectionConfirmation(Current)))
  /\ WorkerKeeps

(* Fault: the broadcast status of an entry never changes once sent.        *)
BroadcastStatusKept(current, kind) == current

governanceBroadcastStatusFromOutcome(current, kind) ==
  CASE kind = "confirmed" -> "confirmed"
    [] kind \in { "failed", "stale_pending" } -> "failed"
    [] OTHER -> current

RaisesAlert(l, kind, before) ==
  /\ l.request.action = "revoke_identity"
  /\ kind = "failed"
  /\ before # "failed"

WorkerStore ==
  LET updated == [ Current EXCEPT
        !.status = GovernanceStatus(wjob.kind),
        !.broadcast = governanceBroadcastStatusFromOutcome(Current.broadcast, wjob.kind),
        !.checked = wjob.kind ]
  IN
  /\ wpc = "store"
  /\ logs' = [ logs EXCEPT ![wjob.index] = updated ]
  /\ WorkerGoto(IF RaisesAlert(updated, wjob.kind, wjob.before) THEN "alert" ELSE "scan", wjob)
  /\ UNCHANGED << envVars, faults, review, snapshots, alerts, chainVars, requestVars >>

WorkerAlert ==
  /\ wpc = "alert"
  /\ alerts' = alerts \cup { wjob.index }
  /\ WorkerGoto("scan", wjob)
  /\ UNCHANGED << envVars, faults, storeVars, chainVars, requestVars >>

(* A call of the check throws: the entry is skipped.                       *)
WorkerSkips ==
  /\ wpc \in { "check", "receipt", "projection", "store", "alert" }
  /\ faults < MaxFaults
  /\ faults' = faults + 1
  /\ WorkerGoto("scan", wjob)
  /\ UNCHANGED << envVars, storeVars, alerts, chainVars, requestVars >>

-----------------------------------------------------------------------------
(* A store write of a request throws and the request answers with an error. *)
RequestFails(r) ==
  /\ pc[r] \in { "save", "mark", "snapshot", "broadcasted", "append" }
  /\ faults < MaxFaults
  /\ faults' = faults + 1
  /\ Return(r)
  /\ UNCHANGED << envVars, storeVars, chainVars, workerVars >>

Crash ==
  /\ faults < MaxFaults
  /\ faults' = faults + 1
  /\ pc' = [ r \in Requests |-> "idle" ] /\ job' = [ r \in Requests |-> NoJob ]
  /\ WorkerGoto("idle", NoWorkerJob)
  /\ UNCHANGED << envVars, storeVars, alerts, chainVars >>

Tick ==
  /\ clock < MaxClock
  /\ clock' = clock + 1
  /\ UNCHANGED << onChain, faults, storeVars, chainVars, requestVars, workerVars >>

(* The registry revokes a binding once; a registration may also revert.    *)
Mine(t) ==
  /\ chain[t].fate = "pending"
  /\ \/ /\ chain[t].request.action = "revoke_identity" /\ binding = "active"
        /\ chain' = [ chain EXCEPT ![t].fate = "success" ]
        /\ binding' = "revoked"
     \/ /\ chain[t].request.action = "register_identity"
        /\ chain' = [ chain EXCEPT ![t].fate = "success" ]
        /\ UNCHANGED binding
     \/ /\ chain' = [ chain EXCEPT ![t].fate = "reverted" ]
        /\ UNCHANGED binding
  /\ UNCHANGED << envVars, faults, storeVars, projected, requestVars, workerVars >>

Index(t) ==
  /\ chain[t].fate = "success"
  /\ t \notin projected
  /\ projected' = projected \cup {t}
  /\ UNCHANGED << envVars, faults, storeVars, chain, binding, requestVars, workerVars >>

RequestStep(r) ==
  \/ \E status \in ReviewInputs : CreateReview(r, status) \/ SaveRead(r, status)
  \/ SaveStore(r)
  \/ RegisterRead(r) \/ persistIdentityDescriptorSnapshot(r)
  \/ RevokeRead(r) \/ markReviewRevoked(r)
  \/ AnsweredByLog(r) \/ NotADuplicate(r)
  \/ simulatedBroadcast(r) \/ BroadcastRefused(r)
  \/ \E t \in TxIds : BroadcastSent(r, t) \/ BroadcastUnseen(r, t)
  \/ ReceiptAwaited(r) \/ ReceiptTimeout(r)
  \/ RestoreReview(r) \/ AppendLog(r) \/ RequestFails(r)

Worker == \/ WorkerStarts \/ WorkerScans \/ WorkerCheck \/ WorkerReceipt
          \/ WorkerProjection \/ WorkerStore \/ WorkerAlert

Next ==
  \/ \E r \in Requests : RequestStep(r)
  \/ Worker \/ WorkerSkips \/ Crash \/ Tick
  \/ \E t \in TxIds : Mine(t) \/ Index(t)

Spec == Init /\ [][Next]_vars

(* The worker polls, and each of its calls returns or throws.              *)
FairSpec == Spec /\ WF_vars(Worker)

-----------------------------------------------------------------------------
(* The ledger never claims more than the chain did: an entry is confirmed, *)
(* by the adapter or by the worker, only if its own transaction succeeded  *)
(* and carried its request.                                                *)
LedgerTruth ==
  \A l \in DOMAIN logs :
    "confirmed" \in { logs[l].status, logs[l].broadcast } =>
      /\ logs[l].tx \in TxIds
      /\ chain[logs[l].tx] = [ request |-> logs[l].request, fate |-> "success" ]

(* Whatever a registration put on chain can be read back: its descriptor   *)
(* was persisted before the transaction left, whatever crashed since.      *)
DescriptorPublished ==
  \A t \in TxIds :
    (chain[t].fate # "none" /\ chain[t].request.action = "register_identity")
      => chain[t].request.review \in snapshots

(* The reissued revocation the alert asks for is really broadcast: an      *)
(* entry whose transaction was found reverted, or given up as timed out,   *)
(* never answers a later request.                                          *)
ReplayNotShadowed ==
  \A l \in DOMAIN logs :
    logs[l].checked \in { "failed", "stale_pending" } => ~isReusableDuplicateLog(logs[l])

(* The revoke alert is raised only for a revocation the chain rejected.    *)
AlertTruthful ==
  \A l \in alerts : /\ logs[l].request.action = "revoke_identity"
                    /\ chain[logs[l].tx].fate = "reverted"

(* What the ledger and the alerts say of a transaction, the chain did.     *)
GovernanceTruth == TypeOK /\ LedgerTruth /\ AlertTruthful

(* What was asked for is there: the descriptor of every registration that  *)
(* left, and a new broadcast for every request whose last one failed.      *)
RequestsHonoured == DescriptorPublished /\ ReplayNotShadowed

(* A late success heals the ledger: an entry whose transaction is          *)
(* projected is eventually confirmed, even if it had been marked failed.   *)
LogHeals ==
  \A l \in 1 .. MaxLogs + Cardinality(Requests) :
    (l \in DOMAIN logs /\ logs[l].tx \in projected)
      ~> (l \in DOMAIN logs /\ logs[l].status = "confirmed")

-----------------------------------------------------------------------------
(* What is true between the steps of a request and of a pass, from which   *)
(* the invariants above follow.                                            *)

(* t is in the pool or mined, with this request.                           *)
Carries(t, request) ==
  t \in TxIds /\ chain[t].request = request /\ chain[t].fate # "none"

(* A registration reaches its broadcast with its descriptor persisted.     *)
RequestPrepared(r) ==
  /\ pc[r] = "snapshot" => job[r].request.review \in ReviewStatus
  /\ pc[r] = "mark" => job[r].request.action = "revoke_identity"
  /\ (pc[r] \in { "duplicate", "broadcast" } /\ job[r].request.action = "register_identity")
       => job[r].request.review \in snapshots

(* A request holds the hash of its own transaction, or none.               *)
RequestSent(r) ==
  /\ pc[r] = "receipt" => Carries(job[r].tx, job[r].request)
  /\ pc[r] \in { "broadcasted", "append" } =>
       /\ \/ job[r].tx = SimulatedTx /\ job[r].broadcast = "simulated_tx"
          \/ job[r].tx = NoTx /\ job[r].broadcast = "failed"
          \/ Carries(job[r].tx, job[r].request)
       /\ job[r].broadcast = "confirmed" =>
            job[r].tx \in TxIds /\ chain[job[r].tx].fate = "success"

(* So does an entry, and one without a hash has failed.                    *)
LogSound(l) ==
  \/ logs[l].tx = SimulatedTx
  \/ logs[l].tx = NoTx /\ logs[l].status = "failed"
  \/ Carries(logs[l].tx, logs[l].request)

(* The conclusion of the worker is a fact of the chain when it is stored.  *)
ConclusionTrue ==
  /\ wpc \in { "check", "receipt", "projection", "store", "alert" } =>
       wjob.index \in DOMAIN logs /\ Current.tx \in TxIds
  /\ (wpc = "store" /\ wjob.kind = "confirmed") => Current.tx \in projected
  /\ (wpc = "store" /\ wjob.kind = "failed") => chain[Current.tx].fate = "reverted"
  /\ wpc = "alert" => /\ Current.request.action = "revoke_identity"
                      /\ chain[Current.tx].fate = "reverted"

ProjectedSucceeded == \A t \in projected : chain[t].fate = "success"
AlertedOnChain == \A l \in alerts : logs[l].tx \in TxIds

IndInv ==
  /\ GovernanceTruth /\ RequestsHonoured
  /\ \A r \in Requests : RequestPrepared(r) /\ RequestSent(r)
  /\ \A l \in DOMAIN logs : LogSound(l)
  /\ ConclusionTrue /\ ProjectedSucceeded /\ AlertedOnChain
=============================================================================
