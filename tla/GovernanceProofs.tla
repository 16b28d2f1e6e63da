-------------------------- MODULE GovernanceProofs -------------------------
(***************************************************************************)
(* Theorems about the governance service and its reconcile lane, for any   *)
(* number of concurrent requests, transactions, crashes and failing calls: *)
(* IndInv of Governance is inductive, and the safety properties follow     *)
(* from it.                                                                *)
(***************************************************************************)
EXTENDS Governance, TLAPS

-----------------------------------------------------------------------------
(* Types.                                                                  *)
Fates == { "none", "pending", "success", "reverted" }
Tx == [ request : Request, fate : Fates ]

LEMMA NoJobType == NoJob \in Job /\ NoWorkerJob \in WorkerJob
BY DEF NoJob, Job, NoTarget, Request, Actions, Hashes, BroadcastStatus, NoWorkerJob, WorkerJob,
       Kinds, LogStatus

(* What a request appends, and what the worker stores, is a ledger entry.  *)
LEMMA LogTypes ==
  /\ \A j \in Job : clock \in Nat =>
       /\ identityLog(j) \in Log
       /\ identityLog(j).request = j.request /\ identityLog(j).tx = j.tx
       /\ identityLog(j).broadcast = j.broadcast /\ identityLog(j).checked = "none"
       /\ identityLog(j).status = "failed" <=> j.broadcast = "failed"
       /\ identityLog(j).status # "confirmed"
  /\ \A b \in BroadcastStatus, kind \in Kinds :
       /\ GovernanceStatus(kind) \in LogStatus
       /\ governanceBroadcastStatusFromOutcome(b, kind) \in BroadcastStatus
  /\ \A receipt \in Receipts, late \in BOOLEAN : FromReceipt(receipt, late) \in Kinds
<1>1. \A b \in BroadcastStatus : /\ txLogStatusFromBroadcast(b) \in LogStatus
                                 /\ txLogStatusFromBroadcast(b) = "failed" <=> b = "failed"
                                 /\ txLogStatusFromBroadcast(b) # "confirmed"
  BY DEF BroadcastStatus, txLogStatusFromBroadcast, LogStatus
<1>2. \A j \in Job : clock \in Nat =>
       /\ identityLog(j) \in Log
       /\ identityLog(j).request = j.request /\ identityLog(j).tx = j.tx
       /\ identityLog(j).broadcast = j.broadcast /\ identityLog(j).checked = "none"
       /\ identityLog(j).status = txLogStatusFromBroadcast(j.broadcast)
  BY <1>1 DEF identityLog, Log, Job
<1>3. \A j \in Job : j.broadcast \in BroadcastStatus
  BY DEF Job
<1>4. \A b \in BroadcastStatus, kind \in Kinds :
       /\ GovernanceStatus(kind) \in LogStatus
       /\ governanceBroadcastStatusFromOutcome(b, kind) \in BroadcastStatus
  BY DEF GovernanceStatus, governanceBroadcastStatusFromOutcome, BroadcastStatus, Kinds, LogStatus
<1>5. \A receipt \in Receipts, late \in BOOLEAN : FromReceipt(receipt, late) \in Kinds
  BY DEF FromReceipt, Receipts, Kinds, Unseen
<1> QED BY <1>1, <1>2, <1>3, <1>4, <1>5

(* A step of one request leaves the others alone.                          *)
LEMMA GotoUpdates ==
  ASSUME pc \in [ Requests -> Steps ], job \in [ Requests -> Job ],
         NEW r \in Requests, NEW s \in Steps, NEW j \in Job, Goto(r, s, j)
  PROVE  /\ pc' \in [ Requests -> Steps ] /\ job' \in [ Requests -> Job ]
         /\ pc'[r] = s /\ job'[r] = j
         /\ \A q \in Requests : q # r => pc'[q] = pc[q] /\ job'[q] = job[q]
BY DEF Goto

-----------------------------------------------------------------------------
(* What a step may do to the chain, the ledger and the snapshots.          *)

(* The registry keeps what it took: a transaction keeps its request, and a *)
(* mined one its fate.                                                     *)
ChainKept ==
  /\ chain' \in [ TxIds -> Tx ]
  /\ \A t \in TxIds :
       /\ chain[t].fate # "none" =>
            chain'[t].request = chain[t].request /\ chain'[t].fate # "none"
       /\ chain[t].fate \in { "success", "reverted" } => chain'[t] = chain[t]

LEMMA EnterPoolKeeps ==
  ASSUME TypeOK, NEW t \in TxIds, NEW request \in Request, EnterPool(t, request)
  PROVE  /\ ChainKept
         /\ chain'[t] = [ request |-> request, fate |-> "pending" ]
         /\ \A u \in TxIds : u # t => chain'[u] = chain[u]
BY DEF TypeOK, EnterPool, ChainKept, Tx, Fates

LEMMA MineKeeps ==
  ASSUME TypeOK, NEW t \in TxIds, Mine(t)
  PROVE  /\ ChainKept /\ binding' \in { "active", "revoked" }
         /\ chain[t].fate # "none"
         /\ \A u \in TxIds : chain'[u].request = chain[u].request
         /\ \A u \in TxIds : u # t => chain'[u] = chain[u]
<1>1. \E f \in { "success", "reverted" } : chain' = [ chain EXCEPT ![t].fate = f ]
  BY DEF Mine
<1>2. chain \in [ TxIds -> Tx ] /\ chain[t].fate = "pending" /\ chain[t] \in Tx
  BY DEF Mine, TypeOK, Tx, Fates
<1>3. binding' \in { "active", "revoked" }
  BY DEF Mine, TypeOK
<1> QED BY <1>1, <1>2, <1>3 DEF ChainKept, Tx, Fates

(* Entries are added at the end and keep their request and hash.           *)
LogsKept ==
  /\ logs' \in Seq(Log) /\ Len(logs') >= Len(logs)
  /\ \A l \in DOMAIN logs : /\ l \in DOMAIN logs'
                            /\ logs'[l].request = logs[l].request /\ logs'[l].tx = logs[l].tx

LEMMA AppendKeeps ==
  ASSUME TypeOK, NEW r \in Requests, AppendLog(r)
  PROVE  /\ LogsKept /\ Len(logs') = Len(logs) + 1
         /\ DOMAIN logs' = DOMAIN logs \cup { Len(logs) + 1 }
         /\ \A l \in DOMAIN logs : logs'[l] = logs[l]
         /\ logs'[Len(logs) + 1] = identityLog(job[r])
<1>1. identityLog(job[r]) \in Log /\ logs \in Seq(Log)
  BY LogTypes DEF TypeOK
<1>2. PICK e \in Log : e = identityLog(job[r])
  BY <1>1
<1>3. logs' = Append(logs, e)
  BY <1>2 DEF AppendLog
<1> QED BY <1>1, <1>2, <1>3 DEF LogsKept

LEMMA StoreKeeps ==
  ASSUME TypeOK, ConclusionTrue, WorkerStore
  PROVE  /\ LogsKept /\ Len(logs') = Len(logs) /\ DOMAIN logs' = DOMAIN logs
         /\ wjob.index \in DOMAIN logs
         /\ \A l \in DOMAIN logs : l # wjob.index => logs'[l] = logs[l]
         /\ logs'[wjob.index].request = Current.request
         /\ logs'[wjob.index].tx = Current.tx
         /\ logs'[wjob.index].checked = wjob.kind
         /\ logs'[wjob.index].status = GovernanceStatus(wjob.kind)
         /\ logs'[wjob.index].broadcast
              = governanceBroadcastStatusFromOutcome(Current.broadcast, wjob.kind)
<1> DEFINE updated == [ Current EXCEPT
        !.status = GovernanceStatus(wjob.kind),
        !.broadcast = governanceBroadcastStatusFromOutcome(Current.broadcast, wjob.kind),
        !.checked = wjob.kind ]
<1>1. /\ wjob.index \in DOMAIN logs /\ logs \in Seq(Log) /\ wjob.kind \in Kinds
      /\ logs' = [ logs EXCEPT ![wjob.index] = updated ]
  BY DEF TypeOK, WorkerStore, ConclusionTrue, WorkerJob
<1>2. Current \in Log
  BY <1>1 DEF Current
<1>3. Current.broadcast \in BroadcastStatus
  BY <1>2 DEF Log
<1>4. /\ GovernanceStatus(wjob.kind) \in LogStatus
      /\ governanceBroadcastStatusFromOutcome(Current.broadcast, wjob.kind) \in BroadcastStatus
  BY <1>1, <1>3, LogTypes
<1>5. /\ updated \in Log
      /\ updated.request = Current.request /\ updated.tx = Current.tx
      /\ updated.checked = wjob.kind /\ updated.status = GovernanceStatus(wjob.kind)
      /\ updated.broadcast = governanceBroadcastStatusFromOutcome(Current.broadcast, wjob.kind)
  BY <1>1, <1>2, <1>4 DEF Log
<1> HIDE DEF updated
<1> QED BY <1>1, <1>5 DEF LogsKept, Current

-----------------------------------------------------------------------------
(* Steps of a request that only read the chain and the ledger.             *)

(* What remains to be shown of such a step is its request's own part.      *)
LEMMA RequestOnly ==
  ASSUME IndInv, NEW r \in Requests,
         UNCHANGED << logs, chain, projected, alerts, wpc, wjob >>, snapshots \subseteq snapshots',
         \A q \in Requests : q # r => pc'[q] = pc[q] /\ job'[q] = job[q],
         TypeOK', RequestPrepared(r)', RequestSent(r)'
  PROVE  IndInv'
<1>1. LedgerTruth' /\ AlertTruthful' /\ ReplayNotShadowed'
  BY DEF IndInv, GovernanceTruth, RequestsHonoured, LedgerTruth, AlertTruthful, ReplayNotShadowed,
         isReusableDuplicateLog
<1>2. DescriptorPublished'
  BY DEF IndInv, RequestsHonoured, DescriptorPublished
<1>3. \A q \in Requests : RequestPrepared(q)' /\ RequestSent(q)'
  <2> SUFFICES ASSUME NEW q \in Requests, q # r PROVE RequestPrepared(q)' /\ RequestSent(q)'
    OBVIOUS
  <2>1. RequestPrepared(q) /\ RequestSent(q) /\ pc'[q] = pc[q] /\ job'[q] = job[q]
    BY DEF IndInv
  <2> QED BY <2>1 DEF RequestPrepared, RequestSent, Carries
<1>4. \A l \in DOMAIN logs' : LogSound(l)'
  BY DEF IndInv, LogSound, Carries
<1>5. ConclusionTrue' /\ ProjectedSucceeded' /\ AlertedOnChain'
  BY DEF IndInv, ConclusionTrue, ProjectedSucceeded, AlertedOnChain, Current
<1> QED BY <1>1, <1>2, <1>3, <1>4, <1>5 DEF IndInv, GovernanceTruth, RequestsHonoured

(* The types, when a request moves to step s with locals j.                *)
LEMMA RequestTypes ==
  ASSUME TypeOK, NEW r \in Requests, NEW s \in Steps, NEW j \in Job, Goto(r, s, j),
         UNCHANGED << clock, onChain, logs, chain, projected, binding, alerts, wpc, wjob >>,
         faults' \in Nat, review' \in ReviewStatus \cup {"none"}, snapshots' \in SUBSET ReviewStatus
  PROVE  TypeOK'
BY GotoUpdates DEF TypeOK

LEMMA ReadSteps ==
  ASSUME IndInv, NEW r \in Requests, NEW s \in Steps, NEW j \in Job, Goto(r, s, j),
         UNCHANGED << envVars, logs, snapshots, chainVars, workerVars >>,
         faults' = faults \/ faults' = faults + 1,
         review' \in ReviewStatus \cup {"none"},
         s = "snapshot" => j.request.review \in ReviewStatus,
         s = "mark" => j.request.action = "revoke_identity",
         (s \in { "duplicate", "broadcast" } /\ j.request.action = "register_identity")
            => j.request.review \in snapshots,
         s # "receipt",
         s \in { "broadcasted", "append" } =>
           /\ \/ j.tx = SimulatedTx /\ j.broadcast = "simulated_tx"
              \/ j.tx = NoTx /\ j.broadcast = "failed"
              \/ Carries(j.tx, j.request)
           /\ j.broadcast = "confirmed" => j.tx \in TxIds /\ chain[j.tx].fate = "success"
  PROVE  IndInv'
<1>0. TypeOK
  BY DEF IndInv, GovernanceTruth
<1>1. /\ UNCHANGED << logs, chain, projected, alerts, wpc, wjob, snapshots, clock, onChain, binding >>
      /\ faults' \in Nat /\ snapshots' \in SUBSET ReviewStatus
  BY <1>0 DEF envVars, chainVars, workerVars, TypeOK
<1>2. TypeOK'
  BY <1>0, <1>1, RequestTypes
<1>3. /\ pc'[r] = s /\ job'[r] = j
      /\ \A q \in Requests : q # r => pc'[q] = pc[q] /\ job'[q] = job[q]
  BY <1>0, GotoUpdates DEF TypeOK
<1>4. RequestPrepared(r)'
  BY <1>1, <1>3 DEF RequestPrepared
<1>5. RequestSent(r)'
  BY <1>1, <1>3 DEF RequestSent, Carries
<1> QED BY <1>1, <1>2, <1>3, <1>4, <1>5, RequestOnly

LEMMA SaveSteps ==
  ASSUME IndInv, NEW r \in Requests, NEW status \in ReviewInputs,
         CreateReview(r, status) \/ SaveRead(r, status) \/ SaveStore(r)
  PROVE  IndInv'
<1>0. /\ TypeOK /\ status \in ReviewStatus /\ job[r] \in Job
      /\ RequestPrepared(r) /\ RequestSent(r)
  BY GovernanceConstants DEF IndInv, GovernanceTruth, TypeOK
<1>1. CASE CreateReview(r, status)
  <2>1. /\ UNCHANGED << logs, chain, projected, alerts, wpc, wjob, snapshots, clock, onChain, binding,
                        pc, job, faults >>
        /\ review' \in ReviewStatus
    BY <1>0, <1>1 DEF CreateReview, PutReview, envVars, chainVars, workerVars, requestVars
  <2>2. TypeOK'
    BY <1>0, <2>1 DEF TypeOK
  <2>3. RequestPrepared(r)' /\ RequestSent(r)'
    BY <1>0, <2>1 DEF RequestPrepared, RequestSent, Carries
  <2> QED BY <2>1, <2>2, <2>3, RequestOnly
<1>2. CASE SaveRead(r, status)
  <2>1. /\ [ NoJob EXCEPT !.review = status ] \in Job /\ "save" \in Steps
        /\ review' \in ReviewStatus \cup {"none"}
    BY <1>0, <1>2, NoJobType DEF Job, Steps, SaveRead, storeVars, TypeOK
  <2>2. UNCHANGED << envVars, logs, snapshots, chainVars, workerVars, faults >>
    BY <1>2 DEF SaveRead, storeVars
  <2> QED BY <1>2, <2>1, <2>2, ReadSteps DEF SaveRead
<1>3. CASE SaveStore(r)
  <2>1. NoJob \in Job /\ "idle" \in Steps /\ review' \in ReviewStatus \cup {"none"}
    BY <1>0, <1>3, NoJobType DEF Job, Steps, SaveStore, PutReview
  <2> QED BY <1>3, <2>1, ReadSteps DEF SaveStore, Return
<1> QED BY <1>1, <1>2, <1>3

LEMMA ReadActions ==
  ASSUME IndInv, NEW r \in Requests,
         \/ RegisterRead(r) \/ RevokeRead(r) \/ markReviewRevoked(r)
         \/ AnsweredByLog(r) \/ NotADuplicate(r)
  PROVE  IndInv'
<1>0. /\ TypeOK /\ job[r] \in Job /\ review \in ReviewStatus \cup {"none"}
      /\ RequestPrepared(r) /\ RequestSent(r)
  BY DEF IndInv, GovernanceTruth, TypeOK
<1>1. CASE RegisterRead(r)
  <2> DEFINE j == [ NoJob EXCEPT
       !.request = [ action |-> "register_identity", review |-> review ], !.review = review ]
  <2>1. review \in ReviewStatus
    BY <1>1 DEF RegisterRead, Approved, ReviewStatus
  <2>2. /\ j \in Job /\ "snapshot" \in Steps /\ j.request.review \in ReviewStatus
    BY <2>1, NoJobType DEF Job, Steps, Request, Actions
  <2>3. UNCHANGED << envVars, logs, snapshots, chainVars, workerVars, faults, review >>
    BY <1>1 DEF RegisterRead, storeVars
  <2>4. Goto(r, "snapshot", j)
    BY <1>1 DEF RegisterRead
  <2> HIDE DEF j
  <2> QED BY <1>0, <2>2, <2>3, <2>4, ReadSteps
<1>2. CASE RevokeRead(r)
  <2> DEFINE j == [ NoJob EXCEPT
            !.request = [ action |-> "revoke_identity",
                          review |-> IF review = "none" THEN "none" ELSE "revoked" ],
            !.review = review ]
             s == IF review \in { "none", "revoked" } THEN "duplicate" ELSE "mark"
  <2>1. /\ j \in Job /\ s \in { "duplicate", "mark" } /\ s \in Steps
        /\ j.request.action = "revoke_identity"
    BY <1>0, NoJobType DEF Job, Steps, Request, Actions, ReviewStatus
  <2>3. UNCHANGED << envVars, logs, snapshots, chainVars, workerVars, faults, review >>
    BY <1>2 DEF RevokeRead, storeVars
  <2>4. Goto(r, s, j)
    BY <1>2 DEF RevokeRead
  <2> HIDE DEF j, s
  <2> QED BY <1>0, <2>1, <2>3, <2>4, ReadSteps
<1>3. CASE markReviewRevoked(r)
  <2>1. /\ "duplicate" \in Steps /\ review' \in ReviewStatus
        /\ job[r].request.action = "revoke_identity"
    BY <1>0, <1>3 DEF Steps, markReviewRevoked, PutReview, ReviewStatus, RequestPrepared, At
  <2> QED BY <1>0, <1>3, <2>1, ReadSteps DEF markReviewRevoked
<1>4. CASE AnsweredByLog(r)
  <2>1. /\ NoJob \in Job /\ "idle" \in Steps
        /\ UNCHANGED << envVars, logs, snapshots, chainVars, workerVars, faults, review >>
    BY <1>4, NoJobType DEF Steps, AnsweredByLog, storeVars
  <2> QED BY <1>0, <1>4, <2>1, ReadSteps DEF AnsweredByLog, Return
<1>5. CASE NotADuplicate(r)
  <2>1. /\ "broadcast" \in Steps
        /\ UNCHANGED << envVars, logs, snapshots, chainVars, workerVars, faults, review >>
        /\ job[r].request.action = "register_identity" => job[r].request.review \in snapshots
    BY <1>0, <1>5 DEF Steps, NotADuplicate, storeVars, RequestPrepared, At
  <2> QED BY <1>0, <1>5, <2>1, ReadSteps DEF NotADuplicate
<1> QED BY <1>1, <1>2, <1>3, <1>4, <1>5

LEMMA AnswerActions ==
  ASSUME IndInv, NEW r \in Requests,
         \/ simulatedBroadcast(r) \/ BroadcastRefused(r)
         \/ ReceiptAwaited(r) \/ ReceiptTimeout(r) \/ RestoreReview(r) \/ RequestFails(r)
  PROVE  IndInv'
<1>0. /\ TypeOK /\ job[r] \in Job /\ review \in ReviewStatus \cup {"none"}
      /\ RequestPrepared(r) /\ RequestSent(r) /\ chain \in [ TxIds -> Tx ]
  BY DEF IndInv, GovernanceTruth, TypeOK, Tx, Fates
<1>s. "broadcasted" \in Steps /\ "append" \in Steps /\ "idle" \in Steps
  BY DEF Steps
<1>b. \A status \in BroadcastStatus, tx \in Hashes :
        LET j == [ job[r] EXCEPT !.broadcast = status, !.tx = tx ]
        IN  j \in Job /\ j.request = job[r].request /\ j.broadcast = status /\ j.tx = tx
  BY <1>0 DEF Job
<1>1. CASE simulatedBroadcast(r)
  <2>1. /\ UNCHANGED << envVars, logs, snapshots, chainVars, workerVars, faults, review >>
        /\ "simulated_tx" \in BroadcastStatus /\ SimulatedTx \in Hashes
    BY <1>1 DEF simulatedBroadcast, storeVars, BroadcastStatus, Hashes
  <2> QED BY <1>0, <1>s, <1>b, <1>1, <2>1, ReadSteps DEF simulatedBroadcast, Broadcasted
<1>2. CASE BroadcastRefused(r)
  <2>1. /\ UNCHANGED << envVars, logs, snapshots, chainVars, workerVars, faults, review >>
        /\ "failed" \in BroadcastStatus /\ NoTx \in Hashes
    BY <1>2 DEF BroadcastRefused, storeVars, BroadcastStatus, Hashes
  <2> QED BY <1>0, <1>s, <1>b, <1>2, <2>1, ReadSteps DEF BroadcastRefused, Broadcasted
<1>3. CASE ReceiptAwaited(r)
  <2>1. /\ UNCHANGED << envVars, logs, snapshots, chainVars, workerVars, faults, review >>
        /\ Carries(job[r].tx, job[r].request) /\ chain[job[r].tx].fate # "pending"
        /\ job[r].tx \in Hashes
    BY <1>0, <1>3 DEF ReceiptAwaited, storeVars, RequestSent, At, Carries, Hashes
  <2>2. chain[job[r].tx].fate \in { "success", "reverted" }
    BY <1>0, <2>1 DEF Carries, Tx, Fates
  <2>3. PICK status \in { "failed", "confirmed" } :
          /\ Broadcasted(r, status, job[r].tx)
          /\ status = "confirmed" => chain[job[r].tx].fate = "success"
    BY <1>3, <2>2 DEF ReceiptAwaited
  <2>4. status \in BroadcastStatus /\ job[r].tx \in TxIds
    BY <2>1, <2>3 DEF BroadcastStatus, Carries
  <2>5. PICK j \in Job : /\ Goto(r, "broadcasted", j)
                        /\ j.request = job[r].request /\ j.broadcast = status /\ j.tx = job[r].tx
    <3>1. [ job[r] EXCEPT !.broadcast = status, !.tx = job[r].tx ] \in Job
      BY <1>0, <2>4 DEF Job
    <3> QED BY <1>0, <2>3, <3>1 DEF Broadcasted, Job
  <2>6. Carries(j.tx, j.request) /\ (j.broadcast = "confirmed" => chain[j.tx].fate = "success")
    BY <2>1, <2>3, <2>5 DEF Carries
  <2> QED BY <1>0, <1>s, <2>1, <2>4, <2>5, <2>6, ReadSteps
<1>4. CASE ReceiptTimeout(r)
  <2>1. /\ UNCHANGED << envVars, logs, snapshots, chainVars, workerVars, review >>
        /\ Carries(job[r].tx, job[r].request)
        /\ job[r].tx \in Hashes /\ "failed" \in BroadcastStatus
    BY <1>0, <1>4 DEF ReceiptTimeout, storeVars, RequestSent, At, Carries, Hashes, BroadcastStatus
  <2>2. PICK j \in Job : /\ Goto(r, "broadcasted", j)
                        /\ j.request = job[r].request /\ j.broadcast = "failed" /\ j.tx = job[r].tx
    <3>1. [ job[r] EXCEPT !.broadcast = "failed", !.tx = job[r].tx ] \in Job
      BY <1>0, <2>1 DEF Job
    <3> QED BY <1>0, <1>4, <3>1 DEF ReceiptTimeout, Broadcasted, Job
  <2>3. Carries(j.tx, j.request)
    BY <2>1, <2>2 DEF Carries
  <2> QED BY <1>0, <1>s, <1>4, <2>1, <2>2, <2>3, ReadSteps DEF ReceiptTimeout
<1>5. CASE RestoreReview(r)
  <2>1. /\ review' \in ReviewStatus \cup {"none"}
        /\ \/ job[r].tx = SimulatedTx /\ job[r].broadcast = "simulated_tx"
           \/ job[r].tx = NoTx /\ job[r].broadcast = "failed"
           \/ Carries(job[r].tx, job[r].request)
        /\ job[r].broadcast = "confirmed" =>
             job[r].tx \in TxIds /\ chain[job[r].tx].fate = "success"
    BY <1>0, <1>5 DEF RestoreReview, PutReview, Job, RequestSent, At
  <2> QED BY <1>0, <1>s, <1>5, <2>1, ReadSteps DEF RestoreReview
<1>6. CASE RequestFails(r)
  <2>1. UNCHANGED << envVars, logs, snapshots, chainVars, workerVars, review >>
    BY <1>6 DEF RequestFails, storeVars
  <2> QED BY <1>0, <1>s, <1>6, <2>1, NoJobType, ReadSteps DEF RequestFails, Return
<1> QED BY <1>1, <1>2, <1>3, <1>4, <1>5, <1>6

(* The descriptor is persisted before the request goes on.                 *)
LEMMA SnapshotStep ==
  ASSUME IndInv, NEW r \in Requests, persistIdentityDescriptorSnapshot(r)
  PROVE  IndInv'
<1>0. /\ TypeOK /\ job[r] \in Job /\ RequestPrepared(r) /\ "duplicate" \in Steps
  BY DEF IndInv, GovernanceTruth, TypeOK, Steps
<1>1. /\ UNCHANGED << clock, onChain, logs, chain, projected, binding, alerts, wpc, wjob, faults, review >>
      /\ job[r].request.review \in ReviewStatus
      /\ snapshots' = snapshots \cup { job[r].request.review }
      /\ Goto(r, "duplicate", job[r])
  BY <1>0 DEF persistIdentityDescriptorSnapshot, envVars, chainVars, workerVars, RequestPrepared, At
<1>2. snapshots' \in SUBSET ReviewStatus /\ faults' \in Nat /\ review' \in ReviewStatus \cup {"none"}
  BY <1>0, <1>1 DEF TypeOK
<1>3. TypeOK'
  BY <1>0, <1>1, <1>2, RequestTypes
<1>4. /\ pc'[r] = "duplicate" /\ job'[r] = job[r]
      /\ \A q \in Requests : q # r => pc'[q] = pc[q] /\ job'[q] = job[q]
  BY <1>0, <1>1, GotoUpdates DEF TypeOK
<1>5. RequestPrepared(r)' /\ RequestSent(r)'
  BY <1>1, <1>4 DEF RequestPrepared, RequestSent
<1> QED BY <1>1, <1>3, <1>4, <1>5, RequestOnly

-----------------------------------------------------------------------------
(* Steps that change the chain.                                            *)

(* What was true of transactions stays true when the chain moves on.       *)
LEMMA ChainMoves ==
  ASSUME IndInv, ChainKept, UNCHANGED << logs, snapshots, alerts, wpc, wjob >>,
         projected' \subseteq TxIds, projected \subseteq projected',
         \A t \in projected' : chain'[t].fate = "success",
         TypeOK', DescriptorPublished',
         NEW S \in SUBSET Requests,
         \A q \in Requests \ S : pc'[q] = pc[q] /\ job'[q] = job[q],
         \A q \in S : RequestPrepared(q)' /\ RequestSent(q)'
  PROVE  IndInv'
<1>0. TypeOK /\ \A t, request : Carries(t, request) => Carries(t, request)'
  BY DEF IndInv, GovernanceTruth, ChainKept, Carries
<1>1. LedgerTruth'
  BY DEF IndInv, GovernanceTruth, LedgerTruth, ChainKept
<1>2. AlertTruthful' /\ AlertedOnChain'
  BY DEF IndInv, GovernanceTruth, AlertTruthful, AlertedOnChain, ChainKept
<1>3. ReplayNotShadowed'
  BY DEF IndInv, RequestsHonoured, ReplayNotShadowed, isReusableDuplicateLog
<1>4. \A q \in Requests : RequestPrepared(q)' /\ RequestSent(q)'
  <2> SUFFICES ASSUME NEW q \in Requests, q \notin S PROVE RequestPrepared(q)' /\ RequestSent(q)'
    OBVIOUS
  <2>1. RequestPrepared(q) /\ RequestSent(q) /\ pc'[q] = pc[q] /\ job'[q] = job[q]
    BY DEF IndInv
  <2>2. RequestPrepared(q)'
    BY <2>1 DEF RequestPrepared
  <2>3. RequestSent(q)'
    <3>1. (pc[q] = "receipt")' => Carries(job[q].tx, job[q].request)'
      BY <1>0, <2>1 DEF RequestSent
    <3>2. (pc[q] \in { "broadcasted", "append" })' =>
            \/ job[q].tx = SimulatedTx /\ job[q].broadcast = "simulated_tx"
            \/ job[q].tx = NoTx /\ job[q].broadcast = "failed"
            \/ Carries(job[q].tx, job[q].request)'
      BY <1>0, <2>1 DEF RequestSent
    <3>3. (pc[q] \in { "broadcasted", "append" })' => (job[q].broadcast = "confirmed" =>
            job[q].tx \in TxIds /\ chain'[job[q].tx].fate = "success")
      BY <2>1 DEF RequestSent, ChainKept
    <3> QED BY <2>1, <3>1, <3>2, <3>3 DEF RequestSent
  <2> QED BY <2>2, <2>3
<1>5. \A l \in DOMAIN logs' : LogSound(l)'
  BY <1>0 DEF IndInv, LogSound
<1>6. ConclusionTrue'
  BY DEF IndInv, ConclusionTrue, Current, ChainKept
<1>7. ProjectedSucceeded'
  BY DEF ProjectedSucceeded
<1> QED BY <1>1, <1>2, <1>3, <1>4, <1>5, <1>6, <1>7 DEF IndInv, GovernanceTruth, RequestsHonoured

LEMMA BroadcastActions ==
  ASSUME IndInv, NEW r \in Requests, NEW t \in TxIds, BroadcastSent(r, t) \/ BroadcastUnseen(r, t)
  PROVE  IndInv'
<1>0. /\ TypeOK /\ job[r] \in Job /\ RequestPrepared(r) /\ job[r].request \in Request
      /\ pc[r] = "broadcast" /\ EnterPool(t, job[r].request) /\ t \in Hashes /\ NoTx \in Hashes
  BY DEF IndInv, GovernanceTruth, TypeOK, Job, BroadcastSent, BroadcastUnseen, At, Hashes
<1>1. /\ UNCHANGED << clock, onChain, review, logs, snapshots, binding, projected, alerts, wpc, wjob >>
      /\ faults' \in Nat
  BY <1>0 DEF BroadcastSent, BroadcastUnseen, envVars, storeVars, workerVars, TypeOK
<1>2. /\ ChainKept /\ chain'[t] = [ request |-> job[r].request, fate |-> "pending" ]
      /\ \A u \in TxIds : u # t => chain'[u] = chain[u]
  BY <1>0, EnterPoolKeeps
<1>3. PICK s \in Steps, j \in Job :
        /\ Goto(r, s, j) /\ j.request = job[r].request
        /\ \/ s = "receipt" /\ j.tx = t
           \/ s = "broadcasted" /\ j.tx = t /\ j.broadcast = "submitted"
           \/ s = "broadcasted" /\ j.tx = NoTx /\ j.broadcast = "failed"
  <2>1. CASE BroadcastSent(r, t) /\ WaitForReceipt
    <3>1. [ job[r] EXCEPT !.tx = t ] \in Job /\ "receipt" \in Steps
      BY <1>0 DEF Job, Steps
    <3> QED BY <1>0, <2>1, <3>1 DEF BroadcastSent, Job
  <2>2. CASE BroadcastSent(r, t) /\ ~WaitForReceipt
    <3>1. [ job[r] EXCEPT !.broadcast = "submitted", !.tx = t ] \in Job /\ "broadcasted" \in Steps
      BY <1>0 DEF Job, Steps, BroadcastStatus
    <3> QED BY <1>0, <2>2, <3>1 DEF BroadcastSent, Broadcasted, Job
  <2>3. CASE BroadcastUnseen(r, t)
    <3>1. [ job[r] EXCEPT !.broadcast = "failed", !.tx = NoTx ] \in Job /\ "broadcasted" \in Steps
      BY <1>0 DEF Job, Steps, BroadcastStatus
    <3> QED BY <1>0, <2>3, <3>1 DEF BroadcastUnseen, Broadcasted, Job
  <2> QED BY <2>1, <2>2, <2>3
<1>4. /\ pc' \in [ Requests -> Steps ] /\ job' \in [ Requests -> Job ]
      /\ pc'[r] = s /\ job'[r] = j
      /\ \A q \in Requests : q # r => pc'[q] = pc[q] /\ job'[q] = job[q]
  BY <1>0, <1>3, GotoUpdates DEF TypeOK
<1>5. TypeOK'
  BY <1>0, <1>1, <1>2, <1>4 DEF TypeOK, ChainKept, Tx, Fates
<1>6. DescriptorPublished'
  <2> SUFFICES ASSUME NEW u \in TxIds, chain'[u].fate # "none",
                      chain'[u].request.action = "register_identity"
               PROVE  chain'[u].request.review \in snapshots
    BY <1>1 DEF DescriptorPublished
  <2>1. CASE u = t
    BY <1>0, <1>2, <2>1 DEF RequestPrepared
  <2>2. CASE u # t
    BY <1>2, <2>2 DEF IndInv, RequestsHonoured, DescriptorPublished
  <2> QED BY <2>1, <2>2
<1>7. RequestPrepared(r)' /\ RequestSent(r)'
  <2>1. RequestPrepared(r)'
    BY <1>3, <1>4 DEF RequestPrepared
  <2> QED BY <1>2, <1>3, <1>4, <2>1 DEF RequestSent, Carries
<1>8. projected' \subseteq TxIds /\ \A u \in projected' : chain'[u].fate = "success"
  BY <1>0, <1>1, <1>2 DEF IndInv, ProjectedSucceeded, TypeOK, ChainKept
<1>9. /\ {r} \in SUBSET Requests
      /\ \A q \in Requests \ {r} : pc'[q] = pc[q] /\ job'[q] = job[q]
      /\ \A q \in {r} : RequestPrepared(q)' /\ RequestSent(q)'
  BY <1>4, <1>7
<1> QED BY <1>1, <1>2, <1>5, <1>6, <1>8, <1>9, ChainMoves

LEMMA MineStep ==
  ASSUME IndInv, NEW t \in TxIds, Mine(t) \/ Index(t)
  PROVE  IndInv'
<1>0. TypeOK
  BY DEF IndInv, GovernanceTruth
<1>1. UNCHANGED << clock, onChain, faults, review, logs, snapshots, alerts, wpc, wjob, pc, job >>
  BY DEF Mine, Index, envVars, storeVars, workerVars, requestVars
<1>r. /\ {} \in SUBSET Requests
      /\ \A q \in Requests \ {} : pc'[q] = pc[q] /\ job'[q] = job[q]
      /\ \A q \in {} : RequestPrepared(q)' /\ RequestSent(q)'
  BY <1>1
<1>2. CASE Mine(t)
  <2>1. /\ ChainKept /\ binding' \in { "active", "revoked" } /\ projected' = projected
        /\ \A u \in TxIds : chain'[u].request = chain[u].request
        /\ \A u \in TxIds : chain'[u].fate # "none" => chain[u].fate # "none"
    BY <1>0, <1>2, MineKeeps DEF Mine
  <2>2. TypeOK'
    BY <1>0, <1>1, <2>1 DEF TypeOK, ChainKept, Tx, Fates
  <2>3. DescriptorPublished'
    BY <1>1, <2>1 DEF IndInv, RequestsHonoured, DescriptorPublished
  <2>4. projected' \subseteq TxIds /\ \A u \in projected' : chain'[u].fate = "success"
    BY <1>0, <2>1 DEF IndInv, ProjectedSucceeded, TypeOK, ChainKept
  <2> QED BY <1>1, <1>r, <2>1, <2>2, <2>3, <2>4, ChainMoves
<1>3. CASE Index(t)
  <2>1. /\ ChainKept /\ UNCHANGED << chain, binding >> /\ projected' = projected \cup {t}
        /\ chain[t].fate = "success"
    BY <1>0, <1>3 DEF Index, ChainKept, TypeOK, Tx, Fates
  <2>2. TypeOK'
    BY <1>0, <1>1, <2>1 DEF TypeOK
  <2>3. DescriptorPublished'
    BY <1>1, <2>1 DEF IndInv, RequestsHonoured, DescriptorPublished
  <2>4. projected' \subseteq TxIds /\ \A u \in projected' : chain'[u].fate = "success"
    BY <1>0, <2>1 DEF IndInv, ProjectedSucceeded, TypeOK
  <2> QED BY <1>1, <1>r, <2>1, <2>2, <2>3, <2>4, ChainMoves
<1> QED BY <1>2, <1>3

-----------------------------------------------------------------------------
(* Steps that change the ledger.                                           *)
LEMMA AppendStep ==
  ASSUME IndInv, NEW r \in Requests, AppendLog(r)
  PROVE  IndInv'
<1>0. /\ TypeOK /\ job[r] \in Job /\ RequestSent(r) /\ clock \in Nat
      /\ pc[r] \in { "broadcasted", "append" }
  BY DEF IndInv, GovernanceTruth, TypeOK, AppendLog, At
<1>1. /\ UNCHANGED << clock, onChain, faults, review, snapshots, chain, binding, projected,
                      alerts, wpc, wjob >>
      /\ Goto(r, "idle", NoJob)
  BY DEF AppendLog, envVars, chainVars, workerVars, Return
<1>2. /\ pc' \in [ Requests -> Steps ] /\ job' \in [ Requests -> Job ]
      /\ pc'[r] = "idle"
      /\ \A q \in Requests : q # r => pc'[q] = pc[q] /\ job'[q] = job[q]
  <2>1. "idle" \in Steps /\ NoJob \in Job
    BY NoJobType DEF Steps
  <2> QED BY <1>0, <1>1, <2>1, GotoUpdates DEF TypeOK
<1>3. /\ LogsKept /\ DOMAIN logs' = DOMAIN logs \cup { Len(logs) + 1 }
      /\ \A l \in DOMAIN logs : logs'[l] = logs[l]
      /\ logs'[Len(logs) + 1] = identityLog(job[r])
  BY <1>0, AppendKeeps
<1>4. PICK n : /\ n = Len(logs) + 1 /\ DOMAIN logs' = DOMAIN logs \cup { n }
               /\ logs'[n].request = job[r].request /\ logs'[n].tx = job[r].tx
               /\ logs'[n].broadcast = job[r].broadcast /\ logs'[n].checked = "none"
               /\ logs'[n].status = "failed" <=> job[r].broadcast = "failed"
               /\ logs'[n].status # "confirmed"
  BY <1>0, <1>3, LogTypes
<1>5. TypeOK'
  BY <1>0, <1>1, <1>2, <1>3 DEF TypeOK, LogsKept
<1>6. LedgerTruth'
  <2> SUFFICES ASSUME NEW l \in DOMAIN logs', "confirmed" \in { logs'[l].status, logs'[l].broadcast }
               PROVE  /\ logs'[l].tx \in TxIds
                      /\ chain[logs'[l].tx] = [ request |-> logs'[l].request, fate |-> "success" ]
    BY <1>1 DEF LedgerTruth
  <2>1. CASE l = n
    <3>1. job[r].broadcast = "confirmed" /\ job[r].tx \in TxIds
      BY <1>0, <1>4, <2>1 DEF RequestSent
    <3>2. chain[job[r].tx] \in Tx /\ chain[job[r].tx].fate = "success"
      BY <1>0, <3>1 DEF RequestSent, TypeOK, Tx, Fates
    <3>3. chain[job[r].tx].request = job[r].request
      BY <1>0, <3>1, GovernanceConstants DEF RequestSent, Carries
    <3> QED BY <1>4, <2>1, <3>1, <3>2, <3>3 DEF Tx
  <2>2. CASE l \in DOMAIN logs
    BY <1>3, <2>2 DEF IndInv, GovernanceTruth, LedgerTruth
  <2> QED BY <1>4, <2>1, <2>2
<1>7. AlertTruthful' /\ AlertedOnChain'
  BY <1>0, <1>1, <1>3 DEF IndInv, GovernanceTruth, AlertTruthful, AlertedOnChain, TypeOK
<1>8. ReplayNotShadowed'
  BY <1>3, <1>4 DEF IndInv, RequestsHonoured, ReplayNotShadowed, isReusableDuplicateLog
<1>9. DescriptorPublished' /\ ProjectedSucceeded'
  BY <1>1 DEF IndInv, RequestsHonoured, DescriptorPublished, ProjectedSucceeded
<1>10. \A q \in Requests : RequestPrepared(q)' /\ RequestSent(q)'
  BY <1>1, <1>2 DEF IndInv, RequestPrepared, RequestSent, Carries
<1>11. \A l \in DOMAIN logs' : LogSound(l)'
  <2>1. LogSound(n)'
    BY <1>0, <1>1, <1>4 DEF LogSound, RequestSent, Carries
  <2>2. \A l \in DOMAIN logs : LogSound(l)'
    BY <1>1, <1>3 DEF IndInv, LogSound, Carries
  <2> QED BY <1>4, <2>1, <2>2
<1>12. ConclusionTrue'
  BY <1>1, <1>3 DEF IndInv, ConclusionTrue, Current
<1> QED BY <1>5, <1>6, <1>7, <1>8, <1>9, <1>10, <1>11, <1>12 DEF IndInv, GovernanceTruth, RequestsHonoured

-----------------------------------------------------------------------------
(* Steps of the worker.                                                    *)

(* The worker's own part is all that its reads have to keep.               *)
LEMMA WorkerOnly ==
  ASSUME IndInv, faults' \in Nat,
         UNCHANGED << envVars, storeVars, alerts, chainVars, requestVars >>,
         NEW s \in WorkerSteps, NEW j \in WorkerJob, WorkerGoto(s, j),
         j.index \in DOMAIN logs \cup {0},
         s \in { "check", "receipt", "projection", "store", "alert" } =>
           j.index \in DOMAIN logs /\ logs[j.index].tx \in TxIds,
         (s = "store" /\ j.kind = "confirmed") => logs[j.index].tx \in projected,
         (s = "store" /\ j.kind = "failed") => chain[logs[j.index].tx].fate = "reverted",
         s # "alert"
  PROVE  IndInv'
<1>0. /\ UNCHANGED << clock, onChain, review, logs, snapshots, alerts, chain, binding, projected, pc, job >>
      /\ wpc' = s /\ wjob' = j
  BY DEF envVars, storeVars, chainVars, requestVars, WorkerGoto
<1>1. TypeOK'
  BY <1>0 DEF IndInv, GovernanceTruth, TypeOK
<1>2. LedgerTruth' /\ AlertTruthful' /\ ReplayNotShadowed' /\ DescriptorPublished'
  BY <1>0 DEF IndInv, GovernanceTruth, RequestsHonoured, LedgerTruth, AlertTruthful,
              ReplayNotShadowed, DescriptorPublished, isReusableDuplicateLog
<1>3. \A q \in Requests : RequestPrepared(q)' /\ RequestSent(q)'
  BY <1>0 DEF IndInv, RequestPrepared, RequestSent, Carries
<1>4. \A l \in DOMAIN logs' : LogSound(l)'
  BY <1>0 DEF IndInv, LogSound, Carries
<1>5. ProjectedSucceeded' /\ AlertedOnChain'
  BY <1>0 DEF IndInv, ProjectedSucceeded, AlertedOnChain
<1>6. ConclusionTrue'
  BY <1>0 DEF ConclusionTrue, Current
<1> QED BY <1>1, <1>2, <1>3, <1>4, <1>5, <1>6 DEF IndInv, GovernanceTruth, RequestsHonoured

LEMMA WorkerReads ==
  ASSUME IndInv,
         \/ WorkerStarts \/ WorkerScans \/ WorkerCheck \/ WorkerReceipt \/ WorkerProjection
         \/ WorkerSkips
  PROVE  IndInv'
<1>0. /\ TypeOK /\ ConclusionTrue /\ wjob \in WorkerJob /\ logs \in Seq(Log)
      /\ wjob.index \in DOMAIN logs \cup {0} /\ faults \in Nat /\ faults + 1 \in Nat
      /\ chain \in [ TxIds -> Tx ]
  BY DEF IndInv, GovernanceTruth, TypeOK, Tx, Fates
<1>s. /\ "idle" \in WorkerSteps /\ "scan" \in WorkerSteps /\ "check" \in WorkerSteps
      /\ "receipt" \in WorkerSteps /\ "projection" \in WorkerSteps /\ "store" \in WorkerSteps
  BY DEF WorkerSteps
<1>c. \A kind \in Kinds : LET j == [ wjob EXCEPT !.kind = kind ]
                          IN  j \in WorkerJob /\ j.index = wjob.index /\ j.kind = kind
  BY <1>0 DEF WorkerJob
<1>1. CASE WorkerStarts
  <2>1. /\ faults' \in Nat /\ UNCHANGED << envVars, storeVars, alerts, chainVars, requestVars >>
        /\ WorkerGoto("scan", NoWorkerJob) /\ NoWorkerJob.index = 0
    BY <1>0, <1>1 DEF WorkerStarts, WorkerKeeps, NoWorkerJob
  <2> QED BY <1>s, <2>1, NoJobType, WorkerOnly
<1>2. CASE WorkerScans
  <2>1. faults' \in Nat /\ UNCHANGED << envVars, storeVars, alerts, chainVars, requestVars >>
    BY <1>0, <1>2 DEF WorkerScans, WorkerKeeps
  <2>2. CASE WorkerGoto("idle", NoWorkerJob)
    <3>1. NoWorkerJob.index = 0
      BY DEF NoWorkerJob
    <3> QED BY <1>s, <2>1, <2>2, <3>1, NoJobType, WorkerOnly
  <2>3. CASE \E l \in wjob.index + 1 .. Len(logs) :
               /\ isReconcileableGovernanceLog(logs[l]) /\ ~isSimulatedGovernanceLog(logs[l])
               /\ WorkerGoto("check", [ NoWorkerJob EXCEPT !.index = l, !.before = logs[l].status ])
    <3>1. PICK l \in wjob.index + 1 .. Len(logs) :
               /\ isReconcileableGovernanceLog(logs[l]) /\ ~isSimulatedGovernanceLog(logs[l])
               /\ WorkerGoto("check", [ NoWorkerJob EXCEPT !.index = l, !.before = logs[l].status ])
      BY <2>3
    <3>2. l \in DOMAIN logs /\ l \in Nat
      BY <1>0 DEF WorkerJob
    <3>3. logs[l] \in Log
      BY <1>0, <3>2
    <3>4. logs[l].status \in LogStatus
      BY <3>3 DEF Log
    <3>5. logs[l].tx \in TxIds
      BY <3>1, <3>2, GovernanceConstants DEF IndInv, LogSound, isReconcileableGovernanceLog,
         isSimulatedGovernanceLog, Carries
    <3>6. PICK j \in WorkerJob : WorkerGoto("check", j) /\ j.index = l
      <4>1. [ NoWorkerJob EXCEPT !.index = l, !.before = logs[l].status ] \in WorkerJob
        BY <3>2, <3>4, NoJobType DEF WorkerJob
      <4> QED BY <3>1, <4>1 DEF NoWorkerJob
    <3> QED BY <1>s, <2>1, <3>2, <3>5, <3>6, WorkerOnly
  <2> QED BY <1>2, <2>2, <2>3 DEF WorkerScans
<1>3. CASE WorkerCheck
  <2>1. /\ faults' \in Nat /\ UNCHANGED << envVars, storeVars, alerts, chainVars, requestVars >>
        /\ wjob.index \in DOMAIN logs /\ logs[wjob.index].tx \in TxIds
    BY <1>0, <1>3 DEF WorkerCheck, WorkerKeeps, ConclusionTrue, Current
  <2>2. CASE ~governanceProjectionConfirmation(Current)
    <3>1. WorkerGoto("receipt", wjob)
      BY <1>3, <2>2 DEF WorkerCheck
    <3> QED BY <1>0, <1>s, <2>1, <3>1, WorkerOnly
  <2>3. CASE governanceProjectionConfirmation(Current)
    <3>1. /\ "confirmed" \in Kinds /\ WorkerGoto("store", [ wjob EXCEPT !.kind = "confirmed" ])
          /\ logs[wjob.index].tx \in projected
      BY <1>3, <2>3 DEF WorkerCheck, Concluded, Kinds, governanceProjectionConfirmation, Current
    <3> QED BY <1>0, <1>s, <1>c, <2>1, <3>1, WorkerOnly
  <2> QED BY <2>2, <2>3
<1>4. CASE WorkerReceipt
  <2>1. /\ faults' \in Nat /\ UNCHANGED << envVars, storeVars, alerts, chainVars, requestVars >>
        /\ wjob.index \in DOMAIN logs /\ logs[wjob.index].tx \in TxIds
    BY <1>0, <1>4 DEF WorkerReceipt, WorkerKeeps, ConclusionTrue, Current
  <2>2. PICK receipt \in ReceiptOf(Current.tx) :
          IF receipt = "success" THEN WorkerGoto("projection", wjob)
                                 ELSE Concluded(FromReceipt(receipt, timedOut(Current)))
    BY <1>4 DEF WorkerReceipt
  <2>3. CASE receipt = "success"
    BY <1>0, <1>s, <2>1, <2>2, <2>3, WorkerOnly
  <2>4. CASE receipt # "success"
    <3>1. /\ receipt \in Receipts
          /\ receipt = "reverted" => chain[logs[wjob.index].tx].fate = "reverted"
      BY <1>0, <2>1, <2>2, <2>4 DEF ReceiptOf, Receipts, Current, Tx, Fates
    <3>2. timedOut(Current) \in BOOLEAN
      BY DEF timedOut
    <3>3. PICK kind \in Kinds : /\ WorkerGoto("store", [ wjob EXCEPT !.kind = kind ])
                                /\ kind # "confirmed"
                                /\ kind = "failed" => chain[logs[wjob.index].tx].fate = "reverted"
      <4>1. FromReceipt(receipt, timedOut(Current)) \in Kinds
        BY <3>1, <3>2, LogTypes
      <4>2. /\ FromReceipt(receipt, timedOut(Current)) # "confirmed"
            /\ FromReceipt(receipt, timedOut(Current)) = "failed" => receipt = "reverted"
        BY <3>1, <3>2 DEF FromReceipt, Unseen, Receipts
      <4> QED BY <2>2, <2>4, <3>1, <4>1, <4>2 DEF Concluded
    <3> QED BY <1>0, <1>s, <1>c, <2>1, <3>3, WorkerOnly
  <2> QED BY <2>3, <2>4
<1>5. CASE WorkerProjection
  <2>1. /\ faults' \in Nat /\ UNCHANGED << envVars, storeVars, alerts, chainVars, requestVars >>
        /\ wjob.index \in DOMAIN logs /\ logs[wjob.index].tx \in TxIds
    BY <1>0, <1>5 DEF WorkerProjection, WorkerKeeps, ConclusionTrue, Current
  <2>2. PICK kind \in Kinds : /\ WorkerGoto("store", [ wjob EXCEPT !.kind = kind ])
                              /\ kind # "failed"
                              /\ kind = "confirmed" => logs[wjob.index].tx \in projected
    BY <1>5 DEF WorkerProjection, Concluded, FromProjection, governanceProjectionConfirmation,
                Current, Kinds
  <2> QED BY <1>0, <1>s, <1>c, <2>1, <2>2, WorkerOnly
<1>6. CASE WorkerSkips
  BY <1>0, <1>s, <1>6, WorkerOnly DEF WorkerSkips
<1> QED BY <1>1, <1>2, <1>3, <1>4, <1>5, <1>6

(* Storing a conclusion keeps the ledger truthful and clears the way for a *)
(* new broadcast of what failed.                                           *)
LEMMA StoreStep ==
  ASSUME IndInv, WorkerStore
  PROVE  IndInv'
<1>0. /\ TypeOK /\ ConclusionTrue /\ wjob \in WorkerJob /\ logs \in Seq(Log) /\ wpc = "store"
      /\ chain \in [ TxIds -> Tx ] /\ wjob.kind \in Kinds
  BY DEF IndInv, GovernanceTruth, TypeOK, Tx, Fates, WorkerStore, WorkerJob
<1>1. /\ UNCHANGED << clock, onChain, faults, review, snapshots, alerts, chain, binding, projected,
                      pc, job, wjob >>
      /\ wpc' \in { "alert", "scan" } /\ wpc' \in WorkerSteps
      /\ wpc' = "alert" => Current.request.action = "revoke_identity" /\ wjob.kind = "failed"
  BY <1>0 DEF WorkerStore, envVars, chainVars, requestVars, WorkerGoto, RaisesAlert, WorkerSteps, Log,
         Current, ConclusionTrue
<1>2. PICK i : /\ i = wjob.index /\ i \in DOMAIN logs /\ LogsKept /\ DOMAIN logs' = DOMAIN logs
               /\ \A l \in DOMAIN logs : l # i => logs'[l] = logs[l]
               /\ logs'[i].request = logs[i].request /\ logs'[i].tx = logs[i].tx
               /\ logs'[i].checked = wjob.kind
               /\ logs'[i].status = GovernanceStatus(wjob.kind)
               /\ logs'[i].broadcast
                    = governanceBroadcastStatusFromOutcome(logs[i].broadcast, wjob.kind)
  BY <1>0, StoreKeeps DEF Current
<1>3. logs[i] \in Log /\ logs[i].tx \in TxIds /\ Carries(logs[i].tx, logs[i].request)
  BY <1>0, <1>2, GovernanceConstants DEF ConclusionTrue, Current, IndInv, LogSound
<1>4. /\ wjob.kind = "confirmed" => chain[logs[i].tx].fate = "success"
      /\ wjob.kind = "failed" => chain[logs[i].tx].fate = "reverted"
  BY <1>0, <1>2 DEF ConclusionTrue, Current, IndInv, ProjectedSucceeded
<1>5. TypeOK'
  BY <1>0, <1>1, <1>2 DEF TypeOK, LogsKept
<1>6. LedgerTruth'
  <2> SUFFICES ASSUME NEW l \in DOMAIN logs, "confirmed" \in { logs'[l].status, logs'[l].broadcast }
               PROVE  /\ logs'[l].tx \in TxIds
                      /\ chain[logs'[l].tx] = [ request |-> logs'[l].request, fate |-> "success" ]
    BY <1>1, <1>2 DEF LedgerTruth
  <2>1. CASE l # i
    BY <1>2, <2>1 DEF IndInv, GovernanceTruth, LedgerTruth
  <2>2. CASE l = i
    <3>1. \/ wjob.kind = "confirmed"
          \/ logs[i].broadcast = "confirmed"
      BY <1>0, <1>2, <2>2 DEF GovernanceStatus, governanceBroadcastStatusFromOutcome, Kinds
    <3>2. CASE wjob.kind = "confirmed"
      <4>1. chain[logs[i].tx] \in Tx /\ chain[logs[i].tx].fate = "success"
            /\ chain[logs[i].tx].request = logs[i].request
        BY <1>0, <1>3, <1>4, <3>2 DEF Carries
      <4> QED BY <1>2, <1>3, <2>2, <4>1 DEF Tx
    <3>3. CASE logs[i].broadcast = "confirmed"
      BY <1>2, <2>2, <3>3 DEF IndInv, GovernanceTruth, LedgerTruth
    <3> QED BY <3>1, <3>2, <3>3
  <2> QED BY <2>1, <2>2
<1>7. AlertTruthful' /\ AlertedOnChain'
  BY <1>0, <1>1, <1>2 DEF IndInv, GovernanceTruth, AlertTruthful, AlertedOnChain, TypeOK, LogsKept
<1>8. ReplayNotShadowed'
  <2>1. wjob.kind \in { "failed", "stale_pending" } => logs'[i].broadcast = "failed"
    BY <1>2 DEF governanceBroadcastStatusFromOutcome
  <2> QED BY <1>2, <2>1 DEF IndInv, RequestsHonoured, ReplayNotShadowed, isReusableDuplicateLog
<1>9. DescriptorPublished' /\ ProjectedSucceeded'
  BY <1>1 DEF IndInv, RequestsHonoured, DescriptorPublished, ProjectedSucceeded
<1>10. \A q \in Requests : RequestPrepared(q)' /\ RequestSent(q)'
  BY <1>1 DEF IndInv, RequestPrepared, RequestSent, Carries
<1>11. \A l \in DOMAIN logs' : LogSound(l)'
  BY <1>1, <1>2, <1>3 DEF IndInv, LogSound, Carries
<1>12. ConclusionTrue'
  BY <1>1, <1>2, <1>3, <1>4 DEF ConclusionTrue, Current
<1> QED BY <1>5, <1>6, <1>7, <1>8, <1>9, <1>10, <1>11, <1>12 DEF IndInv, GovernanceTruth, RequestsHonoured

LEMMA AlertStep ==
  ASSUME IndInv, WorkerAlert
  PROVE  IndInv'
<1>0. /\ TypeOK /\ ConclusionTrue /\ wpc = "alert"
      /\ wjob.index \in DOMAIN logs /\ logs[wjob.index].tx \in TxIds
      /\ logs[wjob.index].request.action = "revoke_identity"
      /\ chain[logs[wjob.index].tx].fate = "reverted"
  BY DEF IndInv, GovernanceTruth, WorkerAlert, ConclusionTrue, Current
<1>1. /\ UNCHANGED << clock, onChain, faults, review, logs, snapshots, chain, binding, projected,
                      pc, job, wjob >>
      /\ alerts' = alerts \cup { wjob.index } /\ wpc' = "scan"
  BY DEF WorkerAlert, envVars, storeVars, chainVars, requestVars, WorkerGoto
<1>2. TypeOK'
  BY <1>0, <1>1 DEF TypeOK, WorkerSteps
<1>3. LedgerTruth' /\ ReplayNotShadowed' /\ DescriptorPublished' /\ ProjectedSucceeded'
  BY <1>1 DEF IndInv, GovernanceTruth, RequestsHonoured, LedgerTruth, ReplayNotShadowed,
              DescriptorPublished, isReusableDuplicateLog, ProjectedSucceeded
<1>4. AlertTruthful' /\ AlertedOnChain'
  BY <1>0, <1>1 DEF IndInv, GovernanceTruth, AlertTruthful, AlertedOnChain
<1>5. \A q \in Requests : RequestPrepared(q)' /\ RequestSent(q)'
  BY <1>1 DEF IndInv, RequestPrepared, RequestSent, Carries
<1>6. \A l \in DOMAIN logs' : LogSound(l)'
  BY <1>1 DEF IndInv, LogSound, Carries
<1>7. ConclusionTrue'
  BY <1>1 DEF ConclusionTrue
<1> QED BY <1>2, <1>3, <1>4, <1>5, <1>6, <1>7 DEF IndInv, GovernanceTruth, RequestsHonoured

-----------------------------------------------------------------------------
(* The process stops: what the requests and the pass held is gone, the     *)
(* store and the chain are not.                                            *)
LEMMA CrashStep ==
  ASSUME IndInv, Crash
  PROVE  IndInv'
<1>1. /\ UNCHANGED << clock, onChain, review, logs, snapshots, alerts, chain, binding, projected >>
      /\ wpc' = "idle" /\ wjob' = NoWorkerJob /\ faults' = faults + 1
      /\ pc' = [ r \in Requests |-> "idle" ] /\ job' = [ r \in Requests |-> NoJob ]
  BY DEF Crash, envVars, storeVars, chainVars, WorkerGoto
<1>2. TypeOK'
  <2>1. NoWorkerJob.index = 0 /\ "idle" \in Steps /\ "idle" \in WorkerSteps
    BY DEF NoWorkerJob, Steps, WorkerSteps
  <2> QED BY <1>1, <2>1, NoJobType DEF IndInv, GovernanceTruth, TypeOK
<1>3. /\ LedgerTruth' /\ ReplayNotShadowed' /\ DescriptorPublished' /\ ProjectedSucceeded'
      /\ AlertTruthful' /\ AlertedOnChain'
  BY <1>1 DEF IndInv, GovernanceTruth, RequestsHonoured, LedgerTruth, ReplayNotShadowed, AlertTruthful,
              DescriptorPublished, isReusableDuplicateLog, ProjectedSucceeded, AlertedOnChain
<1>4. \A q \in Requests : RequestPrepared(q)' /\ RequestSent(q)'
  BY <1>1 DEF RequestPrepared, RequestSent
<1>5. \A l \in DOMAIN logs' : LogSound(l)'
  BY <1>1 DEF IndInv, LogSound, Carries
<1>6. ConclusionTrue'
  BY <1>1 DEF ConclusionTrue
<1> QED BY <1>2, <1>3, <1>4, <1>5, <1>6 DEF IndInv, GovernanceTruth, RequestsHonoured

LEMMA IdleStep ==
  ASSUME IndInv, Tick \/ UNCHANGED vars
  PROVE  IndInv'
<1>1. /\ UNCHANGED << logs, snapshots, alerts, chain, projected, pc, job, wpc, wjob >>
  BY DEF Tick, storeVars, chainVars, requestVars, workerVars, vars
<1>2. TypeOK'
  BY DEF IndInv, GovernanceTruth, TypeOK, Tick, storeVars, chainVars, requestVars, workerVars, vars
<1>3. /\ LedgerTruth' /\ ReplayNotShadowed' /\ DescriptorPublished' /\ ProjectedSucceeded'
      /\ AlertTruthful' /\ AlertedOnChain'
  BY <1>1 DEF IndInv, GovernanceTruth, RequestsHonoured, LedgerTruth, ReplayNotShadowed, AlertTruthful,
              DescriptorPublished, isReusableDuplicateLog, ProjectedSucceeded, AlertedOnChain
<1>4. \A q \in Requests : RequestPrepared(q)' /\ RequestSent(q)'
  BY <1>1 DEF IndInv, RequestPrepared, RequestSent, Carries
<1>5. \A l \in DOMAIN logs' : LogSound(l)'
  BY <1>1 DEF IndInv, LogSound, Carries
<1>6. ConclusionTrue'
  BY <1>1 DEF IndInv, ConclusionTrue, Current
<1> QED BY <1>2, <1>3, <1>4, <1>5, <1>6 DEF IndInv, GovernanceTruth, RequestsHonoured

LEMMA IndStep == IndInv /\ [Next]_vars => IndInv'
<1> SUFFICES ASSUME IndInv, [Next]_vars PROVE IndInv'
  OBVIOUS
<1>1. ASSUME NEW r \in Requests, RequestStep(r) PROVE IndInv'
  <2>1. CASE \E status \in ReviewInputs : CreateReview(r, status) \/ SaveRead(r, status)
    BY <2>1, SaveSteps
  <2>2. CASE SaveStore(r)
    <3>1. /\ TypeOK /\ job[r] \in Job /\ NoJob \in Job /\ "idle" \in Steps
          /\ job[r].review \in ReviewStatus \cup {"none"}
      BY NoJobType DEF IndInv, GovernanceTruth, TypeOK, Job, Steps
    <3> QED BY <2>2, <3>1, ReadSteps DEF SaveStore, Return, PutReview
  <2> QED BY <1>1, <2>1, <2>2, ReadActions, AnswerActions, SnapshotStep, BroadcastActions, AppendStep
          DEF RequestStep
<1>2. ASSUME Worker \/ WorkerSkips PROVE IndInv'
  BY <1>2, WorkerReads, StoreStep, AlertStep DEF Worker
<1> QED BY <1>1, <1>2, CrashStep, IdleStep, MineStep DEF Next

LEMMA IndInit == Init => IndInv
<1> SUFFICES ASSUME Init PROVE IndInv
  OBVIOUS
<1>1. TypeOK
  <2>1. /\ NoTarget \in Request /\ NoWorkerJob.index = 0 /\ "idle" \in Steps /\ "idle" \in WorkerSteps
    BY DEF NoTarget, Request, Actions, NoWorkerJob, Steps, WorkerSteps
  <2>2. logs \in Seq(Log) /\ DOMAIN logs = {}
    BY DEF Init
  <2>3. review \in ReviewStatus \cup {"none"}
    BY DEF Init, ReviewStatus
  <2> QED BY <2>1, <2>2, <2>3, NoJobType DEF Init, TypeOK
<1>2. /\ LedgerTruth /\ ReplayNotShadowed /\ DescriptorPublished /\ ProjectedSucceeded
      /\ AlertTruthful /\ AlertedOnChain /\ ConclusionTrue /\ (\A l \in DOMAIN logs : LogSound(l))
  BY DEF Init, LedgerTruth, ReplayNotShadowed, AlertTruthful, DescriptorPublished,
         ProjectedSucceeded, AlertedOnChain, ConclusionTrue
<1>3. \A q \in Requests : RequestPrepared(q) /\ RequestSent(q)
  BY DEF Init, RequestPrepared, RequestSent
<1> QED BY <1>1, <1>2, <1>3 DEF IndInv, GovernanceTruth, RequestsHonoured

-----------------------------------------------------------------------------
(* Between any two steps: every request and every entry holds its own      *)
(* transaction, registrations are persisted before they are sent, and what *)
(* the worker is about to store is a fact of the chain.                    *)
THEOREM Inductive == Spec => []IndInv
BY IndInit, IndStep, PTL DEF Spec

(* The ledger claims no confirmation and raises no revoke alert that the   *)
(* registry did not decide so, whatever requests, passes and crashes       *)
(* interleave.                                                             *)
THEOREM Truthful == Spec => []GovernanceTruth
<1>1. IndInv => GovernanceTruth
  BY DEF IndInv
<1> QED BY <1>1, Inductive, PTL

(* Every registration that left has its descriptor published, and an entry *)
(* found failed never shadows a new broadcast of its request.              *)
THEOREM Honoured == Spec => []RequestsHonoured
<1>1. IndInv => RequestsHonoured
  BY DEF IndInv
<1> QED BY <1>1, Inductive, PTL
=============================================================================
