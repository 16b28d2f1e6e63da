---------------------------- MODULE Submissions ----------------------------
(***************************************************************************)
(* The product submission lane: a participant prepares a signal, signs it, *)
(* and submits it.  A submit reads the prepared record, checks its         *)
(* deadline, reserves its nonce, goes through the secure broadcast adapter *)
(* (deduplication, in-flight limits, retries, ownership of transaction     *)
(* hashes), and persists one record of the submission ledger.              *)
(*                                                                         *)
(* Every await of the code is a boundary between two actions, so that the  *)
(* actions of concurrent requests interleave as they do on the event loop  *)
(* and on the connection pool.  Every store write may fail, and the        *)
(* process may crash between any two steps: what lives in memory is lost,  *)
(* what is stored survives.                                                *)
(***************************************************************************)
EXTENDS Integers, Sequences, FiniteSets

CONSTANTS
  Prepares,          \* prepareIds (each has a nonce key and idempotency key of its own)
  Requests,          \* concurrent submit requests
  TxIds,             \* transaction hashes
  Orders,            \* onchainOrderIds, the keys of inFlightByOrder
  Submitters,        \* wallets, the keys of inFlightBySubmitter
  NoPrepare, NoTx,   \* absent values
  OrderOf(_),        \* onchainOrderId of a prepare
  SubmitterOf(_),    \* business signer of a prepare
  MaxRetry, MaxInFlightPerOrder, MaxInFlightPerSubmitter,
  ConfirmOnReceipt,  \* relayer option: a successful receipt reports "confirmed"
  Ttl,               \* prepareTtlSeconds
  TicksPerSecond,    \* resolution of the millisecond clock below a second
  MaxSubmitTicks,    \* longest a submit lasts (RPC and receipt timeouts)
  MaxClock, MaxLedger \* bounds of the model

ASSUME ConstantsAssumption ==
  /\ NoPrepare \notin Prepares
  /\ NoTx \notin TxIds
  /\ IsFiniteSet(Requests)
  /\ \A p \in Prepares : OrderOf(p) \in Orders /\ SubmitterOf(p) \in Submitters
  /\ MaxRetry \in Nat
  /\ MaxInFlightPerOrder \in Nat \ {0}
  /\ MaxInFlightPerSubmitter \in Nat \ {0}
  /\ ConfirmOnReceipt \in BOOLEAN
  /\ Ttl \in Nat \ {0}
  /\ TicksPerSecond \in Nat \ {0}
  /\ MaxSubmitTicks \in Nat
  /\ MaxClock \in Nat
  /\ MaxLedger \in Nat

(* A submit ends, or is cut off by its timeouts, within half the TTL.      *)
ASSUME SubmitTimeAssumption == 2 * MaxSubmitTicks <= Ttl * TicksPerSecond

VARIABLES
  clock,             \* time in ticks
  attemptsBroadcast, \* whether the configured adapter broadcasts at all
  prepared,          \* submission_prepare: deadline, and the ledger entry that used it
  nonce,             \* submission_nonce: reserved_at per key, or NotReserved
  ledger,            \* submission: append-only, the index is the submissionId
  bound,             \* ledger entries whose evidence was bound
  states,            \* adapter memory: attempts and last result per idempotency key
  dedupe,            \* broadcast_dedupe_state, the durable copy
  txOwners,          \* adapter memory: prepare that owns a transaction hash
  txOwnersDb,        \* broadcast_dedupe_tx_owner
  orderInFlight, submitterInFlight, \* adapter memory: in-flight counters
  chain,             \* per transaction hash: its sender's prepare and its fate
  pc, job            \* the step each request is at, and its local variables

vars == << clock, attemptsBroadcast, prepared, nonce, ledger, bound, states,
           dedupe, txOwners, txOwnersDb, orderInFlight, submitterInFlight,
           chain, pc, job >>

storeVars   == << prepared, nonce, ledger, bound >>
adapterVars == << states, dedupe, txOwners, txOwnersDb >>
flightVars  == << orderInFlight, submitterInFlight >>
envVars     == << clock, attemptsBroadcast, chain >>

NotReserved == -1
NoDeadline  == -1
Unused      == 0

(* Steps between reserveNonce and the end of the persisting transaction.   *)
HoldingSteps == { "load", "acquire", "limited", "send", "receipt", "claim",
                  "save", "persist", "recover" }
(* Steps at which the request holds a unit of both in-flight counters.     *)
InFlightSteps == { "limited", "send", "receipt", "claim", "save" }
(* Steps of an attempt that passed the in-flight limits.                   *)
AttemptSteps  == { "send", "receipt", "claim", "save" }
Steps == { "idle", "read", "reserve", "bind" } \cup HoldingSteps

BroadcastStatus == { "submitted", "confirmed", "failed" }
LedgerStatus    == BroadcastStatus \cup { "expired", "signature_received" }

Result == [ status : BroadcastStatus, tx : TxIds \cup {NoTx}, retryable : BOOLEAN ]

Failed(tx, retryable) == [ status |-> "failed", tx |-> tx, retryable |-> retryable ]
Landed(tx) ==
  [ status |-> IF ConfirmOnReceipt THEN "confirmed" ELSE "submitted",
    tx |-> tx, retryable |-> FALSE ]

NoState == [ attempts |-> 0, lastResult |-> Failed(NoTx, TRUE) ]
BroadcastState == [ attempts : Nat, lastResult : Result ]

Submission == [ prepare : Prepares, status : LedgerStatus,
                tx : TxIds \cup {NoTx}, retryable : BOOLEAN ]

Job == [ prepare : Prepares \cup {NoPrepare}, start : Nat, at : Nat, seen : BroadcastState,
         result : Result, entry : Nat ]
NoJob == [ prepare |-> NoPrepare, start |-> 0, at |-> 0, seen |-> NoState,
           result |-> Failed(NoTx, TRUE), entry |-> 0 ]

StoreType ==
  /\ prepared \in [ Prepares -> [ deadline : Nat \cup {NoDeadline}, usedBy : Nat ] ]
  /\ nonce \in [ Prepares -> Nat \cup {NotReserved} ]
  /\ ledger \in Seq(Submission)
  /\ bound \in SUBSET Nat
AdapterType ==
  /\ states \in [ Prepares -> BroadcastState ]
  /\ dedupe \in [ Prepares -> BroadcastState ]
  /\ txOwners \in [ TxIds -> Prepares \cup {NoPrepare} ]
  /\ txOwnersDb \in [ TxIds -> Prepares \cup {NoPrepare} ]
FlightType ==
  /\ orderInFlight \in [ Orders -> Nat ]
  /\ submitterInFlight \in [ Submitters -> Nat ]
EnvType ==
  /\ clock \in Nat
  /\ attemptsBroadcast \in BOOLEAN
  /\ chain \in [ TxIds -> [ prepare : Prepares \cup {NoPrepare},
                            fate : { "none", "pending", "success", "reverted" } ] ]
RequestType ==
  /\ pc \in [ Requests -> Steps ]
  /\ job \in [ Requests -> Job ]
  /\ \A r \in Requests : pc[r] # "idle" => job[r].prepare \in Prepares

(* Every variable has its type, and a request past its first step works on *)
(* a prepare.                                                              *)
TypeOK == StoreType /\ AdapterType /\ FlightType /\ EnvType /\ RequestType

Init ==
  /\ clock = 0
  /\ attemptsBroadcast \in BOOLEAN
  /\ prepared = [ p \in Prepares |-> [ deadline |-> NoDeadline, usedBy |-> Unused ] ]
  /\ nonce = [ p \in Prepares |-> NotReserved ]
  /\ ledger = << >>
  /\ bound = {}
  /\ states = [ p \in Prepares |-> NoState ]
  /\ dedupe = [ p \in Prepares |-> NoState ]
  /\ txOwners = [ t \in TxIds |-> NoPrepare ]
  /\ txOwnersDb = [ t \in TxIds |-> NoPrepare ]
  /\ orderInFlight = [ o \in Orders |-> 0 ]
  /\ submitterInFlight = [ s \in Submitters |-> 0 ]
  /\ chain = [ t \in TxIds |-> [ prepare |-> NoPrepare, fate |-> "none" ] ]
  /\ pc = [ r \in Requests |-> "idle" ]
  /\ job = [ r \in Requests |-> NoJob ]

-----------------------------------------------------------------------------
Seconds(ticks) == ticks \div TicksPerSecond
Expired(p) == prepared[p].deadline < Seconds(clock)

At(r, step)   == pc[r] = step
Goto(r, step) == pc' = [ pc EXCEPT ![r] = step ]
Return(r) ==
  /\ pc'  = [ pc  EXCEPT ![r] = "idle" ]
  /\ job' = [ job EXCEPT ![r] = NoJob ]

Record(p, status, tx, retryable) ==
  [ prepare |-> p, status |-> status, tx |-> tx, retryable |-> retryable ]
PutSubmission(s) ==
  /\ Len(ledger) < MaxLedger
  /\ ledger' = Append(ledger, s)
(* The submissionId the next PutSubmission stores under.                   *)
NextEntry == Len(ledger) + 1
MarkPreparedUsed(p, entry) == prepared' = [ prepared EXCEPT ![p].usedBy = entry ]
ReleaseNonce(p) == nonce' = [ nonce EXCEPT ![p] = NotReserved ]

(* prepareSubmit stores a prepared record whose deadline is a whole second. *)
PrepareSubmit(p) ==
  /\ prepared[p].deadline = NoDeadline
  /\ prepared' = [ prepared EXCEPT ![p].deadline = Seconds(clock) + Ttl ]
  /\ UNCHANGED << nonce, ledger, bound, adapterVars, flightVars, envVars, pc, job >>

(* submit reads the prepared record; the signature is recovered after it.  *)
SubmitRead(r, p) ==
  /\ At(r, "idle")
  /\ prepared[p].deadline # NoDeadline
  /\ prepared[p].usedBy = Unused
  /\ Goto(r, "read")
  /\ job' = [ job EXCEPT ![r] = [ NoJob EXCEPT !.prepare = p, !.start = clock ] ]
  /\ UNCHANGED << storeVars, adapterVars, flightVars, envVars >>

(* Past the deadline one transaction stores an expired record and uses up  *)
(* the prepare; usedAt is not read again and no nonce is reserved.         *)
SubmitExpired(r) ==
  LET p == job[r].prepare IN
  /\ At(r, "read")
  /\ Expired(p)
  /\ \/ /\ PutSubmission(Record(p, "expired", NoTx, FALSE))
        /\ MarkPreparedUsed(p, NextEntry)
     \/ UNCHANGED << ledger, prepared >>
  /\ Return(r)
  /\ UNCHANGED << nonce, bound, adapterVars, flightVars, envVars >>

(* An adapter that cannot broadcast: the signature is recorded, and neither *)
(* the prepare nor its nonce is consumed.                                  *)
SubmitNotAttempted(r) ==
  LET p == job[r].prepare IN
  /\ At(r, "read")
  /\ ~Expired(p)
  /\ ~attemptsBroadcast
  /\ \/ PutSubmission(Record(p, "signature_received", NoTx, FALSE))
     \/ UNCHANGED ledger
  /\ Return(r)
  /\ UNCHANGED << prepared, nonce, bound, adapterVars, flightVars, envVars >>

(* The deadline holds: staleBefore is computed from this clock reading.    *)
SubmitChecked(r) ==
  /\ At(r, "read")
  /\ ~Expired(job[r].prepare)
  /\ attemptsBroadcast
  /\ Goto(r, "reserve")
  /\ job' = [ job EXCEPT ![r].at = clock ]
  /\ UNCHANGED << storeVars, adapterVars, flightVars, envVars >>

(* Fault: the age threshold forgets the TTL.                               *)
StaleWithoutTtl(p, at) == nonce[p] < at

(* A reservation older than one TTL, seen from the clock reading "at".     *)
Stale(p, at) == nonce[p] < at - Ttl * TicksPerSecond

(* reserveNonce: insert, or take over a stale row, or report a duplicate.  *)
ReserveNonce(r) ==
  LET p == job[r].prepare IN
  /\ At(r, "reserve")
  /\ IF nonce[p] = NotReserved \/ Stale(p, job[r].at)
     THEN /\ nonce' = [ nonce EXCEPT ![p] = clock ]
          /\ Goto(r, "load")
          /\ job' = [ job EXCEPT ![r].at = clock ]
     ELSE /\ Return(r)
          /\ UNCHANGED nonce
  /\ UNCHANGED << prepared, ledger, bound, adapterVars, flightVars, envVars >>

-----------------------------------------------------------------------------
(* The secure broadcast adapter.                                           *)

(* Fault: the durable copy is not consulted.                               *)
CurrentStateInMemory(p) == states[p]

(* currentStateFor: memory first, then the durable copy.                   *)
CurrentState(p) == IF states[p].attempts # 0 THEN states[p] ELSE dedupe[p]

LoadState(r) ==
  /\ At(r, "load")
  /\ Goto(r, "acquire")
  /\ job' = [ job EXCEPT ![r].seen = CurrentState(job[r].prepare) ]
  /\ UNCHANGED << storeVars, adapterVars, flightVars, envVars >>

(* A result that is replayed instead of broadcasting again.                *)
Settled(s) == s.attempts # 0 /\ ~(s.lastResult.status = "failed" /\ s.lastResult.retryable)
Exhausted(s) == s.attempts # 0 /\ ~Settled(s) /\ s.attempts > MaxRetry

ReplayDuplicate(r) ==
  /\ At(r, "acquire")
  /\ \/ /\ Settled(job[r].seen)
        /\ job' = [ job EXCEPT ![r].result = job[r].seen.lastResult ]
     \/ /\ Exhausted(job[r].seen)
        /\ job' = [ job EXCEPT ![r].result = Failed(NoTx, FALSE) ]
  /\ Goto(r, "persist")
  /\ UNCHANGED << storeVars, adapterVars, flightVars, envVars >>

(* The counters are taken before they are compared with the limits; a      *)
(* request over a limit holds them until its audit record is written.      *)
AcquireInFlight(r) ==
  LET o == OrderOf(job[r].prepare)
      s == SubmitterOf(job[r].prepare)
      over == \/ orderInFlight[o] + 1 > MaxInFlightPerOrder
              \/ submitterInFlight[s] + 1 > MaxInFlightPerSubmitter IN
  /\ At(r, "acquire")
  /\ ~Settled(job[r].seen) /\ ~Exhausted(job[r].seen)
  /\ orderInFlight' = [ orderInFlight EXCEPT ![o] = @ + 1 ]
  /\ submitterInFlight' = [ submitterInFlight EXCEPT ![s] = @ + 1 ]
  /\ Goto(r, IF over THEN "limited" ELSE "send")
  /\ UNCHANGED << storeVars, adapterVars, envVars, job >>

(* releaseInFlight drops a counter that would not stay positive.           *)
Released(count) == IF count - 1 <= 0 THEN 0 ELSE count - 1
ReleaseInFlight(p) ==
  /\ orderInFlight' = [ orderInFlight EXCEPT ![OrderOf(p)] = Released(@) ]
  /\ submitterInFlight' = [ submitterInFlight EXCEPT ![SubmitterOf(p)] = Released(@) ]

RateLimited(r) ==
  /\ At(r, "limited")
  /\ ReleaseInFlight(job[r].prepare)
  /\ job' = [ job EXCEPT ![r].result = Failed(NoTx, TRUE) ]
  /\ Goto(r, "persist")
  /\ UNCHANGED << storeVars, adapterVars, envVars >>

-----------------------------------------------------------------------------
(* The state-machine broadcast adapter.                                    *)

(* A precheck, the chain-id preflight or the node refused: nothing is sent. *)
(* Past the deadline the refusal is final.                                 *)
SendRefused(r) ==
  /\ At(r, "send")
  /\ \E retryable \in BOOLEAN :
       /\ Expired(job[r].prepare) => ~retryable
       /\ job' = [ job EXCEPT ![r].result = Failed(NoTx, retryable) ]
  /\ Goto(r, "save")
  /\ UNCHANGED << storeVars, adapterVars, flightVars, envVars >>

EnterPool(t, p) ==
  /\ chain[t].fate = "none"
  /\ chain' = [ chain EXCEPT ![t] = [ prepare |-> p, fate |-> "pending" ] ]

(* writeContract returned a hash; the receipt is awaited next.             *)
SendAccepted(r, t) ==
  /\ At(r, "send")
  /\ ~Expired(job[r].prepare)
  /\ EnterPool(t, job[r].prepare)
  /\ job' = [ job EXCEPT ![r].result = Failed(t, TRUE) ]
  /\ Goto(r, "receipt")
  /\ UNCHANGED << clock, attemptsBroadcast, storeVars, adapterVars, flightVars >>

(* writeContract timed out after the node took the transaction: the error  *)
(* is classified rpc_timeout, retryable and without a hash.                *)
SendAcceptedUnseen(r, t) ==
  /\ At(r, "send")
  /\ ~Expired(job[r].prepare)
  /\ EnterPool(t, job[r].prepare)
  /\ job' = [ job EXCEPT ![r].result = Failed(NoTx, TRUE) ]
  /\ Goto(r, "save")
  /\ UNCHANGED << clock, attemptsBroadcast, storeVars, adapterVars, flightVars >>

(* Fault: a missing receipt is read as success.                            *)
ProbeMissingAsLanded(t) ==
  IF chain[t].fate = "reverted" THEN { Failed(t, FALSE) } ELSE { Landed(t) }

(* Fault: the receipt's own status is passed on.                           *)
ProbeRawStatus(t) == { [ status |-> chain[t].fate, tx |-> t, retryable |-> FALSE ] }

(* What a receipt probe may answer about a transaction; a probe that fails *)
(* or finds no receipt leaves the outcome unknown and keeps the hash.      *)
ProbeResults(t) ==
  { Failed(t, TRUE) }
    \cup (IF chain[t].fate = "success"  THEN { Landed(t) } ELSE {})
    \cup (IF chain[t].fate = "reverted" THEN { Failed(t, FALSE) } ELSE {})

(* The node reports a duplicate (nonce too low, already known) and names a *)
(* candidate hash; its receipt decides.                                    *)
SendDuplicate(r, t) ==
  /\ At(r, "send")
  /\ ~Expired(job[r].prepare)
  /\ chain[t].fate # "none"
  /\ \E res \in ProbeResults(t) : job' = [ job EXCEPT ![r].result = res ]
  /\ Goto(r, "claim")
  /\ UNCHANGED << storeVars, adapterVars, flightVars, envVars >>

(* waitForTransactionReceipt answers, times out, or fails; a failure is    *)
(* classified and may be final, and the hash is kept.                      *)
WaitForReceipt(r) ==
  LET t == job[r].result.tx IN
  /\ At(r, "receipt")
  /\ \E res \in ProbeResults(t) \cup { Failed(t, FALSE) } :
       job' = [ job EXCEPT ![r].result = res ]
  /\ Goto(r, "claim")
  /\ UNCHANGED << storeVars, adapterVars, flightVars, envVars >>

-----------------------------------------------------------------------------
(* Back in the secure adapter.                                             *)

(* Fault: after a restart nobody remembers who owns a hash.                *)
OwnerInMemory(t) == txOwners[t]

OwnerOf(t) == IF txOwners[t] # NoPrepare THEN txOwners[t] ELSE txOwnersDb[t]

(* duplicateTxHashResult: the first prepare to claim a hash owns it; the   *)
(* result of another prepare loses its hash and becomes final.             *)
ClaimTxHash(r) ==
  LET p == job[r].prepare
      t == job[r].result.tx IN
  /\ At(r, "claim")
  /\ \/ /\ OwnerOf(t) \in {NoPrepare, p}
        /\ txOwners' = [ txOwners EXCEPT ![t] = p ]
        /\ txOwnersDb' = [ txOwnersDb EXCEPT ![t] = p ]
        /\ UNCHANGED job
     \/ /\ OwnerOf(t) \notin {NoPrepare, p}
        /\ job' = [ job EXCEPT ![r].result = Failed(NoTx, FALSE) ]
        /\ UNCHANGED << txOwners, txOwnersDb >>
  /\ Goto(r, "save")
  /\ UNCHANGED << states, dedupe, storeVars, flightVars, envVars >>

(* Fault: the exception skips the release of the in-flight units.          *)
ClaimFailedLeaking(r) ==
  /\ At(r, "claim")
  /\ txOwners[job[r].result.tx] = NoPrepare
  /\ Goto(r, "recover")
  /\ UNCHANGED << storeVars, adapterVars, flightVars, envVars, job >>

(* The claim itself fails: the exception leaves through the finally block. *)
ClaimFailed(r) ==
  /\ At(r, "claim")
  /\ txOwners[job[r].result.tx] = NoPrepare
  /\ ReleaseInFlight(job[r].prepare)
  /\ Goto(r, "recover")
  /\ UNCHANGED << storeVars, adapterVars, envVars, job >>

NewState(r) == [ attempts |-> job[r].seen.attempts + 1, lastResult |-> job[r].result ]

(* The state is set in memory, then written through; a failed write is     *)
(* thrown past the caller.                                                 *)
SaveState(r) ==
  LET p == job[r].prepare IN
  /\ At(r, "save")
  /\ states' = [ states EXCEPT ![p] = NewState(r) ]
  /\ \/ /\ dedupe' = [ dedupe EXCEPT ![p] = NewState(r) ]
        /\ Goto(r, "persist")
     \/ /\ UNCHANGED dedupe
        /\ Goto(r, "recover")
  /\ ReleaseInFlight(p)
  /\ UNCHANGED << txOwners, txOwnersDb, storeVars, envVars, job >>

-----------------------------------------------------------------------------
(* Back in submit.                                                         *)

(* A failure that leaves the prepare reusable.                             *)
Reusable(res) == res.status = "failed" /\ res.retryable /\ res.tx = NoTx

(* One transaction stores the record and either releases the nonce or      *)
(* marks the prepare used.                                                 *)
PersistSubmission(r) ==
  LET p   == job[r].prepare
      res == job[r].result IN
  /\ At(r, "persist")
  /\ PutSubmission(Record(p, res.status, res.tx, res.retryable))
  /\ IF Reusable(res)
     THEN ReleaseNonce(p) /\ UNCHANGED prepared
     ELSE MarkPreparedUsed(p, NextEntry) /\ UNCHANGED nonce
  /\ IF res.status \in {"submitted", "confirmed"}
     THEN /\ Goto(r, "bind")
          /\ job' = [ job EXCEPT ![r].entry = NextEntry ]
     ELSE Return(r)
  /\ UNCHANGED << bound, adapterVars, flightVars, envVars >>

(* The transaction failed.  With a hash, a persist_failed record is stored *)
(* if it can be and the nonce stays reserved; without one the exception    *)
(* path is taken.                                                          *)
PersistFailed(r) ==
  LET p   == job[r].prepare
      res == job[r].result IN
  /\ At(r, "persist")
  /\ IF res.tx # NoTx
     THEN /\ \/ PutSubmission(Record(p, "failed", res.tx, FALSE))
             \/ UNCHANGED ledger
          /\ Return(r)
     ELSE /\ Goto(r, "recover")
          /\ UNCHANGED << ledger, job >>
  /\ UNCHANGED << prepared, nonce, bound, adapterVars, flightVars, envVars >>

(* The broadcast threw: a failed record and the release of the nonce share *)
(* a transaction, which may fail as well and then leaks the reservation.   *)
RecoverThrown(r) ==
  LET p == job[r].prepare IN
  /\ At(r, "recover")
  /\ \/ /\ \E retryable \in BOOLEAN :
             PutSubmission(Record(p, "failed", NoTx, retryable))
        /\ ReleaseNonce(p)
     \/ UNCHANGED << ledger, nonce >>
  /\ Return(r)
  /\ UNCHANGED << prepared, bound, adapterVars, flightVars, envVars >>

(* Evidence is bound after the record is stored; a failure is audited and  *)
(* left to the reconcile worker.                                           *)
BindEvidence(r) ==
  /\ At(r, "bind")
  /\ \/ bound' = bound \cup { job[r].entry }
     \/ UNCHANGED bound
  /\ Return(r)
  /\ UNCHANGED << prepared, nonce, ledger, adapterVars, flightVars, envVars >>

-----------------------------------------------------------------------------
(* The process crashes and restarts: requests and adapter memory are lost. *)
Crash ==
  /\ pc' = [ r \in Requests |-> "idle" ]
  /\ job' = [ r \in Requests |-> NoJob ]
  /\ states' = [ p \in Prepares |-> NoState ]
  /\ txOwners' = [ t \in TxIds |-> NoPrepare ]
  /\ orderInFlight' = [ o \in Orders |-> 0 ]
  /\ submitterInFlight' = [ s \in Submitters |-> 0 ]
  /\ UNCHANGED << dedupe, txOwnersDb, storeVars, envVars >>

(* Time passes; no submit outlives its timeouts.                           *)
Tick ==
  /\ clock < MaxClock
  /\ \A r \in Requests :
       pc[r] # "idle" => clock + 1 - job[r].start <= MaxSubmitTicks
  /\ clock' = clock + 1
  /\ UNCHANGED << attemptsBroadcast, chain, storeVars, adapterVars, flightVars, pc, job >>

(* A pooled transaction is mined; the contract decides.                    *)
Mine(t) ==
  /\ chain[t].fate = "pending"
  /\ \E fate \in {"success", "reverted"} : chain' = [ chain EXCEPT ![t].fate = fate ]
  /\ UNCHANGED << clock, attemptsBroadcast, storeVars, adapterVars, flightVars, pc, job >>

SubmitStep(r) ==
  \/ \E p \in Prepares : SubmitRead(r, p)
  \/ SubmitExpired(r) \/ SubmitNotAttempted(r) \/ SubmitChecked(r)
  \/ ReserveNonce(r) \/ LoadState(r) \/ ReplayDuplicate(r)
  \/ AcquireInFlight(r) \/ RateLimited(r) \/ SendRefused(r)
  \/ \E t \in TxIds : SendAccepted(r, t) \/ SendAcceptedUnseen(r, t) \/ SendDuplicate(r, t)
  \/ WaitForReceipt(r) \/ ClaimTxHash(r) \/ ClaimFailed(r) \/ SaveState(r)
  \/ PersistSubmission(r) \/ PersistFailed(r) \/ RecoverThrown(r) \/ BindEvidence(r)

Next ==
  \/ \E p \in Prepares : PrepareSubmit(p)
  \/ \E r \in Requests : SubmitStep(r)
  \/ Crash
  \/ Tick
  \/ \E t \in TxIds : Mine(t)

Spec == Init /\ [][Next]_vars

-----------------------------------------------------------------------------
(* Properties.                                                             *)

Holds(r, p) == pc[r] \in HoldingSteps /\ job[r].prepare = p

(* reserveNonce admits one live submit per prepare: no two requests are    *)
(* between the reservation and the end of the persisting transaction for   *)
(* the same prepare, stale takeovers and lost requests included.           *)
SubmitExclusion ==
  \A r1, r2 \in Requests : \A p \in Prepares :
    Holds(r1, p) /\ Holds(r2, p) => r1 = r2

(* duplicateTxHashResult: ledger records of different prepares never carry *)
(* the same transaction hash, across concurrent claims and restarts.       *)
TxHashOwnedByOnePrepare ==
  \A i, j \in 1..Len(ledger) :
    ledger[i].tx # NoTx /\ ledger[i].tx = ledger[j].tx
      => ledger[i].prepare = ledger[j].prepare

(* Only a successful receipt is reported as landed, and evidence is bound  *)
(* only to records of transactions that succeeded on chain.                *)
LandedMeansSuccess ==
  /\ \A i \in 1..Len(ledger) :
       ledger[i].status \in {"submitted", "confirmed"}
         => ledger[i].tx # NoTx /\ chain[ledger[i].tx].fate = "success"
  /\ \A i \in bound :
       i \in 1..Len(ledger) /\ ledger[i].status \in {"submitted", "confirmed"}

(* A used prepare names a ledger record of its own, and never the record   *)
(* of an attempt that left it reusable.                                    *)
UsedPrepareIsConsumed ==
  \A p \in Prepares :
    LET e == prepared[p].usedBy IN
    e # Unused =>
      /\ e \in 1..Len(ledger)
      /\ ledger[e].prepare = p
      /\ ledger[e].status # "signature_received"
      /\ ~(ledger[e].status = "failed" /\ ledger[e].retryable /\ ledger[e].tx = NoTx)

(* What the ledger says of a transaction and what a prepare says of the    *)
(* ledger is true (the persist block of submit).                           *)
RecordsTruthful == LandedMeansSuccess /\ UsedPrepareIsConsumed

SendsFor(p) == \E t \in TxIds : chain[t].prepare # p /\ chain'[t].prepare = p

(* Once the durable deduplication state of a prepare holds a settled       *)
(* result, no further transaction is sent for it: not by a retry, not by a *)
(* request that loaded the state before, not after a restart.              *)
NoResendAfterSettled ==
  [][ \A p \in Prepares : Settled(dedupe[p]) => ~SendsFor(p) ]_vars

(* Once a prepare is marked used, no further transaction is sent for it,   *)
(* even by a request that read the prepare before it was used.             *)
NoResendAfterUsed ==
  [][ \A p \in Prepares : prepared[p].usedBy # Unused => ~SendsFor(p) ]_vars

(* Nothing is sent for a prepare whose outcome is settled, in the durable  *)
(* deduplication state or in the prepare itself.                           *)
NoResend == NoResendAfterSettled /\ NoResendAfterUsed

(* The in-flight limits: broadcasts under way per order and per submitter  *)
(* never exceed them, and the counters count exactly the requests that     *)
(* hold a unit, so a failing step leaks none.                              *)
InFlightLimits ==
  /\ \A o \in Orders :
       LET here == { r \in Requests : pc[r] # "idle" /\ OrderOf(job[r].prepare) = o } IN
       /\ orderInFlight[o] = Cardinality({ r \in here : pc[r] \in InFlightSteps })
       /\ Cardinality({ r \in here : pc[r] \in AttemptSteps }) <= MaxInFlightPerOrder
  /\ \A s \in Submitters :
       LET here == { r \in Requests : pc[r] # "idle" /\ SubmitterOf(job[r].prepare) = s } IN
       /\ submitterInFlight[s] = Cardinality({ r \in here : pc[r] \in InFlightSteps })
       /\ Cardinality({ r \in here : pc[r] \in AttemptSteps }) <= MaxInFlightPerSubmitter

-----------------------------------------------------------------------------
(* The inductive invariant behind the properties.                          *)

(* No request outlives its timeouts, and the nonce row of a prepare holds  *)
(* the reservation time of the request that is between reservation and     *)
(* persistence.                                                            *)
ReservationInv ==
  \A r \in Requests :
    /\ pc[r] # "idle" => /\ job[r].start <= clock
                         /\ clock <= job[r].start + MaxSubmitTicks
    /\ pc[r] \in HoldingSteps \cup {"reserve"} => /\ job[r].start <= job[r].at
                                                  /\ job[r].at <= clock
    /\ pc[r] \in HoldingSteps => nonce[job[r].prepare] = job[r].at

Owned(t, p)   == t # NoTx => txOwnersDb[t] = p
LandedOk(res) == res.status \in {"submitted", "confirmed"}
                   => res.tx \in TxIds /\ chain[res.tx].fate = "success"

(* Every result that can still reach the ledger owns its hash in the       *)
(* durable table and tells the truth about the chain; the owners kept in   *)
(* memory agree with the durable table.                                    *)
ResultInv ==
  /\ \A t \in TxIds : txOwners[t] # NoPrepare => txOwnersDb[t] = txOwners[t]
  /\ \A p \in Prepares :
       /\ Owned(states[p].lastResult.tx, p) /\ LandedOk(states[p].lastResult)
       /\ Owned(dedupe[p].lastResult.tx, p) /\ LandedOk(dedupe[p].lastResult)
  /\ \A r \in Requests :
       LET j == job[r] IN
       /\ pc[r] \in {"receipt", "claim"} => j.result.tx \in TxIds
       /\ pc[r] = "acquire" => /\ Owned(j.seen.lastResult.tx, j.prepare)
                               /\ LandedOk(j.seen.lastResult)
       /\ pc[r] \in {"claim", "save", "persist"} => LandedOk(j.result)
       /\ pc[r] \in {"save", "persist"} => Owned(j.result.tx, j.prepare)

(* The same of what is stored.                                             *)
LedgerInv ==
  /\ \A i \in 1..Len(ledger) :
       Owned(ledger[i].tx, ledger[i].prepare) /\ LandedOk(ledger[i])
  /\ \A r \in Requests : pc[r] = "bind" =>
       /\ job[r].entry \in 1..Len(ledger)
       /\ ledger[job[r].entry].status \in {"submitted", "confirmed"}
  /\ \A i \in bound :
       i \in 1..Len(ledger) /\ ledger[i].status \in {"submitted", "confirmed"}

(* A settled durable state is never hidden by an older one in memory, and  *)
(* no request is past the duplicate check of a settled prepare.            *)
SettledInv ==
  \A p \in Prepares : Settled(dedupe[p]) =>
    /\ states[p].attempts = 0 \/ Settled(states[p])
    /\ \A r \in Requests : Holds(r, p) =>
         /\ pc[r] \notin InFlightSteps
         /\ pc[r] = "acquire" => Settled(job[r].seen)

(* A used prepare is past its deadline, or its nonce row is kept and too   *)
(* young for every request that read the prepare before it was used.       *)
UsedInv ==
  \A p \in Prepares : prepared[p].usedBy # Unused =>
    /\ prepared[p].deadline # NoDeadline
    /\ \/ Expired(p)
       \/ /\ nonce[p] # NotReserved
          /\ \A r \in Requests : pc[r] # "idle" /\ job[r].prepare = p =>
               /\ pc[r] \notin HoldingSteps
               /\ pc[r] \in {"read", "reserve"} => job[r].start <= nonce[p] + MaxSubmitTicks

(* A request that holds a prepare works on one that was prepared.          *)
PreparedInv ==
  \A r \in Requests : pc[r] # "idle" => prepared[job[r].prepare].deadline # NoDeadline

IndInv == /\ TypeOK /\ PreparedInv /\ ReservationInv /\ SubmitExclusion
          /\ ResultInv /\ LedgerInv /\ UsedPrepareIsConsumed /\ SettledInv /\ UsedInv
=============================================================================
