------------------------- MODULE SubmissionsProofs -------------------------
(* Proofs about Submissions for every value of its constants.              *)
EXTENDS Submissions, FiniteSetTheorems, TLAPS

-----------------------------------------------------------------------------
(* Values the actions build have their types.                              *)

LEMMA FailedType == ASSUME NEW tx \in TxIds \cup {NoTx}, NEW b \in BOOLEAN
                    PROVE  Failed(tx, b) \in Result
BY DEF Failed, Result, BroadcastStatus

LEMMA LandedType == ASSUME NEW tx \in TxIds \cup {NoTx}
                    PROVE  Landed(tx) \in Result
BY DEF Landed, Result, BroadcastStatus

LEMMA NoStateType == NoState \in BroadcastState
BY FailedType DEF NoState, BroadcastState

LEMMA NoJobType == NoJob \in Job
BY FailedType, NoStateType DEF NoJob, Job

LEMMA ProbeType == ASSUME NEW t \in TxIds \cup {NoTx}
                   PROVE  ProbeResults(t) \in SUBSET Result
BY FailedType, LandedType DEF ProbeResults

(* The assumptions split into the parts the proofs cite.                   *)
LEMMA NumberTypes ==
  /\ Ttl \in Nat /\ TicksPerSecond \in Nat \ {0} /\ MaxSubmitTicks \in Nat
  /\ Ttl * TicksPerSecond \in Nat
BY ConstantsAssumption

LEMMA SecondsType == ASSUME NEW n \in Nat PROVE Seconds(n) \in Nat
BY NumberTypes DEF Seconds

(* Replacing the local variables of one request keeps the request types.   *)
LEMMA RequestUpdate ==
  ASSUME RequestType, NEW r \in Requests, NEW s \in Steps, NEW j \in Job,
         j.prepare \in Prepares,
         pc' = [ pc EXCEPT ![r] = s ], job' = [ job EXCEPT ![r] = j ]
  PROVE  RequestType'
BY DEF RequestType

LEMMA RequestStep ==
  ASSUME RequestType, NEW r \in Requests, NEW s \in Steps, pc[r] # "idle",
         pc' = [ pc EXCEPT ![r] = s ], job' = job
  PROVE  RequestType'
BY DEF RequestType

LEMMA RequestReturn ==
  ASSUME RequestType, NEW r \in Requests, Return(r)
  PROVE  RequestType'
BY NoJobType DEF RequestType, Return, Steps

LEMMA JobResult ==
  ASSUME RequestType, NEW r \in Requests, NEW s \in Steps, pc[r] # "idle",
         NEW res \in Result, Goto(r, s), job' = [ job EXCEPT ![r].result = res ]
  PROVE  RequestType'
<1>1. job[r] \in Job /\ job[r].prepare \in Prepares
  BY DEF RequestType
<1>2. [ job[r] EXCEPT !.result = res ] \in Job
  BY <1>1 DEF Job
<1>3. [ job[r] EXCEPT !.result = res ].prepare \in Prepares
  BY <1>1 DEF Job
<1> QED BY <1>2, <1>3, RequestUpdate DEF Goto

(* A step that leaves a group of variables alone keeps its types.          *)
LEMMA Untouched ==
  /\ StoreType /\ UNCHANGED storeVars => StoreType'
  /\ AdapterType /\ UNCHANGED adapterVars => AdapterType'
  /\ FlightType /\ UNCHANGED flightVars => FlightType'
  /\ EnvType /\ UNCHANGED envVars => EnvType'
BY DEF StoreType, storeVars, AdapterType, adapterVars, FlightType, flightVars, EnvType, envVars

(* Storing a record keeps the type of the ledger.                          *)
LEMMA PutType ==
  ASSUME StoreType, NEW s \in Submission, PutSubmission(s)
  PROVE  ledger' \in Seq(Submission)
BY DEF StoreType, PutSubmission

LEMMA RecordType ==
  ASSUME NEW p \in Prepares, NEW st \in LedgerStatus, NEW tx \in TxIds \cup {NoTx},
         NEW b \in BOOLEAN
  PROVE  Record(p, st, tx, b) \in Submission
BY DEF Record, Submission

LEMMA MarkType ==
  ASSUME StoreType, NEW p \in Prepares, NEW e \in Nat, MarkPreparedUsed(p, e)
  PROVE  prepared' \in [ Prepares -> [ deadline : Nat \cup {NoDeadline}, usedBy : Nat ] ]
BY DEF StoreType, MarkPreparedUsed

LEMMA ReleaseType ==
  ASSUME StoreType, NEW p \in Prepares, ReleaseNonce(p)
  PROVE  nonce' \in [ Prepares -> Nat \cup {NotReserved} ]
BY DEF StoreType, ReleaseNonce

LEMMA ReleaseInFlightType ==
  ASSUME FlightType, NEW p \in Prepares, ReleaseInFlight(p)
  PROVE  FlightType'
<1> DEFINE o == OrderOf(p)
           w == SubmitterOf(p)
<1>1. o \in Orders /\ w \in Submitters
  BY ConstantsAssumption
<1>2. \A n \in Nat : Released(n) \in Nat
  BY DEF Released
<1>3. /\ orderInFlight' = [ orderInFlight EXCEPT ![o] = Released(@) ]
      /\ submitterInFlight' = [ submitterInFlight EXCEPT ![w] = Released(@) ]
  BY DEF ReleaseInFlight
<1> HIDE DEF o, w
<1> QED BY <1>1, <1>2, <1>3 DEF FlightType

-----------------------------------------------------------------------------
(* A step of a submit keeps the type invariant.                            *)
LEMMA SubmitTypeStep ==
  ASSUME TypeOK, NEW r \in Requests, SubmitStep(r)
  PROVE  TypeOK'
<1> USE DEF TypeOK
<1>a. job[r] \in Job /\ (pc[r] # "idle" => job[r].prepare \in Prepares)
  BY DEF RequestType
<1>b. /\ job[r].result \in Result /\ job[r].seen \in BroadcastState
      /\ job[r].result.tx \in TxIds \cup {NoTx}
      /\ job[r].result.status \in LedgerStatus /\ job[r].result.retryable \in BOOLEAN
      /\ job[r].entry \in Nat
  BY <1>a DEF Job, Result, LedgerStatus
<1>c. NextEntry \in Nat
  BY DEF StoreType, NextEntry
<1>d. {"failed", "expired", "signature_received"} \subseteq LedgerStatus
  BY DEF LedgerStatus, BroadcastStatus
<1>1. ASSUME NEW p \in Prepares, SubmitRead(r, p) PROVE TypeOK'
  <2>1. [ NoJob EXCEPT !.prepare = p, !.start = clock ] \in Job
    BY NoJobType DEF Job, EnvType
  <2>2. [ NoJob EXCEPT !.prepare = p, !.start = clock ].prepare = p
    BY NoJobType DEF Job
  <2>3. RequestType'
    BY <1>1, <2>1, <2>2, RequestUpdate DEF SubmitRead, Goto, Steps
  <2> QED BY <1>1, <2>3, Untouched DEF SubmitRead
<1>2. CASE SubmitExpired(r)
  <2>1. RequestType'
    BY <1>2, RequestReturn DEF SubmitExpired
  <2>2. Record(job[r].prepare, "expired", NoTx, FALSE) \in Submission
    BY <1>2, <1>a, <1>d, RecordType DEF SubmitExpired, At
  <2>3. StoreType'
    BY <1>2, <1>a, <1>c, <2>2, PutType, MarkType DEF SubmitExpired, At, StoreType
  <2> QED BY <1>2, <2>1, <2>3, Untouched DEF SubmitExpired
<1>3. CASE SubmitNotAttempted(r)
  <2>1. RequestType'
    BY <1>3, RequestReturn DEF SubmitNotAttempted
  <2>2. Record(job[r].prepare, "signature_received", NoTx, FALSE) \in Submission
    BY <1>3, <1>a, <1>d, RecordType DEF SubmitNotAttempted, At
  <2>3. StoreType'
    BY <1>3, <2>2, PutType DEF SubmitNotAttempted, StoreType
  <2> QED BY <1>3, <2>1, <2>3, Untouched DEF SubmitNotAttempted
<1>4. CASE SubmitChecked(r)
  <2>1. [ job[r] EXCEPT !.at = clock ] \in Job /\ [ job[r] EXCEPT !.at = clock ].prepare = job[r].prepare
    BY <1>a DEF Job, EnvType
  <2>2. RequestType'
    BY <1>4, <1>a, <2>1, RequestUpdate DEF SubmitChecked, At, Goto, Steps
  <2> QED BY <1>4, <2>2, Untouched DEF SubmitChecked
<1>5. CASE ReserveNonce(r)
  <2>1. [ job[r] EXCEPT !.at = clock ] \in Job /\ [ job[r] EXCEPT !.at = clock ].prepare = job[r].prepare
    BY <1>a DEF Job, EnvType
  <2>2. RequestType'
    BY <1>5, <1>a, <2>1, RequestUpdate, RequestReturn DEF ReserveNonce, At, Goto, Steps, HoldingSteps
  <2>3. StoreType'
    BY <1>5 DEF ReserveNonce, StoreType, EnvType
  <2> QED BY <1>5, <2>2, <2>3, Untouched DEF ReserveNonce
<1>6. CASE LoadState(r)
  <2>1. CurrentState(job[r].prepare) \in BroadcastState
    BY <1>6, <1>a DEF LoadState, At, CurrentState, AdapterType
  <2>2. LET j == [ job[r] EXCEPT !.seen = CurrentState(job[r].prepare) ] IN j \in Job /\ j.prepare = job[r].prepare
    BY <1>a, <2>1 DEF Job
  <2>3. RequestType'
    BY <1>6, <1>a, <2>2, RequestUpdate DEF LoadState, At, Goto, Steps, HoldingSteps
  <2> QED BY <1>6, <2>3, Untouched DEF LoadState
<1>7. CASE ReplayDuplicate(r)
  <2>1. PICK res \in Result : job' = [ job EXCEPT ![r].result = res ]
    BY <1>7, <1>b, FailedType DEF ReplayDuplicate, BroadcastState
  <2>2. RequestType'
    BY <1>7, <2>1, JobResult DEF ReplayDuplicate, At, Steps, HoldingSteps
  <2> QED BY <1>7, <2>2, Untouched DEF ReplayDuplicate
<1>8. CASE AcquireInFlight(r)
  <2>1. FlightType'
    <3> DEFINE o == OrderOf(job[r].prepare)
               w == SubmitterOf(job[r].prepare)
    <3>1. o \in Orders /\ w \in Submitters
      BY <1>8, <1>a, ConstantsAssumption DEF AcquireInFlight, At
    <3>2. /\ orderInFlight' = [ orderInFlight EXCEPT ![o] = @ + 1 ]
          /\ submitterInFlight' = [ submitterInFlight EXCEPT ![w] = @ + 1 ]
      BY <1>8 DEF AcquireInFlight
    <3> HIDE DEF o, w
    <3> QED BY <3>1, <3>2 DEF FlightType
  <2>2. RequestType'
    BY <1>8, RequestStep DEF AcquireInFlight, At, Goto, Steps, HoldingSteps
  <2> QED BY <1>8, <2>1, <2>2, Untouched DEF AcquireInFlight
<1>9. CASE RateLimited(r)
  <2>1. FlightType'
    BY <1>9, <1>a, ReleaseInFlightType DEF RateLimited, At
  <2>2. RequestType'
    BY <1>9, FailedType, JobResult DEF RateLimited, At, Steps, HoldingSteps
  <2> QED BY <1>9, <2>1, <2>2, Untouched DEF RateLimited
<1>10. CASE SendRefused(r)
  <2>1. PICK res \in Result : job' = [ job EXCEPT ![r].result = res ]
    BY <1>10, FailedType DEF SendRefused
  <2>2. RequestType'
    BY <1>10, <2>1, JobResult DEF SendRefused, At, Steps, HoldingSteps
  <2> QED BY <1>10, <2>2, Untouched DEF SendRefused
<1>11. ASSUME NEW t \in TxIds, SendAccepted(r, t) \/ SendAcceptedUnseen(r, t) PROVE TypeOK'
  <2>1. PICK res \in Result, s \in Steps \ {"idle"} :
          /\ pc' = [ pc EXCEPT ![r] = s ]
          /\ job' = [ job EXCEPT ![r] = [ @ EXCEPT !.result = res ] ]
    BY <1>11, FailedType DEF SendAccepted, SendAcceptedUnseen, Goto, Steps, HoldingSteps
  <2>2. LET j == [ job[r] EXCEPT !.result = res ] IN j \in Job /\ j.prepare = job[r].prepare
    BY <1>a DEF Job
  <2>3. RequestType'
    BY <1>11, <1>a, <2>1, <2>2, RequestUpdate DEF SendAccepted, SendAcceptedUnseen, At
  <2>4. EnvType'
    <3>1. job[r].prepare \in Prepares
      BY <1>11, <1>a DEF SendAccepted, SendAcceptedUnseen, At
    <3>2. EnterPool(t, job[r].prepare) /\ UNCHANGED << clock, attemptsBroadcast >>
      BY <1>11 DEF SendAccepted, SendAcceptedUnseen
    <3> QED BY <3>1, <3>2 DEF EnterPool, EnvType
  <2> QED BY <1>11, <2>3, <2>4, Untouched DEF SendAccepted, SendAcceptedUnseen
<1>12. ASSUME NEW t \in TxIds, SendDuplicate(r, t) PROVE TypeOK'
  <2>1. PICK res \in Result : job' = [ job EXCEPT ![r].result = res ]
    BY <1>12, ProbeType DEF SendDuplicate
  <2>2. RequestType'
    BY <1>12, <2>1, JobResult DEF SendDuplicate, At, Steps, HoldingSteps
  <2> QED BY <1>12, <2>2, Untouched DEF SendDuplicate
<1>13. CASE WaitForReceipt(r)
  <2>1. PICK res \in Result : job' = [ job EXCEPT ![r].result = res ]
    BY <1>13, <1>b, ProbeType, FailedType DEF WaitForReceipt
  <2>2. RequestType'
    BY <1>13, <2>1, JobResult DEF WaitForReceipt, At, Steps, HoldingSteps
  <2> QED BY <1>13, <2>2, Untouched DEF WaitForReceipt
<1>14. CASE ClaimTxHash(r)
  <2>1. RequestType'
    BY <1>14, FailedType, JobResult, RequestStep DEF ClaimTxHash, At, Goto, Steps, HoldingSteps
  <2>2. AdapterType'
    BY <1>14, <1>a DEF ClaimTxHash, At, AdapterType
  <2> QED BY <1>14, <2>1, <2>2, Untouched DEF ClaimTxHash
<1>15. CASE ClaimFailed(r)
  <2>1. RequestType'
    BY <1>15, RequestStep DEF ClaimFailed, At, Goto, Steps, HoldingSteps
  <2>2. FlightType'
    BY <1>15, <1>a, ReleaseInFlightType DEF ClaimFailed, At
  <2> QED BY <1>15, <2>1, <2>2, Untouched DEF ClaimFailed
<1>16. CASE SaveState(r)
  <2>1. NewState(r) \in BroadcastState
    BY <1>b DEF NewState, BroadcastState
  <2>2. AdapterType'
    BY <1>16, <2>1 DEF SaveState, AdapterType
  <2>3. RequestType'
    BY <1>16, RequestStep DEF SaveState, At, Goto, Steps, HoldingSteps
  <2>4. FlightType'
    BY <1>16, <1>a, ReleaseInFlightType DEF SaveState, At
  <2> QED BY <1>16, <2>2, <2>3, <2>4, Untouched DEF SaveState
<1>17. CASE PersistSubmission(r)
  <2>1. Record(job[r].prepare, job[r].result.status, job[r].result.tx, job[r].result.retryable) \in Submission
    BY <1>17, <1>a, <1>b, RecordType DEF PersistSubmission, At
  <2>2. ledger' \in Seq(Submission)
    BY <1>17, <2>1, PutType DEF PersistSubmission
  <2>3. StoreType'
    BY <1>17, <1>a, <1>c, <2>2, MarkType, ReleaseType DEF PersistSubmission, At, StoreType
  <2>4. LET j == [ job[r] EXCEPT !.entry = NextEntry ] IN j \in Job /\ j.prepare = job[r].prepare
    BY <1>a, <1>c DEF Job
  <2>5. RequestType'
    BY <1>17, <1>a, <2>4, RequestUpdate, RequestReturn DEF PersistSubmission, At, Goto, Steps
  <2> QED BY <1>17, <2>3, <2>5, Untouched DEF PersistSubmission
<1>18. CASE PersistFailed(r)
  <2>1. Record(job[r].prepare, "failed", job[r].result.tx, FALSE) \in Submission
    BY <1>18, <1>a, <1>b, <1>d, RecordType DEF PersistFailed, At
  <2>2. StoreType'
    BY <1>18, <2>1, PutType DEF PersistFailed, StoreType
  <2>3. RequestType'
    BY <1>18, RequestStep, RequestReturn DEF PersistFailed, At, Goto, Steps, HoldingSteps
  <2> QED BY <1>18, <2>2, <2>3, Untouched DEF PersistFailed
<1>19. CASE RecoverThrown(r)
  <2>1. \A b \in BOOLEAN : Record(job[r].prepare, "failed", NoTx, b) \in Submission
    BY <1>19, <1>a, <1>b, <1>d, RecordType DEF RecoverThrown, At
  <2>2. StoreType'
    BY <1>19, <1>a, <2>1, PutType, ReleaseType DEF RecoverThrown, At, StoreType
  <2>3. RequestType'
    BY <1>19, RequestReturn DEF RecoverThrown
  <2> QED BY <1>19, <2>2, <2>3, Untouched DEF RecoverThrown
<1>20. CASE BindEvidence(r)
  <2>1. StoreType'
    BY <1>20, <1>b DEF BindEvidence, StoreType
  <2>2. RequestType'
    BY <1>20, RequestReturn DEF BindEvidence
  <2> QED BY <1>20, <2>1, <2>2, Untouched DEF BindEvidence
<1> QED BY <1>1, <1>2, <1>3, <1>4, <1>5, <1>6, <1>7, <1>8, <1>9, <1>10, <1>11, <1>12, <1>13, <1>14,
           <1>15, <1>16, <1>17, <1>18, <1>19, <1>20, SubmitStep(r) DEF SubmitStep

(* Every step keeps the type invariant.                                    *)
LEMMA TypeStep == TypeOK /\ [Next]_vars => TypeOK'
<1> SUFFICES ASSUME TypeOK, [Next]_vars PROVE TypeOK'
  OBVIOUS
<1>1. ASSUME NEW p \in Prepares, PrepareSubmit(p) PROVE TypeOK'
  <2>1. Seconds(clock) + Ttl \in Nat
    BY SecondsType, NumberTypes DEF TypeOK, EnvType
  <2>2. StoreType'
    BY <1>1, <2>1 DEF TypeOK, StoreType, PrepareSubmit
  <2>3. RequestType'
    BY <1>1 DEF TypeOK, RequestType, PrepareSubmit
  <2> QED BY <1>1, <2>2, <2>3, Untouched DEF TypeOK, PrepareSubmit
<1>2. CASE Crash
  <2>1. RequestType'
    BY <1>2, NoJobType DEF Crash, RequestType, Steps
  <2>2. AdapterType' /\ FlightType'
    BY <1>2, NoStateType DEF TypeOK, Crash, AdapterType, FlightType
  <2> QED BY <1>2, <2>1, <2>2, Untouched DEF TypeOK, Crash
<1>3. CASE Tick
  <2>1. EnvType' /\ RequestType'
    BY <1>3 DEF TypeOK, Tick, EnvType, RequestType
  <2> QED BY <1>3, <2>1, Untouched DEF TypeOK, Tick
<1>4. ASSUME NEW t \in TxIds, Mine(t) PROVE TypeOK'
  <2>1. EnvType'
    BY <1>4 DEF TypeOK, Mine, EnvType
  <2>2. RequestType'
    BY <1>4 DEF TypeOK, Mine, RequestType
  <2> QED BY <1>4, <2>1, <2>2, Untouched DEF TypeOK, Mine
<1>5. CASE UNCHANGED vars
  BY <1>5 DEF vars, TypeOK, StoreType, AdapterType, FlightType, EnvType, RequestType
<1> QED BY <1>1, <1>2, <1>3, <1>4, <1>5, SubmitTypeStep DEF Next

(* The type invariant holds of every reachable state.                      *)
THEOREM TypeCorrect == Spec => []TypeOK
<1>1. Init => TypeOK
  BY NoJobType, NoStateType
     DEF Init, TypeOK, StoreType, AdapterType, FlightType, EnvType, RequestType, Steps, Unused
<1> QED BY <1>1, TypeStep, PTL DEF Spec

-----------------------------------------------------------------------------
(* What a step of a submit writes.  Of the variables each line names, only *)
(* the actions it lists change one; the other requests are left alone.     *)
LEMMA OthersKept ==
  ASSUME TypeOK, NEW r \in Requests, SubmitStep(r)
  PROVE  /\ \A q \in Requests \ {r} : pc'[q] = pc[q] /\ job'[q] = job[q]
         /\ clock' = clock
BY DEF TypeOK, RequestType, SubmitStep, envVars, Goto, Return,
       SubmitRead, SubmitExpired, SubmitNotAttempted, SubmitChecked, ReserveNonce, LoadState,
       ReplayDuplicate, AcquireInFlight, RateLimited, SendRefused, SendAccepted,
       SendAcceptedUnseen, SendDuplicate, WaitForReceipt, ClaimTxHash, ClaimFailed, SaveState,
       PersistSubmission, PersistFailed, RecoverThrown, BindEvidence

LEMMA Writers ==
  ASSUME NEW r \in Requests, SubmitStep(r)
  PROVE  /\ nonce' = nonce \/ ReserveNonce(r) \/ PersistSubmission(r) \/ RecoverThrown(r)
         /\ prepared' = prepared \/ SubmitExpired(r) \/ PersistSubmission(r)
         /\ \/ ledger' = ledger
            \/ SubmitExpired(r) \/ SubmitNotAttempted(r) \/ PersistSubmission(r)
            \/ PersistFailed(r) \/ RecoverThrown(r)
         /\ bound' = bound \/ BindEvidence(r)
         /\ (states' = states /\ dedupe' = dedupe) \/ SaveState(r)
         /\ (txOwners' = txOwners /\ txOwnersDb' = txOwnersDb) \/ ClaimTxHash(r)
         /\ \/ chain' = chain
            \/ At(r, "send") /\ \E t \in TxIds : SendAccepted(r, t) \/ SendAcceptedUnseen(r, t)
BY DEF SubmitStep, envVars, storeVars, adapterVars,
       SubmitRead, SubmitExpired, SubmitNotAttempted, SubmitChecked, ReserveNonce, LoadState,
       ReplayDuplicate, AcquireInFlight, RateLimited, SendRefused, SendAccepted,
       SendAcceptedUnseen, SendDuplicate, WaitForReceipt, ClaimTxHash, ClaimFailed, SaveState,
       PersistSubmission, PersistFailed, RecoverThrown, BindEvidence

(* The order of the steps of a submit, and what it keeps of its job.       *)
LEMMA Motion ==
  ASSUME TypeOK, NEW r \in Requests, SubmitStep(r)
  PROVE  /\ pc'[r] = "read" => \E p \in Prepares : SubmitRead(r, p)
         /\ pc'[r] = "reserve" => SubmitChecked(r)
         /\ pc'[r] = "load" => ReserveNonce(r)
         /\ pc'[r] = "acquire" => LoadState(r)
         /\ pc'[r] \in HoldingSteps \ {"load"} =>
              pc[r] \in HoldingSteps /\ job'[r].at = job[r].at
         /\ pc'[r] \in InFlightSteps => pc[r] \in InFlightSteps \/ AcquireInFlight(r)
         /\ pc'[r] = "bind" => PersistSubmission(r)
         /\ pc'[r] \notin {"idle", "read"} =>
              /\ pc[r] # "idle"
              /\ job'[r].prepare = job[r].prepare
              /\ job'[r].start = job[r].start
<1> DEFINE Kept == job'[r].prepare = job[r].prepare /\ job'[r].start = job[r].start
           KeptAt == Kept /\ job'[r].at = job[r].at
<1>a. pc[r] \in Steps /\ job[r] \in Job /\ pc \in [ Requests -> Steps ] /\ job \in [ Requests -> Job ]
  BY DEF TypeOK, RequestType
<1>1. ASSUME NEW p \in Prepares, SubmitRead(r, p) PROVE pc'[r] = "read"
  BY <1>1, <1>a DEF SubmitRead, Goto
<1>2. SubmitExpired(r) \/ SubmitNotAttempted(r) \/ RecoverThrown(r) \/ BindEvidence(r) => pc'[r] = "idle"
  BY <1>a DEF SubmitExpired, SubmitNotAttempted, RecoverThrown, BindEvidence, Return
<1>3. SubmitChecked(r) => pc[r] = "read" /\ pc'[r] = "reserve" /\ Kept
  BY <1>a DEF SubmitChecked, At, Goto, Job
<1>4. ReserveNonce(r) => pc[r] = "reserve" /\ (pc'[r] = "idle" \/ (pc'[r] = "load" /\ Kept))
  BY <1>a DEF ReserveNonce, At, Goto, Return, Job
<1>5. LoadState(r) => pc[r] = "load" /\ pc'[r] = "acquire" /\ KeptAt
  BY <1>a DEF LoadState, At, Goto, Job
<1>6. ReplayDuplicate(r) => pc[r] = "acquire" /\ pc'[r] = "persist" /\ KeptAt
  BY <1>a DEF ReplayDuplicate, At, Goto, Job
<1>7. AcquireInFlight(r) => pc[r] = "acquire" /\ pc'[r] \in {"limited", "send"} /\ KeptAt
  BY <1>a DEF AcquireInFlight, At, Goto, Job
<1>8. RateLimited(r) => pc[r] = "limited" /\ pc'[r] = "persist" /\ KeptAt
  BY <1>a DEF RateLimited, At, Goto, Job
<1>9. SendRefused(r) => pc[r] = "send" /\ pc'[r] = "save" /\ KeptAt
  BY <1>a DEF SendRefused, At, Goto, Job
<1>10. ASSUME NEW t \in TxIds, SendAccepted(r, t) \/ SendAcceptedUnseen(r, t) \/ SendDuplicate(r, t)
       PROVE  pc[r] = "send" /\ pc'[r] \in {"receipt", "save", "claim"} /\ KeptAt
  <2>1. PICK res \in Result, s \in {"receipt", "save", "claim"} :
          pc' = [ pc EXCEPT ![r] = s ] /\ job' = [ job EXCEPT ![r].result = res ]
    BY <1>10, FailedType, ProbeType DEF SendAccepted, SendAcceptedUnseen, SendDuplicate, Goto
  <2>2. pc[r] = "send"
    BY <1>10 DEF SendAccepted, SendAcceptedUnseen, SendDuplicate, At
  <2> QED BY <2>1, <2>2, <1>a DEF Job
<1>11. WaitForReceipt(r) => pc[r] = "receipt" /\ pc'[r] = "claim" /\ KeptAt
  BY <1>a DEF WaitForReceipt, At, Goto, Job
<1>12. ClaimTxHash(r) => pc[r] = "claim" /\ pc'[r] = "save" /\ KeptAt
  BY <1>a DEF ClaimTxHash, At, Goto, Job
<1>13. ClaimFailed(r) => pc[r] = "claim" /\ pc'[r] = "recover" /\ KeptAt
  BY <1>a DEF ClaimFailed, At, Goto
<1>14. SaveState(r) => pc[r] = "save" /\ pc'[r] \in {"persist", "recover"} /\ KeptAt
  BY <1>a DEF SaveState, At, Goto
<1>15. PersistSubmission(r) => pc[r] = "persist" /\ (pc'[r] = "idle" \/ (pc'[r] = "bind" /\ KeptAt))
  BY <1>a DEF PersistSubmission, At, Goto, Return, Job
<1>16. PersistFailed(r) => pc[r] = "persist" /\ (pc'[r] = "idle" \/ (pc'[r] = "recover" /\ KeptAt))
  BY <1>a DEF PersistFailed, At, Goto, Return
<1> HIDE DEF Kept
<1> QED
  BY <1>1, <1>2, <1>3, <1>4, <1>5, <1>6, <1>7, <1>8, <1>9, <1>10, <1>11, <1>12, <1>13, <1>14, <1>15,
     <1>16 DEF Kept, SubmitStep, HoldingSteps, InFlightSteps

-----------------------------------------------------------------------------
(* The remaining steps leave the requests alone, or end them all.          *)
LEMMA Environment ==
  ASSUME NEW p, NEW t,
         PrepareSubmit(p) \/ Mine(t) \/ UNCHANGED vars
  PROVE  /\ pc' = pc /\ job' = job /\ clock' = clock /\ nonce' = nonce /\ ledger' = ledger
         /\ bound' = bound /\ states' = states /\ dedupe' = dedupe /\ txOwners' = txOwners
         /\ txOwnersDb' = txOwnersDb /\ orderInFlight' = orderInFlight
         /\ submitterInFlight' = submitterInFlight
         /\ prepared' = prepared \/ PrepareSubmit(p)
         /\ chain' = chain \/ Mine(t)
BY DEF PrepareSubmit, Mine, vars, storeVars, adapterVars, flightVars, envVars

LEMMA Numbers ==
  ASSUME TypeOK, NEW r \in Requests
  PROVE  /\ clock \in Nat /\ job[r].start \in Nat /\ job[r].at \in Nat
         /\ pc[r] \in Steps /\ job[r] \in Job
         /\ pc[r] # "idle" => /\ job[r].prepare \in Prepares
                              /\ nonce[job[r].prepare] \in Nat \cup {NotReserved}
BY DEF TypeOK, EnvType, StoreType, RequestType, Job

(* While a request holds a prepare, no other can reserve it: the row is    *)
(* there and younger than the lifetime of a prepare.                       *)
LEMMA HolderIsYoung ==
  ASSUME TypeOK, ReservationInv, NEW q \in Requests, NEW r \in Requests,
         pc[q] \in HoldingSteps, pc[r] = "reserve", job[q].prepare = job[r].prepare
  PROVE  /\ nonce[job[r].prepare] # NotReserved
         /\ ~Stale(job[r].prepare, job[r].at)
<1>1. /\ nonce[job[r].prepare] = job[q].at /\ job[q].start <= job[q].at
      /\ clock <= job[q].start + MaxSubmitTicks /\ job[r].at <= clock
  BY DEF ReservationInv, HoldingSteps
<1>2. clock \in Nat /\ job[q].at \in Nat /\ job[q].start \in Nat /\ job[r].at \in Nat
  BY Numbers
<1>3. Ttl * TicksPerSecond \in Nat /\ MaxSubmitTicks \in Nat /\ 2 * MaxSubmitTicks <= Ttl * TicksPerSecond
  BY NumberTypes, SubmitTimeAssumption
<1> DEFINE life == Ttl * TicksPerSecond
<1> HIDE DEF life
<1>4. ~(nonce[job[r].prepare] < job[r].at - life)
  BY <1>1, <1>2, <1>3 DEF life
<1> QED BY <1>1, <1>2, <1>4 DEF life, Stale, NotReserved

(* Reservations and the exclusion they give.                               *)
LEMMA ExclusionStep ==
  ASSUME TypeOK, ReservationInv, SubmitExclusion, NEW r \in Requests, SubmitStep(r)
  PROVE  SubmitExclusion'
<1> SUFFICES ASSUME NEW q \in Requests \ {r}, NEW p \in Prepares, Holds(r, p)', Holds(q, p)'
             PROVE  FALSE
  BY OthersKept DEF SubmitExclusion, Holds
<1>1. Holds(q, p)
  BY OthersKept DEF Holds
<1>2. CASE pc'[r] = "load"
  <2>1. ReserveNonce(r) /\ pc[r] = "reserve" /\ job[r].prepare = p
    BY <1>2, Motion DEF ReserveNonce, At, Holds
  <2>2. nonce[p] = NotReserved \/ Stale(p, job[r].at)
    BY <1>2, <2>1, Numbers DEF ReserveNonce, Return, TypeOK, RequestType
  <2> QED BY <1>1, <2>1, <2>2, HolderIsYoung DEF Holds
<1>3. CASE pc'[r] # "load"
  BY <1>1, <1>3, Motion DEF SubmitExclusion, Holds, HoldingSteps
<1> QED BY <1>2, <1>3

LEMMA ReservationStep ==
  ASSUME TypeOK, ReservationInv, SubmitExclusion, NEW r \in Requests, SubmitStep(r)
  PROVE  ReservationInv'
<1> SUFFICES ASSUME NEW q \in Requests
             PROVE  /\ pc'[q] # "idle" => /\ job'[q].start <= clock'
                                          /\ clock' <= job'[q].start + MaxSubmitTicks
                    /\ pc'[q] \in HoldingSteps \cup {"reserve"} => /\ job'[q].start <= job'[q].at
                                                                  /\ job'[q].at <= clock'
                    /\ pc'[q] \in HoldingSteps => nonce'[job'[q].prepare] = job'[q].at
  BY DEF ReservationInv
<1> USE NumberTypes
<1>n. clock' = clock /\ clock \in Nat
  BY OthersKept, Numbers
<1>1. CASE q # r
  <2>1. pc'[q] = pc[q] /\ job'[q] = job[q]
    BY <1>1, OthersKept
  <2>2. ASSUME pc[q] \in HoldingSteps PROVE nonce'[job[q].prepare] = nonce[job[q].prepare]
    <3>1. CASE ReserveNonce(r)
      BY <1>1, <2>2, <3>1, HolderIsYoung, Numbers DEF ReserveNonce, At, Steps, HoldingSteps, TypeOK, StoreType
    <3>2. CASE PersistSubmission(r) \/ RecoverThrown(r)
      <4>1. job[r].prepare # job[q].prepare
        BY <1>1, <2>2, <3>2, Numbers DEF SubmitExclusion, Holds, PersistSubmission, RecoverThrown, At, HoldingSteps
      <4>2. nonce' = nonce \/ nonce' = [ nonce EXCEPT ![job[r].prepare] = NotReserved ]
        BY <3>2 DEF PersistSubmission, RecoverThrown, ReleaseNonce
      <4>3. job[q].prepare \in Prepares
        BY <2>2, Numbers DEF HoldingSteps
      <4> QED BY <4>1, <4>2, <4>3 DEF TypeOK, StoreType
    <3> QED BY <3>1, <3>2, Writers
  <2> QED BY <2>1, <2>2, <1>n DEF ReservationInv
<1>2. CASE q = r
  <2>1. ASSUME NEW p \in Prepares, SubmitRead(r, p)
        PROVE  pc'[r] = "read" /\ job'[r].start = clock
    BY <2>1, NoJobType DEF SubmitRead, Goto, TypeOK, RequestType, Job
  <2>2. ASSUME pc'[r] = "load"
        PROVE  nonce'[job'[r].prepare] = clock /\ job'[r].at = clock
    <3>1. ReserveNonce(r)
      BY <2>2, Motion
    <3>2. /\ nonce' = [ nonce EXCEPT ![job[r].prepare] = clock ]
          /\ job' = [ job EXCEPT ![r].at = clock ]
      BY <2>2, <3>1 DEF ReserveNonce, Return, TypeOK, RequestType
    <3>3. job[r].prepare \in Prepares
      BY <3>1, Numbers DEF ReserveNonce, At
    <3> QED BY <3>2, <3>3, Numbers DEF TypeOK, RequestType, StoreType, Job
  <2>3. SubmitChecked(r) => job'[r].at = clock
    BY Numbers DEF SubmitChecked, TypeOK, RequestType, Job
  <2>4. ASSUME pc'[r] \in HoldingSteps \ {"load"} PROVE nonce' = nonce
    <3>1. ~ReserveNonce(r) /\ ~PersistSubmission(r) /\ ~RecoverThrown(r)
      BY <2>4 DEF ReserveNonce, PersistSubmission, RecoverThrown, Goto, Return, TypeOK, RequestType, HoldingSteps
    <3> QED BY <3>1, Writers
  <2>5. pc'[r] # "idle" => /\ job'[r].start <= clock
                           /\ clock <= job'[r].start + MaxSubmitTicks
    BY <2>1, Motion, Numbers, <1>n DEF ReservationInv
  <2>6. pc'[r] \in HoldingSteps \cup {"reserve"} => /\ job'[r].start <= job'[r].at
                                                    /\ job'[r].at <= clock
    <3>1. CASE pc'[r] \in {"load", "reserve"}
      BY <2>2, <2>3, <2>5, <3>1, Motion, <1>n
    <3>2. CASE pc'[r] \in HoldingSteps \ {"load"}
      BY <3>2, Motion DEF ReservationInv, HoldingSteps
    <3> QED BY <3>1, <3>2
  <2>7. pc'[r] \in HoldingSteps => nonce'[job'[r].prepare] = job'[r].at
    BY <2>2, <2>4, Motion DEF ReservationInv, HoldingSteps
  <2> QED BY <1>2, <1>n, <2>5, <2>6, <2>7
<1> QED BY <1>1, <1>2

-----------------------------------------------------------------------------
(* Where the results that a request carries come from.                     *)
LEMMA Arrivals ==
  ASSUME TypeOK, NEW r \in Requests, SubmitStep(r)
  PROVE  /\ pc'[r] = "receipt" => \E t \in TxIds : SendAccepted(r, t)
         /\ pc'[r] = "claim" => WaitForReceipt(r) \/ \E t \in TxIds : SendDuplicate(r, t)
         /\ pc'[r] = "save" => \/ SendRefused(r) \/ ClaimTxHash(r)
                               \/ \E t \in TxIds : SendAcceptedUnseen(r, t)
         /\ pc'[r] = "persist" => ReplayDuplicate(r) \/ RateLimited(r) \/ SaveState(r)
BY DEF TypeOK, RequestType, SubmitStep, Goto, Return,
       SubmitRead, SubmitExpired, SubmitNotAttempted, SubmitChecked, ReserveNonce, LoadState,
       ReplayDuplicate, AcquireInFlight, RateLimited, SendRefused, SendAccepted,
       SendAcceptedUnseen, SendDuplicate, WaitForReceipt, ClaimTxHash, ClaimFailed, SaveState,
       PersistSubmission, PersistFailed, RecoverThrown, BindEvidence

(* The owner of a hash is the one the durable table names.                 *)
LEMMA OwnerIsDurable ==
  ASSUME ResultInv, NEW t \in TxIds
  PROVE  OwnerOf(t) = txOwnersDb[t]
BY DEF ResultInv, OwnerOf

(* Ownership of a hash and the success of a transaction are never undone.  *)
LEMMA Stable ==
  ASSUME TypeOK, ResultInv, [Next]_vars
  PROVE  /\ \A t \in TxIds, p \in Prepares : txOwnersDb[t] = p => txOwnersDb'[t] = p
         /\ \A t \in TxIds : chain[t].fate = "success" => chain'[t].fate = "success"
<1>1. ASSUME NEW r \in Requests, SubmitStep(r)
      PROVE  \A t \in TxIds, p \in Prepares : txOwnersDb[t] = p => txOwnersDb'[t] = p
  <2>1. CASE ClaimTxHash(r)
    <3>1. CASE UNCHANGED txOwnersDb
      BY <3>1
    <3>2. CASE /\ OwnerOf(job[r].result.tx) \in {NoPrepare, job[r].prepare}
               /\ txOwnersDb' = [ txOwnersDb EXCEPT ![job[r].result.tx] = job[r].prepare ]
      BY <3>2, OwnerIsDurable, ConstantsAssumption DEF TypeOK, AdapterType
    <3> QED BY <2>1, <3>1, <3>2 DEF ClaimTxHash
  <2> QED BY <1>1, <2>1, Writers
<1>2. ASSUME NEW r \in Requests, SubmitStep(r)
      PROVE  \A t \in TxIds : chain[t].fate = "success" => chain'[t].fate = "success"
  BY <1>2, Writers DEF SendAccepted, SendAcceptedUnseen, EnterPool, TypeOK, EnvType
<1>3. ASSUME NEW t \in TxIds, Mine(t)
      PROVE  \A s \in TxIds : chain[s].fate = "success" => chain'[s].fate = "success"
  BY <1>3 DEF Mine, TypeOK, EnvType
<1>4. Crash \/ Tick => UNCHANGED << txOwnersDb, chain >>
  BY DEF Crash, Tick, envVars, adapterVars
<1> QED BY <1>1, <1>2, <1>3, <1>4, Environment DEF Next

(* Hence a result that owned its hash and told the truth still does.       *)
LEMMA ResultStable ==
  ASSUME TypeOK, ResultInv, [Next]_vars, NEW res, NEW p \in Prepares
  PROVE  /\ res.tx \in TxIds \cup {NoTx} /\ Owned(res.tx, p) => Owned(res.tx, p)'
         /\ LandedOk(res) => LandedOk(res)'
BY Stable DEF Owned, LandedOk

(* Results made by the adapters own no hash they did not claim, and say    *)
(* "landed" only of a transaction that succeeded.                          *)
LEMMA FailedResult ==
  ASSUME NEW tx, NEW b \in BOOLEAN
  PROVE  /\ Failed(tx, b).tx = tx
         /\ LandedOk(Failed(tx, b)) /\ LandedOk(Failed(tx, b))'
         /\ \A p \in Prepares : Owned(Failed(NoTx, b).tx, p) /\ Owned(Failed(NoTx, b).tx, p)'
BY DEF Failed, LandedOk, Owned

LEMMA ProbeResult ==
  ASSUME NEW t \in TxIds, NEW res \in ProbeResults(t)
  PROVE  res.tx = t /\ LandedOk(res)
BY DEF ProbeResults, Failed, Landed, LandedOk

LEMMA ResultTypes ==
  ASSUME TypeOK
  PROVE  /\ \A p \in Prepares : /\ states[p].lastResult \in Result /\ dedupe[p].lastResult \in Result
                                /\ states[p].lastResult.tx \in TxIds \cup {NoTx}
                                /\ dedupe[p].lastResult.tx \in TxIds \cup {NoTx}
         /\ \A r \in Requests : /\ job[r].result \in Result /\ job[r].seen.lastResult \in Result
                                /\ job[r].result.tx \in TxIds \cup {NoTx}
                                /\ job[r].seen.lastResult.tx \in TxIds \cup {NoTx}
BY DEF TypeOK, AdapterType, RequestType, Job, BroadcastState, Result

LEMMA ResultStep ==
  ASSUME TypeOK, ResultInv, NEW r \in Requests, SubmitStep(r)
  PROVE  ResultInv'
<1>0. [Next]_vars
  BY DEF Next
<1>t. pc \in [ Requests -> Steps ] /\ job \in [ Requests -> Job ] /\ job[r] \in Job
  BY DEF TypeOK, RequestType
<1>1. (\A t \in TxIds : txOwners[t] # NoPrepare => txOwnersDb[t] = txOwners[t])'
  <2>1. CASE ClaimTxHash(r)
    BY <2>1 DEF ClaimTxHash, ResultInv, TypeOK, AdapterType
  <2> QED BY <2>1, Writers DEF ResultInv
<1>2. ASSUME NEW p \in Prepares
      PROVE  /\ Owned(states[p].lastResult.tx, p)' /\ LandedOk(states[p].lastResult)'
             /\ Owned(dedupe[p].lastResult.tx, p)' /\ LandedOk(dedupe[p].lastResult)'
  <2>1. /\ Owned(states[p].lastResult.tx, p) /\ LandedOk(states[p].lastResult)
        /\ Owned(dedupe[p].lastResult.tx, p) /\ LandedOk(dedupe[p].lastResult)
    BY DEF ResultInv
  <2>2. CASE SaveState(r) /\ p = job[r].prepare
    <3>1. Owned(job[r].result.tx, p) /\ LandedOk(job[r].result)
      BY <2>2 DEF SaveState, At, ResultInv
    <3>2. /\ states'[p].lastResult \in {states[p].lastResult, job[r].result}
          /\ dedupe'[p].lastResult \in {dedupe[p].lastResult, job[r].result}
      BY <2>2 DEF SaveState, NewState, TypeOK, AdapterType
    <3> QED BY <1>0, <2>1, <3>1, <3>2, ResultStable, ResultTypes DEF Owned, LandedOk
  <2>3. CASE ~(SaveState(r) /\ p = job[r].prepare)
    <3>1. states'[p] = states[p] /\ dedupe'[p] = dedupe[p]
      BY <2>3, Writers DEF SaveState, TypeOK, AdapterType
    <3> QED BY <1>0, <2>1, <3>1, ResultStable, ResultTypes DEF Owned, LandedOk
  <2> QED BY <2>2, <2>3
<1> DEFINE Carried(q) ==
       /\ pc[q] \in {"receipt", "claim"} => job[q].result.tx \in TxIds
       /\ pc[q] = "acquire" => /\ Owned(job[q].seen.lastResult.tx, job[q].prepare)
                               /\ LandedOk(job[q].seen.lastResult)
       /\ pc[q] \in {"claim", "save", "persist"} => LandedOk(job[q].result)
       /\ pc[q] \in {"save", "persist"} => Owned(job[q].result.tx, job[q].prepare)
<1>3. ASSUME NEW q \in Requests \ {r} PROVE Carried(q)'
  <2>1. Carried(q) /\ pc'[q] = pc[q] /\ job'[q] = job[q]
    BY OthersKept DEF ResultInv
  <2> QED BY <1>0, <2>1, ResultStable, ResultTypes, Numbers DEF Owned, LandedOk
<1>4. Carried(r)'
  <2>1. ASSUME pc'[r] = "receipt" PROVE job'[r].result.tx \in TxIds
    <3>1. PICK t \in TxIds : SendAccepted(r, t)
      BY <2>1, Arrivals
    <3> QED BY <3>1, <1>t, FailedResult DEF SendAccepted, Job
  <2>2. ASSUME pc'[r] = "claim" PROVE job'[r].result.tx \in TxIds /\ LandedOk(job[r].result)'
    <3>1. PICK t \in TxIds : \E res \in ProbeResults(t) \cup { Failed(t, FALSE) } :
                               job' = [ job EXCEPT ![r].result = res ]
      BY <2>2, Arrivals DEF SendDuplicate, WaitForReceipt, ResultInv, At
    <3>2. PICK res \in ProbeResults(t) \cup { Failed(t, FALSE) } : job' = [ job EXCEPT ![r].result = res ]
      BY <3>1
    <3>3. job'[r].result = res
      BY <3>2, <1>t DEF Job
    <3>4. res.tx = t /\ LandedOk(res)
      BY ProbeResult, FailedResult
    <3>5. chain' = chain
      BY <2>2, Arrivals DEF SendDuplicate, WaitForReceipt, envVars
    <3> QED BY <3>3, <3>4, <3>5 DEF LandedOk
  <2>3. ASSUME pc'[r] = "acquire"
        PROVE  /\ Owned(job[r].seen.lastResult.tx, job[r].prepare)'
               /\ LandedOk(job[r].seen.lastResult)'
    <3>1. LoadState(r)
      BY <2>3, Motion
    <3>2. job[r].prepare \in Prepares
      BY <3>1, Numbers DEF LoadState, At
    <3>3. job'[r].seen = CurrentState(job[r].prepare) /\ job'[r].prepare = job[r].prepare
      BY <3>1, <1>t DEF LoadState, Job
    <3>4. UNCHANGED << txOwnersDb, chain >>
      BY <3>1 DEF LoadState, adapterVars, envVars
    <3> QED BY <3>2, <3>3, <3>4 DEF CurrentState, ResultInv, Owned, LandedOk
  <2>4. ASSUME pc'[r] = "save"
        PROVE  LandedOk(job[r].result)' /\ Owned(job[r].result.tx, job[r].prepare)'
    <3>1. job'[r].prepare = job[r].prepare /\ job[r].prepare \in Prepares
      BY <2>4, Motion, Numbers
    <3>2. CASE \E b \in BOOLEAN : job' = [ job EXCEPT ![r].result = Failed(NoTx, b) ]
      BY <3>1, <3>2, <1>t, FailedResult DEF Job
    <3>3. CASE /\ ClaimTxHash(r) /\ job' = job
               /\ txOwnersDb' = [ txOwnersDb EXCEPT ![job[r].result.tx] = job[r].prepare ]
      BY <3>1, <3>3 DEF ClaimTxHash, At, envVars, ResultInv, Owned, LandedOk, TypeOK, AdapterType
    <3> QED BY <2>4, <3>2, <3>3, Arrivals DEF SendRefused, SendAcceptedUnseen, ClaimTxHash
  <2>5. ASSUME pc'[r] = "persist"
        PROVE  LandedOk(job[r].result)' /\ Owned(job[r].result.tx, job[r].prepare)'
    <3>1. job'[r].prepare = job[r].prepare /\ job[r].prepare \in Prepares
      BY <2>5, Motion, Numbers
    <3>2. CASE \E b \in BOOLEAN : job' = [ job EXCEPT ![r].result = Failed(NoTx, b) ]
      BY <3>1, <3>2, <1>t, FailedResult DEF Job
    <3>3. CASE ReplayDuplicate(r) /\ job' = [ job EXCEPT ![r].result = job[r].seen.lastResult ]
      <4>1. job'[r].result = job[r].seen.lastResult
        BY <3>3, <1>t DEF Job
      <4>2. /\ Owned(job[r].seen.lastResult.tx, job[r].prepare)
            /\ LandedOk(job[r].seen.lastResult)
        BY <3>3 DEF ReplayDuplicate, At, ResultInv
      <4>3. UNCHANGED << txOwnersDb, chain >>
        BY <3>3 DEF ReplayDuplicate, adapterVars, envVars
      <4> QED BY <3>1, <4>1, <4>2, <4>3 DEF Owned, LandedOk
    <3>4. CASE SaveState(r)
      <4>1. /\ Owned(job[r].result.tx, job[r].prepare) /\ LandedOk(job[r].result)
            /\ UNCHANGED << job, txOwnersDb, chain >>
        BY <3>4 DEF SaveState, At, ResultInv, envVars
      <4> QED BY <4>1 DEF Owned, LandedOk
    <3> QED BY <2>5, <3>2, <3>3, <3>4, Arrivals DEF ReplayDuplicate, RateLimited
  <2> QED BY <2>1, <2>2, <2>3, <2>4, <2>5
<1> QED BY <1>1, <1>2, <1>3, <1>4 DEF ResultInv

-----------------------------------------------------------------------------
(* The ledger: entries are appended and never changed.                     *)
LEMMA Appended ==
  ASSUME TypeOK, NEW s \in Submission, ledger' = Append(ledger, s)
  PROVE  /\ Len(ledger') = Len(ledger) + 1
         /\ \A i \in 1..Len(ledger) : ledger'[i] = ledger[i]
         /\ ledger'[NextEntry] = s
         /\ Len(ledger) \in Nat /\ NextEntry = Len(ledger) + 1
BY DEF TypeOK, StoreType, NextEntry

(* What a step appends owns its hash and tells the truth.                  *)
LEMMA LedgerGrows ==
  ASSUME TypeOK, ResultInv, NEW r \in Requests, SubmitStep(r), ledger' # ledger
  PROVE  \E s \in Submission :
           /\ ledger' = Append(ledger, s)
           /\ s.prepare = job[r].prepare
           /\ Owned(s.tx, s.prepare)' /\ LandedOk(s)'
<1> DEFINE p == job[r].prepare
           Good(s) == /\ s \in Submission /\ ledger' = Append(ledger, s) /\ s.prepare = p
                      /\ Owned(s.tx, s.prepare)' /\ LandedOk(s)'
<1>1. {"failed", "expired", "signature_received"} \subseteq LedgerStatus
  BY DEF LedgerStatus, BroadcastStatus
<1>2. /\ job[r].result.tx \in TxIds \cup {NoTx} /\ job[r].result.status \in LedgerStatus
      /\ job[r].result.retryable \in BOOLEAN
  BY Numbers DEF Job, Result, LedgerStatus
<1>3. ASSUME NEW st \in {"failed", "expired", "signature_received"}, NEW b \in BOOLEAN, p \in Prepares,
             PutSubmission(Record(p, st, NoTx, b))
      PROVE  \E s : Good(s)
  <2>1. PICK s \in Submission : s = Record(p, st, NoTx, b)
    BY <1>1, <1>3, RecordType
  <2>2. Good(s)
    BY <1>3, <2>1 DEF PutSubmission, Record, Owned, LandedOk
  <2> QED BY <2>2
<1>4. CASE PersistSubmission(r) \/ (PersistFailed(r) /\ job[r].result.tx # NoTx)
  <2>1. p \in Prepares
    BY <1>4, Numbers DEF PersistSubmission, PersistFailed, At
  <2>2. Owned(job[r].result.tx, p) /\ LandedOk(job[r].result) /\ UNCHANGED << txOwnersDb, chain >>
    BY <1>4 DEF PersistSubmission, PersistFailed, At, ResultInv, adapterVars, envVars
  <2>3. CASE PutSubmission(Record(p, job[r].result.status, job[r].result.tx, job[r].result.retryable))
    <3>1. PICK s \in Submission : s = Record(p, job[r].result.status, job[r].result.tx, job[r].result.retryable)
      BY <1>2, <2>1, RecordType
    <3>2. /\ s.prepare = p /\ s.tx = job[r].result.tx /\ s.status = job[r].result.status
          /\ ledger' = Append(ledger, s)
      BY <2>3, <3>1 DEF Record, PutSubmission
    <3>3. Good(s)
      BY <2>2, <3>2 DEF Owned, LandedOk
    <3> QED BY <3>3
  <2>4. CASE PutSubmission(Record(p, "failed", job[r].result.tx, FALSE))
    <3>1. PICK s \in Submission : s = Record(p, "failed", job[r].result.tx, FALSE)
      BY <1>1, <1>2, <2>1, RecordType
    <3>2. /\ s.prepare = p /\ s.tx = job[r].result.tx /\ s.status = "failed"
          /\ ledger' = Append(ledger, s)
      BY <2>4, <3>1 DEF Record, PutSubmission
    <3>3. Good(s)
      BY <2>2, <3>2 DEF Owned, LandedOk
    <3> QED BY <3>3
  <2> QED BY <1>4, <2>3, <2>4 DEF PersistSubmission, PersistFailed
<1>5. CASE SubmitExpired(r) \/ SubmitNotAttempted(r) \/ RecoverThrown(r)
  <2>1. p \in Prepares
    BY <1>5, Numbers DEF SubmitExpired, SubmitNotAttempted, RecoverThrown, At
  <2>2. \E st \in {"failed", "expired", "signature_received"}, b \in BOOLEAN :
          PutSubmission(Record(p, st, NoTx, b))
    BY <1>5 DEF SubmitExpired, SubmitNotAttempted, RecoverThrown
  <2> QED BY <2>1, <2>2, <1>3
<1>6. CASE PersistFailed(r) /\ job[r].result.tx = NoTx
  BY <1>6 DEF PersistFailed
<1> QED BY <1>4, <1>5, <1>6, Writers

LEMMA LedgerStep ==
  ASSUME TypeOK, ResultInv, LedgerInv, NEW r \in Requests, SubmitStep(r)
  PROVE  LedgerInv'
<1>0. [Next]_vars
  BY DEF Next
<1> DEFINE Landing(i) == i \in 1..Len(ledger) /\ ledger[i].status \in {"submitted", "confirmed"}
<1>1. /\ Len(ledger) \in Nat /\ Len(ledger') \in Nat /\ Len(ledger) <= Len(ledger')
      /\ \A i \in 1..Len(ledger) : ledger'[i] = ledger[i]
      /\ \A i \in 1..Len(ledger) : ledger[i].tx \in TxIds \cup {NoTx} /\ ledger[i].prepare \in Prepares
  <2>1. Len(ledger) \in Nat
    BY DEF TypeOK, StoreType
  <2>2. \A i \in 1..Len(ledger) : ledger[i].tx \in TxIds \cup {NoTx} /\ ledger[i].prepare \in Prepares
    <3>1. \A i \in 1..Len(ledger) : ledger[i] \in Submission
      BY DEF TypeOK, StoreType
    <3> QED BY <3>1 DEF Submission
  <2> QED BY <2>1, <2>2, LedgerGrows, Appended
<1>2. \A i : Landing(i) => Landing(i)'
  BY <1>1
<1>3. ASSUME NEW i \in 1..Len(ledger')
      PROVE  Owned(ledger[i].tx, ledger[i].prepare)' /\ LandedOk(ledger[i])'
  <2>1. CASE i \in 1..Len(ledger)
    <3>1. Owned(ledger[i].tx, ledger[i].prepare) /\ LandedOk(ledger[i])
      BY <2>1 DEF LedgerInv
    <3> QED BY <1>0, <1>1, <2>1, <3>1, ResultStable DEF Owned, LandedOk
  <2>2. CASE i \notin 1..Len(ledger)
    <3>1. PICK s \in Submission : /\ ledger' = Append(ledger, s)
                                  /\ Owned(s.tx, s.prepare)' /\ LandedOk(s)'
      BY <2>2, <1>3, LedgerGrows
    <3>2. ledger'[i] = s
      BY <1>1, <1>3, <2>2, <3>1, Appended
    <3> QED BY <3>1, <3>2 DEF Owned, LandedOk
  <2> QED BY <2>1, <2>2
<1>4. ASSUME NEW q \in Requests, pc'[q] = "bind" PROVE Landing(job[q].entry)'
  <2>1. CASE q # r
    BY <1>2, <1>4, <2>1, OthersKept DEF LedgerInv
  <2>2. CASE q = r
    <3>1. PersistSubmission(r)
      BY <1>4, <2>2, Motion
    <3> DEFINE s == Record(job[r].prepare, job[r].result.status, job[r].result.tx, job[r].result.retryable)
    <3>2. s \in Submission
      BY <3>1, Numbers, RecordType DEF PersistSubmission, At, Job, Result, LedgerStatus
    <3>3. ledger' = Append(ledger, s)
      BY <3>1 DEF PersistSubmission, PutSubmission
    <3>4. job'[r].entry = NextEntry /\ job[r].result.status \in {"submitted", "confirmed"}
      BY <1>4, <2>2, <3>1, Numbers DEF PersistSubmission, Goto, Return, TypeOK, RequestType, Job
    <3>5. s.status = job[r].result.status
      BY DEF Record
    <3> HIDE DEF s
    <3>6. ledger'[NextEntry] = s /\ NextEntry \in 1..Len(ledger')
      BY <3>2, <3>3, Appended
    <3> QED BY <2>2, <3>4, <3>5, <3>6
  <2> QED BY <2>1, <2>2
<1>5. ASSUME NEW i \in bound' PROVE Landing(i)'
  <2>1. bound' = bound \/ (bound' = bound \cup { job[r].entry } /\ pc[r] = "bind")
    BY Writers DEF BindEvidence, At
  <2>2. Landing(i)
    BY <1>5, <2>1 DEF LedgerInv
  <2> QED BY <1>2, <2>2
<1> QED BY <1>3, <1>4, <1>5 DEF LedgerInv

(* A prepare is marked used together with the record that used it.         *)
LEMMA MarkedBy ==
  ASSUME TypeOK, NEW r \in Requests, SubmitStep(r), NEW p \in Prepares
  PROVE  /\ prepared'[p].deadline = prepared[p].deadline
         /\ prepared'[p].usedBy # prepared[p].usedBy =>
              /\ p = job[r].prepare
              /\ prepared'[p].usedBy = NextEntry
              /\ \/ /\ SubmitExpired(r)
                    /\ ledger' = Append(ledger, Record(p, "expired", NoTx, FALSE))
                 \/ /\ PersistSubmission(r) /\ ~Reusable(job[r].result)
                    /\ ledger' = Append(ledger, Record(p, job[r].result.status, job[r].result.tx,
                                                       job[r].result.retryable))
<1>1. prepared \in [ Prepares -> [ deadline : Nat \cup {NoDeadline}, usedBy : Nat ] ]
  BY DEF TypeOK, StoreType
<1>2. CASE SubmitExpired(r)
  BY <1>1, <1>2 DEF SubmitExpired, MarkPreparedUsed, PutSubmission
<1>3. CASE PersistSubmission(r)
  <2>1. \/ prepared' = prepared
        \/ /\ prepared' = [ prepared EXCEPT ![job[r].prepare].usedBy = NextEntry ]
           /\ ~Reusable(job[r].result)
    BY <1>3 DEF PersistSubmission, MarkPreparedUsed
  <2>2. ledger' = Append(ledger, Record(job[r].prepare, job[r].result.status, job[r].result.tx,
                                        job[r].result.retryable))
    BY <1>3 DEF PersistSubmission, PutSubmission
  <2>3. CASE p = job[r].prepare
    BY <1>1, <1>3, <2>1, <2>2, <2>3
  <2>4. CASE p # job[r].prepare
    BY <1>1, <2>1, <2>4
  <2> QED BY <2>3, <2>4
<1> QED BY <1>2, <1>3, Writers

LEMMA ConsumedStep ==
  ASSUME TypeOK, ResultInv, UsedPrepareIsConsumed, NEW r \in Requests, SubmitStep(r)
  PROVE  UsedPrepareIsConsumed'
<1> SUFFICES ASSUME NEW p \in Prepares, prepared'[p].usedBy # Unused
             PROVE  LET e == prepared'[p].usedBy IN
                    /\ e \in 1..Len(ledger')
                    /\ ledger'[e].prepare = p
                    /\ ledger'[e].status # "signature_received"
                    /\ ~(ledger'[e].status = "failed" /\ ledger'[e].retryable /\ ledger'[e].tx = NoTx)
  BY DEF UsedPrepareIsConsumed
<1>1. CASE prepared'[p].usedBy = prepared[p].usedBy
  <2>1. /\ Len(ledger) \in Nat /\ Len(ledger') \in Nat /\ Len(ledger) <= Len(ledger')
        /\ \A i \in 1..Len(ledger) : ledger'[i] = ledger[i]
    <3>1. Len(ledger) \in Nat
      BY DEF TypeOK, StoreType
    <3> QED BY <3>1, LedgerGrows, Appended
  <2> QED BY <1>1, <2>1 DEF UsedPrepareIsConsumed
<1>2. CASE prepared'[p].usedBy # prepared[p].usedBy
  <2>1. PICK s : /\ ledger' = Append(ledger, s) /\ s \in Submission
                 /\ s.prepare = p /\ s.status # "signature_received"
                 /\ ~(s.status = "failed" /\ s.retryable /\ s.tx = NoTx)
    <3>1. CASE ledger' = Append(ledger, Record(p, "expired", NoTx, FALSE))
      <4>1. Record(p, "expired", NoTx, FALSE) \in Submission
        BY RecordType DEF LedgerStatus
      <4> QED BY <3>1, <4>1 DEF Record
    <3>2. CASE /\ ~Reusable(job[r].result)
               /\ ledger' = Append(ledger, Record(p, job[r].result.status, job[r].result.tx,
                                                  job[r].result.retryable))
      <4>1. /\ job[r].result.status \in BroadcastStatus /\ job[r].result.tx \in TxIds \cup {NoTx}
            /\ job[r].result.retryable \in BOOLEAN
        BY Numbers DEF Job, Result
      <4>2. Record(p, job[r].result.status, job[r].result.tx, job[r].result.retryable) \in Submission
        BY <4>1, RecordType DEF LedgerStatus
      <4> QED BY <3>2, <4>1, <4>2 DEF Record, Reusable, BroadcastStatus
    <3> QED BY <1>2, <3>1, <3>2, MarkedBy
  <2>2. ledger'[NextEntry] = s /\ NextEntry \in 1..Len(ledger')
    BY <2>1, Appended
  <2> QED BY <1>2, <2>1, <2>2, MarkedBy
<1> QED BY <1>1, <1>2

-----------------------------------------------------------------------------
(* Settled outcomes.                                                       *)
LEMMA SettledStep ==
  ASSUME TypeOK, SubmitExclusion, SettledInv, NEW r \in Requests, SubmitStep(r)
  PROVE  SettledInv'
<1> SUFFICES ASSUME NEW p \in Prepares, Settled(dedupe'[p])
             PROVE  /\ states'[p].attempts = 0 \/ Settled(states'[p])
                    /\ \A q \in Requests : Holds(q, p)' =>
                         /\ pc'[q] \notin InFlightSteps
                         /\ pc'[q] = "acquire" => Settled(job'[q].seen)
  BY DEF SettledInv, Settled
<1>1. CASE SaveState(r) /\ job[r].prepare = p
  <2>1. Holds(r, p) /\ pc[r] \in InFlightSteps
    BY <1>1 DEF SaveState, At, Holds, HoldingSteps, InFlightSteps
  <2>2. ~Settled(dedupe[p])
    BY <2>1 DEF SettledInv
  <2>3. dedupe'[p] = states'[p]
    BY <1>1, <2>2 DEF SaveState, TypeOK, AdapterType
  <2>4. ASSUME NEW q \in Requests, Holds(q, p)' PROVE q = r
    BY <2>1, <2>4, OthersKept DEF SubmitExclusion, Holds
  <2>5. pc'[r] \in {"persist", "recover"}
    BY <1>1 DEF SaveState, Goto, TypeOK, RequestType
  <2> QED BY <2>3, <2>4, <2>5 DEF InFlightSteps
<1>2. CASE ~(SaveState(r) /\ job[r].prepare = p)
  <2>1. dedupe'[p] = dedupe[p] /\ states'[p] = states[p]
    BY <1>2, Writers DEF SaveState, TypeOK, AdapterType
  <2>2. ASSUME NEW q \in Requests, Holds(q, p)'
        PROVE  /\ pc'[q] \notin InFlightSteps
               /\ pc'[q] = "acquire" => Settled(job'[q].seen)
    <3>1. CASE q # r
      BY <2>1, <2>2, <3>1, OthersKept DEF SettledInv, Holds
    <3>2. CASE q = r
      <4>1. CASE pc'[r] = "acquire"
        <5>1. LoadState(r) /\ job[r].prepare = p
          BY <2>2, <3>2, <4>1, Motion DEF Holds
        <5>2. job'[r].seen = CurrentState(p)
          BY <5>1, Numbers DEF LoadState, TypeOK, RequestType, Job
        <5> QED BY <2>1, <3>2, <4>1, <5>2 DEF SettledInv, CurrentState, InFlightSteps
      <4>2. CASE pc'[r] \in InFlightSteps
        <5>1. Holds(r, p)
          BY <2>2, <3>2, <4>2, Motion DEF Holds, InFlightSteps, HoldingSteps
        <5>2. AcquireInFlight(r)
          BY <2>1, <4>2, <5>1, Motion DEF SettledInv
        <5> QED BY <2>1, <5>1, <5>2 DEF SettledInv, AcquireInFlight, At
      <4> QED BY <3>2, <4>1, <4>2
    <3> QED BY <3>1, <3>2
  <2> QED BY <2>1, <2>2 DEF SettledInv
<1> QED BY <1>1, <1>2

-----------------------------------------------------------------------------
(* Time does not take back an expiry.                                      *)
LEMMA SecondsGrow ==
  ASSUME NEW n \in Nat
  PROVE  Seconds(n) <= Seconds(n + 1)
<1>1. TicksPerSecond \in Nat /\ TicksPerSecond > 0
  BY NumberTypes
<1>2. ASSUME NEW d \in Nat, d > 0 PROVE n \div d <= (n + 1) \div d
  BY <1>2
<1> QED BY <1>1, <1>2 DEF Seconds

LEMMA UsedStep ==
  ASSUME TypeOK, PreparedInv, ReservationInv, SubmitExclusion, UsedInv,
         NEW r \in Requests, SubmitStep(r)
  PROVE  UsedInv'
<1> SUFFICES ASSUME NEW p \in Prepares, prepared'[p].usedBy # Unused
             PROVE  /\ prepared'[p].deadline # NoDeadline
                    /\ \/ Expired(p)'
                       \/ /\ nonce'[p] # NotReserved
                          /\ \A q \in Requests : pc'[q] # "idle" /\ job'[q].prepare = p =>
                               /\ pc'[q] \notin HoldingSteps
                               /\ pc'[q] \in {"read", "reserve"} => job'[q].start <= nonce'[p] + MaxSubmitTicks
  BY DEF UsedInv
<1>1. prepared'[p].deadline = prepared[p].deadline /\ (Expired(p)' <=> Expired(p))
  BY MarkedBy, OthersKept DEF Expired, Seconds
<1>2. CASE prepared'[p].usedBy = prepared[p].usedBy
  <2>1. CASE Expired(p)
    BY <1>1, <1>2, <2>1 DEF UsedInv
  <2>2. CASE ~Expired(p)
    <3>1. /\ nonce[p] # NotReserved
          /\ \A q \in Requests : pc[q] # "idle" /\ job[q].prepare = p =>
               /\ pc[q] \notin HoldingSteps
               /\ pc[q] \in {"read", "reserve"} => job[q].start <= nonce[p] + MaxSubmitTicks
      BY <1>2, <2>2 DEF UsedInv
    <3>2. ASSUME ReserveNonce(r), job[r].prepare = p PROVE ~Stale(p, job[r].at)
      <4>1. /\ job[r].start <= nonce[p] + MaxSubmitTicks
            /\ job[r].at <= clock /\ clock <= job[r].start + MaxSubmitTicks
        BY <3>1, <3>2 DEF ReserveNonce, At, ReservationInv
      <4>2. nonce[p] \in Int /\ job[r].start \in Nat /\ job[r].at \in Nat /\ clock \in Nat
        BY Numbers DEF TypeOK, StoreType, NotReserved
      <4> DEFINE life == Ttl * TicksPerSecond
      <4>3. life \in Nat /\ MaxSubmitTicks \in Nat /\ 2 * MaxSubmitTicks <= life
        BY NumberTypes, SubmitTimeAssumption
      <4> HIDE DEF life
      <4>4. ~(nonce[p] < job[r].at - life)
        BY <4>1, <4>2, <4>3
      <4> QED BY <4>4 DEF life, Stale
    <3>3. nonce'[p] = nonce[p]
      <4>1. CASE ReserveNonce(r)
        BY <3>1, <3>2, <4>1 DEF ReserveNonce, TypeOK, StoreType
      <4>2. CASE PersistSubmission(r) \/ RecoverThrown(r)
        <5>1. job[r].prepare # p
          BY <3>1, <4>2 DEF PersistSubmission, RecoverThrown, At, HoldingSteps
        <5>2. nonce' = nonce \/ nonce' = [ nonce EXCEPT ![job[r].prepare] = NotReserved ]
          BY <4>2 DEF PersistSubmission, RecoverThrown, ReleaseNonce
        <5> QED BY <5>1, <5>2 DEF TypeOK, StoreType
      <4> QED BY <4>1, <4>2, Writers
    <3>4. ASSUME NEW q \in Requests, pc'[q] # "idle", job'[q].prepare = p
          PROVE  /\ pc'[q] \notin HoldingSteps
                 /\ pc'[q] \in {"read", "reserve"} => job'[q].start <= nonce[p] + MaxSubmitTicks
      <4>1. CASE q # r
        BY <3>1, <3>4, <4>1, OthersKept
      <4>2. CASE q = r
        <5>1. ASSUME NEW x \in Prepares, SubmitRead(r, x) PROVE FALSE
          <6>1. job'[r].prepare = x
            BY <5>1, NoJobType DEF SubmitRead, TypeOK, RequestType, Job
          <6> QED BY <1>2, <3>4, <4>2, <5>1, <6>1 DEF SubmitRead
        <5>2. pc'[r] # "read"
          BY <5>1, Motion
        <5>3. pc[r] # "idle" /\ job[r].prepare = p /\ job'[r].start = job[r].start
          BY <3>4, <4>2, <5>2, Motion
        <5>4. pc[r] \notin HoldingSteps
          BY <3>1, <5>3
        <5>5. pc'[r] # "load"
          <6> SUFFICES ASSUME pc'[r] = "load" PROVE FALSE
            OBVIOUS
          <6>1. ReserveNonce(r)
            BY Motion
          <6> QED BY <3>1, <3>2, <5>3, <6>1 DEF ReserveNonce, Return, TypeOK, RequestType
        <5>6. pc'[r] \notin HoldingSteps
          BY <5>4, <5>5, Motion
        <5>7. pc'[r] = "reserve" => pc[r] = "read"
          BY Motion DEF SubmitChecked, At
        <5> QED BY <3>1, <4>2, <5>2, <5>3, <5>6, <5>7
      <4> QED BY <4>1, <4>2
    <3> QED BY <1>1, <1>2, <3>1, <3>3, <3>4 DEF UsedInv
  <2> QED BY <2>1, <2>2
<1>3. CASE prepared'[p].usedBy # prepared[p].usedBy
  <2>1. p = job[r].prepare /\ (SubmitExpired(r) \/ (PersistSubmission(r) /\ ~Reusable(job[r].result)))
    BY <1>3, MarkedBy
  <2>2. prepared[p].deadline # NoDeadline
    BY <2>1 DEF PreparedInv, SubmitExpired, PersistSubmission, At
  <2>3. CASE SubmitExpired(r)
    BY <1>1, <2>1, <2>2, <2>3 DEF SubmitExpired
  <2>4. CASE PersistSubmission(r) /\ ~Reusable(job[r].result)
    <3>1. nonce' = nonce /\ pc[r] = "persist" /\ pc'[r] \in {"idle", "bind"}
      BY <2>4 DEF PersistSubmission, At, Goto, Return, TypeOK, RequestType
    <3>2. /\ nonce[p] = job[r].at /\ job[r].start <= job[r].at /\ clock <= job[r].start + MaxSubmitTicks
      BY <2>1, <3>1 DEF ReservationInv, HoldingSteps
    <3>3. job[r].at \in Nat /\ job[r].start \in Nat /\ clock \in Nat /\ MaxSubmitTicks \in Nat
      BY Numbers, NumberTypes
    <3>4. ASSUME NEW q \in Requests, pc'[q] # "idle", job'[q].prepare = p
          PROVE  /\ pc'[q] \notin HoldingSteps
                 /\ pc'[q] \in {"read", "reserve"} => job'[q].start <= nonce[p] + MaxSubmitTicks
      <4>1. CASE q # r
        <5>1. pc'[q] = pc[q] /\ job'[q] = job[q]
          BY <4>1, OthersKept
        <5>2. pc[q] \notin HoldingSteps
          BY <2>1, <3>1, <3>4, <4>1, <5>1 DEF SubmitExclusion, Holds, HoldingSteps
        <5>3. job[q].start <= clock /\ job[q].start \in Nat
          BY <3>4, <5>1, Numbers DEF ReservationInv
        <5> QED BY <3>2, <3>3, <5>1, <5>2, <5>3
      <4>2. CASE q = r
        BY <3>1, <3>4, <4>2 DEF HoldingSteps
      <4> QED BY <4>1, <4>2
    <3>5. nonce'[p] # NotReserved
      BY <3>1, <3>2, <3>3 DEF NotReserved
    <3> QED BY <1>1, <2>2, <3>1, <3>4, <3>5
  <2> QED BY <2>1, <2>3, <2>4
<1> QED BY <1>2, <1>3

LEMMA PreparedStep ==
  ASSUME TypeOK, PreparedInv, NEW r \in Requests, SubmitStep(r)
  PROVE  PreparedInv'
<1> SUFFICES ASSUME NEW q \in Requests, pc'[q] # "idle"
             PROVE  prepared'[job'[q].prepare].deadline # NoDeadline
  BY DEF PreparedInv
<1>1. \A p \in Prepares : prepared'[p].deadline = prepared[p].deadline
  BY MarkedBy
<1>2. CASE q # r
  BY <1>1, <1>2, OthersKept, Numbers DEF PreparedInv
<1>3. CASE q = r /\ pc'[r] # "read"
  BY <1>1, <1>3, Motion, Numbers DEF PreparedInv
<1>4. CASE q = r /\ pc'[r] = "read"
  <2>1. PICK p \in Prepares : SubmitRead(r, p)
    BY <1>4, Motion
  <2>2. job'[r].prepare = p
    BY <2>1, NoJobType DEF SubmitRead, TypeOK, RequestType, Job
  <2> QED BY <1>1, <1>4, <2>1, <2>2 DEF SubmitRead
<1> QED BY <1>2, <1>3, <1>4

-----------------------------------------------------------------------------
(* The invariant is inductive.                                             *)
LEMMA PrepareSubmitStep ==
  ASSUME IndInv, NEW p \in Prepares, PrepareSubmit(p)
  PROVE  IndInv'
<1>0. TypeOK'
  BY TypeStep DEF IndInv, Next
<1>1. /\ pc' = pc /\ job' = job /\ clock' = clock /\ nonce' = nonce /\ ledger' = ledger
      /\ bound' = bound /\ states' = states /\ dedupe' = dedupe /\ txOwners' = txOwners
      /\ txOwnersDb' = txOwnersDb /\ chain' = chain
  BY DEF PrepareSubmit, adapterVars, flightVars, envVars
<1>2. /\ prepared'[p].deadline # NoDeadline /\ prepared'[p].usedBy = prepared[p].usedBy
      /\ \A x \in Prepares \ {p} : prepared'[x] = prepared[x]
  <2>1. Seconds(clock) + Ttl \in Nat
    BY SecondsType, NumberTypes DEF IndInv, TypeOK, EnvType
  <2> QED BY <2>1 DEF PrepareSubmit, IndInv, TypeOK, StoreType, NoDeadline
<1>3. PreparedInv'
  BY <1>1, <1>2, Numbers DEF IndInv, PreparedInv
<1>4. ReservationInv' /\ SubmitExclusion' /\ SettledInv'
  BY <1>1 DEF IndInv, ReservationInv, SubmitExclusion, Holds, SettledInv, Settled
<1>5. ResultInv' /\ LedgerInv'
  BY <1>1 DEF IndInv, ResultInv, LedgerInv, Owned, LandedOk
<1>6. UsedPrepareIsConsumed'
  BY <1>1, <1>2 DEF IndInv, UsedPrepareIsConsumed
<1>7. UsedInv'
  <2>1. prepared[p].usedBy = Unused
    BY DEF PrepareSubmit, IndInv, UsedInv
  <2>2. \A x \in Prepares \ {p} : Expired(x)' <=> Expired(x)
    BY <1>1, <1>2 DEF Expired, Seconds
  <2> QED BY <1>1, <1>2, <2>1, <2>2 DEF IndInv, UsedInv
<1> QED BY <1>0, <1>3, <1>4, <1>5, <1>6, <1>7 DEF IndInv

LEMMA MineStep ==
  ASSUME IndInv, NEW t \in TxIds, Mine(t)
  PROVE  IndInv'
<1>0. TypeOK' /\ [Next]_vars
  BY TypeStep DEF IndInv, Next
<1>1. /\ pc' = pc /\ job' = job /\ clock' = clock /\ nonce' = nonce /\ ledger' = ledger
      /\ bound' = bound /\ states' = states /\ dedupe' = dedupe /\ txOwners' = txOwners
      /\ txOwnersDb' = txOwnersDb /\ prepared' = prepared
  BY DEF Mine, storeVars, adapterVars, flightVars
<1>2. \A res : LandedOk(res) => LandedOk(res)'
  BY <1>0, Stable DEF IndInv, LandedOk
<1>3. PreparedInv' /\ ReservationInv' /\ SubmitExclusion' /\ SettledInv'
  BY <1>1 DEF IndInv, PreparedInv, ReservationInv, SubmitExclusion, Holds, SettledInv, Settled
<1>4. ResultInv'
  <2>1. \A p \in Prepares : LandedOk(states[p].lastResult)' /\ LandedOk(dedupe[p].lastResult)'
    BY <1>1, <1>2 DEF IndInv, ResultInv, LandedOk
  <2>2. \A r \in Requests :
          /\ pc[r] = "acquire" => LandedOk(job[r].seen.lastResult)'
          /\ pc[r] \in {"claim", "save", "persist"} => LandedOk(job[r].result)'
    BY <1>1, <1>2 DEF IndInv, ResultInv, LandedOk
  <2> QED BY <1>1, <2>1, <2>2 DEF IndInv, ResultInv, Owned
<1>5. LedgerInv'
  <2>1. \A i \in 1..Len(ledger) : LandedOk(ledger[i])'
    BY <1>1, <1>2 DEF IndInv, LedgerInv, LandedOk
  <2> QED BY <1>1, <2>1 DEF IndInv, LedgerInv, Owned
<1>6. UsedPrepareIsConsumed' /\ UsedInv'
  BY <1>1 DEF IndInv, UsedPrepareIsConsumed, UsedInv, Expired, Seconds
<1> QED BY <1>0, <1>3, <1>4, <1>5, <1>6 DEF IndInv

LEMMA TickStep ==
  ASSUME IndInv, Tick
  PROVE  IndInv'
<1>0. TypeOK'
  BY TypeStep DEF IndInv, Next
<1>1. /\ pc' = pc /\ job' = job /\ clock' = clock + 1 /\ nonce' = nonce /\ ledger' = ledger
      /\ bound' = bound /\ states' = states /\ dedupe' = dedupe /\ txOwners' = txOwners
      /\ txOwnersDb' = txOwnersDb /\ prepared' = prepared /\ chain' = chain
  BY DEF Tick, storeVars, adapterVars, flightVars
<1>2. PreparedInv' /\ SubmitExclusion' /\ SettledInv'
  BY <1>1 DEF IndInv, PreparedInv, SubmitExclusion, Holds, SettledInv, Settled
<1>3. ReservationInv'
  BY <1>1, Numbers, NumberTypes DEF IndInv, ReservationInv, Tick
<1>4. ResultInv' /\ LedgerInv' /\ UsedPrepareIsConsumed'
  BY <1>1 DEF IndInv, ResultInv, LedgerInv, Owned, LandedOk, UsedPrepareIsConsumed
<1>5. \A p \in Prepares : Expired(p) => Expired(p)'
  <2>1. clock \in Nat /\ \A p \in Prepares : prepared[p].deadline \in Int
    BY DEF IndInv, TypeOK, EnvType, StoreType, NoDeadline
  <2>2. Seconds(clock) <= Seconds(clock + 1) /\ Seconds(clock) \in Nat /\ Seconds(clock + 1) \in Nat
    BY <2>1, SecondsGrow, SecondsType
  <2>3. Seconds(clock)' = Seconds(clock + 1)
    BY <1>1 DEF Seconds
  <2> QED BY <1>1, <2>1, <2>2, <2>3 DEF Expired
<1>6. UsedInv'
  BY <1>1, <1>5 DEF IndInv, UsedInv
<1> QED BY <1>0, <1>2, <1>3, <1>4, <1>6 DEF IndInv

LEMMA CrashStep ==
  ASSUME IndInv, Crash
  PROVE  IndInv'
<1>0. TypeOK'
  BY TypeStep DEF IndInv, Next
<1>1. /\ clock' = clock /\ nonce' = nonce /\ ledger' = ledger /\ bound' = bound /\ dedupe' = dedupe
      /\ txOwnersDb' = txOwnersDb /\ prepared' = prepared /\ chain' = chain
      /\ \A r \in Requests : pc'[r] = "idle"
      /\ \A p \in Prepares : states'[p] = NoState
      /\ \A t \in TxIds : txOwners'[t] = NoPrepare
  BY DEF Crash, storeVars, envVars
<1>2. PreparedInv' /\ ReservationInv' /\ SubmitExclusion'
  BY <1>1 DEF PreparedInv, ReservationInv, SubmitExclusion, Holds, HoldingSteps
<1>3. ResultInv'
  <2>1. \A p \in Prepares : Owned(states[p].lastResult.tx, p)' /\ LandedOk(states[p].lastResult)'
    BY <1>1 DEF NoState, Failed, Owned, LandedOk
  <2>2. \A p \in Prepares : Owned(dedupe[p].lastResult.tx, p)' /\ LandedOk(dedupe[p].lastResult)'
    BY <1>1 DEF IndInv, ResultInv, Owned, LandedOk
  <2> QED BY <1>1, <2>1, <2>2 DEF ResultInv
<1>4. LedgerInv' /\ UsedPrepareIsConsumed'
  BY <1>1 DEF IndInv, LedgerInv, Owned, LandedOk, UsedPrepareIsConsumed
<1>5. SettledInv'
  BY <1>1 DEF SettledInv, Holds, HoldingSteps, NoState
<1>6. UsedInv'
  BY <1>1 DEF IndInv, UsedInv, Expired, Seconds
<1> QED BY <1>0, <1>2, <1>3, <1>4, <1>5, <1>6 DEF IndInv

LEMMA IndStep == IndInv /\ [Next]_vars => IndInv'
<1> SUFFICES ASSUME IndInv, [Next]_vars PROVE IndInv'
  OBVIOUS
<1>1. ASSUME NEW r \in Requests, SubmitStep(r) PROVE IndInv'
  <2>1. TypeOK'
    BY TypeStep DEF IndInv
  <2> QED BY <1>1, <2>1, PreparedStep, ReservationStep, ExclusionStep, ResultStep, LedgerStep,
             ConsumedStep, SettledStep, UsedStep DEF IndInv
<1>2. CASE UNCHANGED vars
  BY <1>2 DEF vars, IndInv, TypeOK, StoreType, AdapterType, FlightType, EnvType, RequestType,
     PreparedInv, ReservationInv, SubmitExclusion, Holds, ResultInv, Owned, LandedOk, LedgerInv,
     UsedPrepareIsConsumed, SettledInv, Settled, UsedInv, Expired, Seconds
<1> QED BY <1>1, <1>2, PrepareSubmitStep, MineStep, TickStep, CrashStep DEF Next

LEMMA IndInit == Init => IndInv
<1> SUFFICES ASSUME Init PROVE IndInv
  OBVIOUS
<1>1. TypeOK
  BY NoJobType, NoStateType
     DEF Init, TypeOK, StoreType, AdapterType, FlightType, EnvType, RequestType, Steps, Unused
<1>2. PreparedInv /\ ReservationInv /\ SubmitExclusion
  BY DEF Init, PreparedInv, ReservationInv, SubmitExclusion, Holds, HoldingSteps
<1>3. ResultInv
  BY DEF Init, ResultInv, NoState, Failed, Owned, LandedOk
<1>4. LedgerInv /\ UsedPrepareIsConsumed
  BY DEF Init, LedgerInv, UsedPrepareIsConsumed
<1>5. SettledInv /\ UsedInv
  BY DEF Init, SettledInv, UsedInv, Settled, NoState, Unused
<1> QED BY <1>1, <1>2, <1>3, <1>4, <1>5 DEF IndInv

(* The inductive invariant of the submission lane: reservations, results,  *)
(* the ledger and the durable deduplication state agree in every reachable *)
(* state.                                                                  *)
THEOREM Inductive == Spec => []IndInv
BY IndInit, IndStep, PTL DEF Spec

(* submit: no two requests are between the reservation and the end of the  *)
(* persisting transaction of one prepare, stale takeovers included.        *)
THEOREM Exclusive == Spec => []SubmitExclusion
<1>1. IndInv => SubmitExclusion
  BY DEF IndInv
<1> QED BY <1>1, Inductive, PTL

(* The persist block of submit: landed records, bound evidence and used    *)
(* prepares tell the truth about the chain and the ledger.                 *)
THEOREM Truthful == Spec => []RecordsTruthful
<1>1. IndInv => RecordsTruthful
  <2> SUFFICES ASSUME IndInv PROVE LandedMeansSuccess
    BY DEF RecordsTruthful, IndInv
  <2>1. \A i \in 1..Len(ledger) : LandedOk(ledger[i])
    BY DEF IndInv, LedgerInv
  <2> QED BY <2>1, ConstantsAssumption DEF IndInv, LedgerInv, LandedMeansSuccess, LandedOk
<1> QED BY <1>1, Inductive, PTL

(* duplicateTxHashResult: records of different prepares never share a      *)
(* transaction hash.                                                       *)
THEOREM OneOwner == Spec => []TxHashOwnedByOnePrepare
<1>1. IndInv => TxHashOwnedByOnePrepare
  BY DEF IndInv, LedgerInv, Owned, TxHashOwnedByOnePrepare
<1> QED BY <1>1, Inductive, PTL

-----------------------------------------------------------------------------
(* Nothing is sent twice: a transaction enters the pool only in the send   *)
(* step of a request, which a settled or used prepare does not allow.      *)
LEMMA SendsInSendStep ==
  ASSUME IndInv, [Next]_vars, NEW p \in Prepares, SendsFor(p)
  PROVE  \E r \in Requests : Holds(r, p) /\ pc[r] = "send" /\ ~Expired(p)
<1>1. PICK t \in TxIds : chain[t].prepare # p /\ chain'[t].prepare = p
  BY DEF SendsFor
<1>2. ASSUME NEW s \in TxIds, Mine(s) PROVE FALSE
  BY <1>1, <1>2 DEF Mine, IndInv, TypeOK, EnvType
<1>3. chain' # chain
  BY <1>1
<1>4. PICK r \in Requests : SubmitStep(r)
  BY <1>2, <1>3 DEF Next, PrepareSubmit, Crash, Tick, vars, envVars
<1>5. PICK s \in TxIds : At(r, "send") /\ (SendAccepted(r, s) \/ SendAcceptedUnseen(r, s))
  BY <1>3, <1>4, Writers
<1>6. EnterPool(s, job[r].prepare) /\ ~Expired(job[r].prepare)
  BY <1>5 DEF SendAccepted, SendAcceptedUnseen
<1>7. job[r].prepare = p
  BY <1>1, <1>6 DEF EnterPool, IndInv, TypeOK, EnvType
<1> QED BY <1>5, <1>6, <1>7 DEF At, Holds, HoldingSteps

(* submit and the secure broadcast adapter: nothing is sent for a prepare  *)
(* whose durable outcome is settled or that is marked used, whatever was   *)
(* read before, and however often the process restarts.                    *)
THEOREM NothingResent == Spec => NoResend
<1> DEFINE AfterSettled == \A p \in Prepares : Settled(dedupe[p]) => ~SendsFor(p)
           AfterUsed == \A p \in Prepares : prepared[p].usedBy # Unused => ~SendsFor(p)
<1>1. ASSUME IndInv, [Next]_vars PROVE AfterSettled
  BY <1>1, SendsInSendStep DEF IndInv, SettledInv, InFlightSteps
<1>2. ASSUME IndInv, [Next]_vars PROVE AfterUsed
  BY <1>2, SendsInSendStep DEF IndInv, UsedInv, Holds
<1>3. IndInv /\ [Next]_vars => [AfterSettled]_vars
  BY <1>1
<1>4. IndInv /\ [Next]_vars => [AfterUsed]_vars
  BY <1>2
<1> QED BY <1>3, <1>4, Inductive, PTL DEF NoResend, NoResendAfterSettled, NoResendAfterUsed, Spec

-----------------------------------------------------------------------------
(* In-flight units.                                                        *)
LEMMA FlightMotion ==
  ASSUME TypeOK, NEW r \in Requests, SubmitStep(r)
  PROVE  \/ AcquireInFlight(r)
         \/ /\ pc[r] \in InFlightSteps /\ pc'[r] \notin InFlightSteps
            /\ ReleaseInFlight(job[r].prepare)
         \/ /\ UNCHANGED flightVars
            /\ \/ pc[r] \notin InFlightSteps /\ pc'[r] \notin InFlightSteps
               \/ /\ pc[r] \in AttemptSteps /\ pc'[r] \in AttemptSteps
                  /\ job'[r].prepare = job[r].prepare
<1>1. CASE RateLimited(r) \/ ClaimFailed(r) \/ SaveState(r)
  BY <1>1 DEF RateLimited, ClaimFailed, SaveState, At, Goto, InFlightSteps, TypeOK, RequestType
<1>2. CASE SendRefused(r) \/ WaitForReceipt(r) \/ ClaimTxHash(r)
  <2>1. /\ UNCHANGED flightVars /\ pc[r] \in AttemptSteps /\ pc'[r] \in AttemptSteps
    BY <1>2 DEF SendRefused, WaitForReceipt, ClaimTxHash, At, Goto, AttemptSteps, TypeOK, RequestType
  <2> QED BY <2>1, Motion DEF AttemptSteps
<1>3. ASSUME NEW t \in TxIds, SendAccepted(r, t) \/ SendAcceptedUnseen(r, t) \/ SendDuplicate(r, t)
      PROVE  /\ UNCHANGED flightVars /\ pc[r] \in AttemptSteps /\ pc'[r] \in AttemptSteps
             /\ job'[r].prepare = job[r].prepare
  <2>1. /\ UNCHANGED flightVars /\ pc[r] \in AttemptSteps /\ pc'[r] \in AttemptSteps
    BY <1>3 DEF SendAccepted, SendAcceptedUnseen, SendDuplicate, At, Goto, AttemptSteps, TypeOK, RequestType
  <2> QED BY <2>1, Motion DEF AttemptSteps
<1>4. CASE \/ \E p \in Prepares : SubmitRead(r, p)
           \/ SubmitExpired(r) \/ SubmitNotAttempted(r) \/ SubmitChecked(r) \/ ReserveNonce(r)
           \/ LoadState(r) \/ ReplayDuplicate(r)
  BY <1>4 DEF SubmitRead, SubmitExpired, SubmitNotAttempted, SubmitChecked, ReserveNonce, LoadState,
     ReplayDuplicate, At, Goto, Return, InFlightSteps, TypeOK, RequestType
<1>5. CASE PersistSubmission(r) \/ PersistFailed(r) \/ RecoverThrown(r) \/ BindEvidence(r)
  BY <1>5 DEF PersistSubmission, PersistFailed, RecoverThrown, BindEvidence, At, Goto, Return,
     InFlightSteps, TypeOK, RequestType
<1> QED BY <1>1, <1>2, <1>3, <1>4, <1>5 DEF SubmitStep

(* Taking and releasing a unit keep a counter equal to its holders.        *)
LEMMA Counted ==
  ASSUME NEW H, IsFiniteSet(H), NEW x
  PROVE  /\ Cardinality(H) \in Nat
         /\ x \notin H => Cardinality(H) + 1 = Cardinality(H \cup {x})
         /\ x \in H => Released(Cardinality(H)) = Cardinality(H \ {x})
<1>1. Cardinality(H) \in Nat /\ (x \in H => Cardinality(H) # 0)
  BY FS_CardinalityType, FS_EmptySet
<1>2. x \notin H => Cardinality(H \cup {x}) = Cardinality(H) + 1
  BY FS_AddElement
<1>3. x \in H => Cardinality(H \ {x}) = Cardinality(H) - 1
  BY FS_RemoveElement
<1>4. x \in H => Released(Cardinality(H)) = Cardinality(H) - 1
  BY <1>1 DEF Released
<1> QED BY <1>1, <1>2, <1>3, <1>4

(* The requests that hold a unit of an order's, or a submitter's, counter, *)
(* those of them that broadcast, and the limits in terms of them.          *)
OrderHolders(k)   == { r \in Requests : pc[r] \in InFlightSteps /\ OrderOf(job[r].prepare) = k }
OrderAttempts(k)  == { r \in Requests : pc[r] \in AttemptSteps /\ OrderOf(job[r].prepare) = k }
SubmitterHolders(k)  == { r \in Requests : pc[r] \in InFlightSteps /\ SubmitterOf(job[r].prepare) = k }
SubmitterAttempts(k) == { r \in Requests : pc[r] \in AttemptSteps /\ SubmitterOf(job[r].prepare) = k }
OrderUnits ==
  \A k \in Orders : /\ orderInFlight[k] = Cardinality(OrderHolders(k))
                    /\ Cardinality(OrderAttempts(k)) <= MaxInFlightPerOrder
SubmitterUnits ==
  \A k \in Submitters : /\ submitterInFlight[k] = Cardinality(SubmitterHolders(k))
                        /\ Cardinality(SubmitterAttempts(k)) <= MaxInFlightPerSubmitter

LEMMA OrderStep ==
  ASSUME TypeOK, OrderUnits, NEW r \in Requests, SubmitStep(r)
  PROVE  OrderUnits'
<1> SUFFICES ASSUME NEW k \in Orders
             PROVE  /\ orderInFlight'[k] = Cardinality(OrderHolders(k)')
                    /\ Cardinality(OrderAttempts(k)') <= MaxInFlightPerOrder
  BY DEF OrderUnits
<1>t. /\ orderInFlight \in [ Orders -> Nat ] /\ IsFiniteSet(Requests)
      /\ MaxInFlightPerOrder \in Nat
  BY ConstantsAssumption DEF TypeOK, FlightType
<1>f. /\ IsFiniteSet(OrderHolders(k)) /\ IsFiniteSet(OrderAttempts(k))
      /\ IsFiniteSet(OrderHolders(k)') /\ IsFiniteSet(OrderAttempts(k)')
  BY <1>t, FS_Subset DEF OrderHolders, OrderAttempts
<1>o. /\ orderInFlight[k] = Cardinality(OrderHolders(k))
      /\ Cardinality(OrderAttempts(k)) <= MaxInFlightPerOrder
      /\ Cardinality(OrderAttempts(k)) \in Nat /\ Cardinality(OrderAttempts(k)') \in Nat
  BY <1>f, FS_CardinalityType DEF OrderUnits
<1>q. \A q \in Requests \ {r} : pc'[q] = pc[q] /\ job'[q] = job[q]
  BY OthersKept
<1>1. ASSUME OrderHolders(k)' = OrderHolders(k), orderInFlight'[k] = orderInFlight[k],
             OrderAttempts(k)' \subseteq OrderAttempts(k)
      PROVE  /\ orderInFlight'[k] = Cardinality(OrderHolders(k)')
             /\ Cardinality(OrderAttempts(k)') <= MaxInFlightPerOrder
  BY <1>1, <1>f, <1>o, <1>t, FS_Subset
<1>2. CASE AcquireInFlight(r)
  <2>1. /\ pc[r] = "acquire" /\ job' = job
        /\ orderInFlight' = [ orderInFlight EXCEPT ![OrderOf(job[r].prepare)] = @ + 1 ]
        /\ pc'[r] \in {"limited", "send"}
        /\ pc'[r] = "send" => orderInFlight[OrderOf(job[r].prepare)] + 1 <= MaxInFlightPerOrder
    BY <1>2, <1>t, ConstantsAssumption DEF AcquireInFlight, At, Goto, TypeOK, RequestType, FlightType
  <2>2. CASE OrderOf(job[r].prepare) # k
    <3>1. OrderHolders(k)' = OrderHolders(k) /\ OrderAttempts(k)' = OrderAttempts(k)
      BY <1>q, <2>1, <2>2 DEF OrderHolders, OrderAttempts
    <3>2. orderInFlight'[k] = orderInFlight[k]
      BY <1>t, <2>1, <2>2
    <3> QED BY <1>1, <3>1, <3>2
  <2>3. CASE OrderOf(job[r].prepare) = k
    <3>1. r \notin OrderHolders(k) /\ OrderHolders(k)' = OrderHolders(k) \cup {r}
      BY <1>q, <2>1, <2>3 DEF OrderHolders, InFlightSteps
    <3>2. orderInFlight'[k] = orderInFlight[k] + 1
      BY <1>t, <2>1, <2>3
    <3>3. orderInFlight'[k] = Cardinality(OrderHolders(k)')
      BY <1>f, <1>o, <3>1, <3>2, Counted
    <3>4. CASE pc'[r] = "limited"
      <4>1. OrderAttempts(k)' \subseteq OrderAttempts(k)
        BY <1>q, <3>4 DEF OrderAttempts, AttemptSteps
      <4> QED BY <1>f, <1>o, <1>t, <3>3, <4>1, FS_Subset
    <3>5. CASE pc'[r] = "send"
      <4>1. OrderAttempts(k)' \subseteq OrderHolders(k)'
        BY DEF OrderAttempts, OrderHolders, AttemptSteps, InFlightSteps
      <4>2. Cardinality(OrderAttempts(k)') <= Cardinality(OrderHolders(k)')
        BY <1>f, <4>1, FS_Subset
      <4>3. Cardinality(OrderHolders(k)') <= MaxInFlightPerOrder /\ Cardinality(OrderHolders(k)') \in Nat
        BY <1>f, <2>1, <2>3, <3>2, <3>3, <3>5, FS_CardinalityType
      <4> QED BY <1>o, <1>t, <3>3, <4>2, <4>3
    <3> QED BY <2>1, <3>4, <3>5
  <2> QED BY <2>2, <2>3
<1>3. CASE /\ pc[r] \in InFlightSteps /\ pc'[r] \notin InFlightSteps
           /\ ReleaseInFlight(job[r].prepare)
  <2>1. orderInFlight' = [ orderInFlight EXCEPT ![OrderOf(job[r].prepare)] = Released(@) ]
    BY <1>3 DEF ReleaseInFlight
  <2>2. OrderAttempts(k)' \subseteq OrderAttempts(k)
    BY <1>q, <1>3 DEF OrderAttempts, AttemptSteps, InFlightSteps
  <2>3. CASE OrderOf(job[r].prepare) # k
    <3>1. OrderHolders(k)' = OrderHolders(k)
      BY <1>q, <1>3, <2>3 DEF OrderHolders
    <3>2. orderInFlight'[k] = orderInFlight[k]
      BY <1>t, <2>1, <2>3
    <3> QED BY <1>1, <2>2, <3>1, <3>2
  <2>4. CASE OrderOf(job[r].prepare) = k
    <3>1. r \in OrderHolders(k) /\ OrderHolders(k)' = OrderHolders(k) \ {r}
      BY <1>q, <1>3, <2>4 DEF OrderHolders
    <3>2. orderInFlight'[k] = Released(orderInFlight[k])
      BY <1>t, <2>1, <2>4
    <3>3. orderInFlight'[k] = Cardinality(OrderHolders(k)')
      BY <1>f, <1>o, <3>1, <3>2, Counted
    <3> QED BY <1>f, <1>o, <1>t, <2>2, <3>3, FS_Subset
  <2> QED BY <2>3, <2>4
<1>4. CASE /\ UNCHANGED flightVars
           /\ pc[r] \notin InFlightSteps /\ pc'[r] \notin InFlightSteps
  <2>1. OrderHolders(k)' = OrderHolders(k) /\ OrderAttempts(k)' = OrderAttempts(k)
    BY <1>q, <1>4 DEF OrderHolders, OrderAttempts, AttemptSteps, InFlightSteps
  <2> QED BY <1>1, <1>4, <2>1 DEF flightVars
<1>5. CASE /\ UNCHANGED flightVars
           /\ pc[r] \in AttemptSteps /\ pc'[r] \in AttemptSteps
           /\ job'[r].prepare = job[r].prepare
  <2>1. OrderHolders(k)' = OrderHolders(k) /\ OrderAttempts(k)' = OrderAttempts(k)
    BY <1>q, <1>5 DEF OrderHolders, OrderAttempts, AttemptSteps, InFlightSteps
  <2> QED BY <1>1, <1>5, <2>1 DEF flightVars
<1> QED BY <1>2, <1>3, <1>4, <1>5, FlightMotion

LEMMA SubmitterStep ==
  ASSUME TypeOK, SubmitterUnits, NEW r \in Requests, SubmitStep(r)
  PROVE  SubmitterUnits'
<1> SUFFICES ASSUME NEW k \in Submitters
             PROVE  /\ submitterInFlight'[k] = Cardinality(SubmitterHolders(k)')
                    /\ Cardinality(SubmitterAttempts(k)') <= MaxInFlightPerSubmitter
  BY DEF SubmitterUnits
<1>t. /\ submitterInFlight \in [ Submitters -> Nat ] /\ IsFiniteSet(Requests)
      /\ MaxInFlightPerSubmitter \in Nat
  BY ConstantsAssumption DEF TypeOK, FlightType
<1>f. /\ IsFiniteSet(SubmitterHolders(k)) /\ IsFiniteSet(SubmitterAttempts(k))
      /\ IsFiniteSet(SubmitterHolders(k)') /\ IsFiniteSet(SubmitterAttempts(k)')
  BY <1>t, FS_Subset DEF SubmitterHolders, SubmitterAttempts
<1>o. /\ submitterInFlight[k] = Cardinality(SubmitterHolders(k))
      /\ Cardinality(SubmitterAttempts(k)) <= MaxInFlightPerSubmitter
      /\ Cardinality(SubmitterAttempts(k)) \in Nat /\ Cardinality(SubmitterAttempts(k)') \in Nat
  BY <1>f, FS_CardinalityType DEF SubmitterUnits
<1>q. \A q \in Requests \ {r} : pc'[q] = pc[q] /\ job'[q] = job[q]
  BY OthersKept
<1>1. ASSUME SubmitterHolders(k)' = SubmitterHolders(k), submitterInFlight'[k] = submitterInFlight[k],
             SubmitterAttempts(k)' \subseteq SubmitterAttempts(k)
      PROVE  /\ submitterInFlight'[k] = Cardinality(SubmitterHolders(k)')
             /\ Cardinality(SubmitterAttempts(k)') <= MaxInFlightPerSubmitter
  BY <1>1, <1>f, <1>o, <1>t, FS_Subset
<1>2. CASE AcquireInFlight(r)
  <2>1. /\ pc[r] = "acquire" /\ job' = job
        /\ submitterInFlight' = [ submitterInFlight EXCEPT ![SubmitterOf(job[r].prepare)] = @ + 1 ]
        /\ pc'[r] \in {"limited", "send"}
        /\ pc'[r] = "send" => submitterInFlight[SubmitterOf(job[r].prepare)] + 1 <= MaxInFlightPerSubmitter
    BY <1>2, <1>t, ConstantsAssumption DEF AcquireInFlight, At, Goto, TypeOK, RequestType, FlightType
  <2>2. CASE SubmitterOf(job[r].prepare) # k
    <3>1. SubmitterHolders(k)' = SubmitterHolders(k) /\ SubmitterAttempts(k)' = SubmitterAttempts(k)
      BY <1>q, <2>1, <2>2 DEF SubmitterHolders, SubmitterAttempts
    <3>2. submitterInFlight'[k] = submitterInFlight[k]
      BY <1>t, <2>1, <2>2
    <3> QED BY <1>1, <3>1, <3>2
  <2>3. CASE SubmitterOf(job[r].prepare) = k
    <3>1. r \notin SubmitterHolders(k) /\ SubmitterHolders(k)' = SubmitterHolders(k) \cup {r}
      BY <1>q, <2>1, <2>3 DEF SubmitterHolders, InFlightSteps
    <3>2. submitterInFlight'[k] = submitterInFlight[k] + 1
      BY <1>t, <2>1, <2>3
    <3>3. submitterInFlight'[k] = Cardinality(SubmitterHolders(k)')
      BY <1>f, <1>o, <3>1, <3>2, Counted
    <3>4. CASE pc'[r] = "limited"
      <4>1. SubmitterAttempts(k)' \subseteq SubmitterAttempts(k)
        BY <1>q, <3>4 DEF SubmitterAttempts, AttemptSteps
      <4> QED BY <1>f, <1>o, <1>t, <3>3, <4>1, FS_Subset
    <3>5. CASE pc'[r] = "send"
      <4>1. SubmitterAttempts(k)' \subseteq SubmitterHolders(k)'
        BY DEF SubmitterAttempts, SubmitterHolders, AttemptSteps, InFlightSteps
      <4>2. Cardinality(SubmitterAttempts(k)') <= Cardinality(SubmitterHolders(k)')
        BY <1>f, <4>1, FS_Subset
      <4>3. Cardinality(SubmitterHolders(k)') <= MaxInFlightPerSubmitter /\ Cardinality(SubmitterHolders(k)') \in Nat
        BY <1>f, <2>1, <2>3, <3>2, <3>3, <3>5, FS_CardinalityType
      <4> QED BY <1>o, <1>t, <3>3, <4>2, <4>3
    <3> QED BY <2>1, <3>4, <3>5
  <2> QED BY <2>2, <2>3
<1>3. CASE /\ pc[r] \in InFlightSteps /\ pc'[r] \notin InFlightSteps
           /\ ReleaseInFlight(job[r].prepare)
  <2>1. submitterInFlight' = [ submitterInFlight EXCEPT ![SubmitterOf(job[r].prepare)] = Released(@) ]
    BY <1>3 DEF ReleaseInFlight
  <2>2. SubmitterAttempts(k)' \subseteq SubmitterAttempts(k)
    BY <1>q, <1>3 DEF SubmitterAttempts, AttemptSteps, InFlightSteps
  <2>3. CASE SubmitterOf(job[r].prepare) # k
    <3>1. SubmitterHolders(k)' = SubmitterHolders(k)
      BY <1>q, <1>3, <2>3 DEF SubmitterHolders
    <3>2. submitterInFlight'[k] = submitterInFlight[k]
      BY <1>t, <2>1, <2>3
    <3> QED BY <1>1, <2>2, <3>1, <3>2
  <2>4. CASE SubmitterOf(job[r].prepare) = k
    <3>1. r \in SubmitterHolders(k) /\ SubmitterHolders(k)' = SubmitterHolders(k) \ {r}
      BY <1>q, <1>3, <2>4 DEF SubmitterHolders
    <3>2. submitterInFlight'[k] = Released(submitterInFlight[k])
      BY <1>t, <2>1, <2>4
    <3>3. submitterInFlight'[k] = Cardinality(SubmitterHolders(k)')
      BY <1>f, <1>o, <3>1, <3>2, Counted
    <3> QED BY <1>f, <1>o, <1>t, <2>2, <3>3, FS_Subset
  <2> QED BY <2>3, <2>4
<1>4. CASE /\ UNCHANGED flightVars
           /\ pc[r] \notin InFlightSteps /\ pc'[r] \notin InFlightSteps
  <2>1. SubmitterHolders(k)' = SubmitterHolders(k) /\ SubmitterAttempts(k)' = SubmitterAttempts(k)
    BY <1>q, <1>4 DEF SubmitterHolders, SubmitterAttempts, AttemptSteps, InFlightSteps
  <2> QED BY <1>1, <1>4, <2>1 DEF flightVars
<1>5. CASE /\ UNCHANGED flightVars
           /\ pc[r] \in AttemptSteps /\ pc'[r] \in AttemptSteps
           /\ job'[r].prepare = job[r].prepare
  <2>1. SubmitterHolders(k)' = SubmitterHolders(k) /\ SubmitterAttempts(k)' = SubmitterAttempts(k)
    BY <1>q, <1>5 DEF SubmitterHolders, SubmitterAttempts, AttemptSteps, InFlightSteps
  <2> QED BY <1>1, <1>5, <2>1 DEF flightVars
<1> QED BY <1>2, <1>3, <1>4, <1>5, FlightMotion

LEMMA UnitsAreLimits == OrderUnits /\ SubmitterUnits => InFlightLimits
<1>1. \A k : /\ { r \in { q \in Requests : pc[q] # "idle" /\ OrderOf(job[q].prepare) = k } :
                  pc[r] \in InFlightSteps } = OrderHolders(k)
             /\ { r \in { q \in Requests : pc[q] # "idle" /\ OrderOf(job[q].prepare) = k } :
                  pc[r] \in AttemptSteps } = OrderAttempts(k)
  BY DEF OrderHolders, OrderAttempts, InFlightSteps, AttemptSteps
<1>2. \A k : /\ { r \in { q \in Requests : pc[q] # "idle" /\ SubmitterOf(job[q].prepare) = k } :
                  pc[r] \in InFlightSteps } = SubmitterHolders(k)
             /\ { r \in { q \in Requests : pc[q] # "idle" /\ SubmitterOf(job[q].prepare) = k } :
                  pc[r] \in AttemptSteps } = SubmitterAttempts(k)
  BY DEF SubmitterHolders, SubmitterAttempts, InFlightSteps, AttemptSteps
<1> QED BY <1>1, <1>2 DEF OrderUnits, SubmitterUnits, InFlightLimits

LEMMA UnitsStep ==
  TypeOK /\ OrderUnits /\ SubmitterUnits /\ [Next]_vars => (OrderUnits /\ SubmitterUnits)'
<1> SUFFICES ASSUME TypeOK, OrderUnits, SubmitterUnits, [Next]_vars
             PROVE  (OrderUnits /\ SubmitterUnits)'
  OBVIOUS
<1>1. CASE Crash
  <2>1. /\ \A k : OrderHolders(k)' = {} /\ OrderAttempts(k)' = {}
        /\ \A k : SubmitterHolders(k)' = {} /\ SubmitterAttempts(k)' = {}
    BY <1>1 DEF Crash, OrderHolders, OrderAttempts, SubmitterHolders, SubmitterAttempts,
       InFlightSteps, AttemptSteps
  <2>2. /\ \A k \in Orders : orderInFlight'[k] = 0
        /\ \A k \in Submitters : submitterInFlight'[k] = 0
    BY <1>1 DEF Crash
  <2>3. Cardinality({}) = 0 /\ 0 <= MaxInFlightPerOrder /\ 0 <= MaxInFlightPerSubmitter
    BY FS_EmptySet, ConstantsAssumption
  <2>4. \A k \in Orders : /\ orderInFlight'[k] = Cardinality(OrderHolders(k)')
                         /\ Cardinality(OrderAttempts(k)') <= MaxInFlightPerOrder
    BY <2>1, <2>2, <2>3
  <2>5. \A k \in Submitters : /\ submitterInFlight'[k] = Cardinality(SubmitterHolders(k)')
                             /\ Cardinality(SubmitterAttempts(k)') <= MaxInFlightPerSubmitter
    BY <2>1, <2>2, <2>3
  <2> QED BY <2>4, <2>5 DEF OrderUnits, SubmitterUnits
<1>2. CASE UNCHANGED << pc, job, orderInFlight, submitterInFlight >>
  BY <1>2 DEF OrderUnits, SubmitterUnits, OrderHolders, OrderAttempts, SubmitterHolders, SubmitterAttempts
<1>3. Tick => UNCHANGED << pc, job, orderInFlight, submitterInFlight >>
  BY DEF Tick, flightVars
<1> QED BY <1>1, <1>2, <1>3, Environment, OrderStep, SubmitterStep DEF Next

(* The in-flight limits of the secure broadcast adapter hold, and no       *)
(* failing step leaks a unit.                                              *)
THEOREM Limited == Spec => []InFlightLimits
<1>1. Init => OrderUnits /\ SubmitterUnits
  <2> SUFFICES ASSUME Init PROVE OrderUnits /\ SubmitterUnits
    OBVIOUS
  <2>1. /\ \A k : OrderHolders(k) = {} /\ OrderAttempts(k) = {}
        /\ \A k : SubmitterHolders(k) = {} /\ SubmitterAttempts(k) = {}
    BY DEF Init, OrderHolders, OrderAttempts, SubmitterHolders, SubmitterAttempts,
       InFlightSteps, AttemptSteps
  <2>2. /\ \A k \in Orders : orderInFlight[k] = 0
        /\ \A k \in Submitters : submitterInFlight[k] = 0
    BY DEF Init
  <2> QED BY <2>1, <2>2, FS_EmptySet, ConstantsAssumption DEF OrderUnits, SubmitterUnits
<1> QED BY <1>1, UnitsStep, UnitsAreLimits, TypeCorrect, PTL DEF Spec
=============================================================================
