---------------------------- MODULE LanesProofs ----------------------------
(***************************************************************************)
(* What OrderTriggerProofs proves of the order triggers alone, for the     *)
(* lanes as they run together: the passes of the worker and the triggers   *)
(* are one specification, and a behaviour about the triggers is one of     *)
(* OrderTrigger.                                                           *)
(***************************************************************************)
EXTENDS MCLanes, Sequences, TLAPS

TP == INSTANCE OrderTriggerProofs WITH clock <- tclock, faults <- tfaults,
        projected <- tprojected, pc <- tpc, MaxFaults <- MaxTriggerFaults

LanesInv == focus = "trigger" => TP!IndInv

-----------------------------------------------------------------------------
(* T and TP are two instances of the same definitions. The leaves of this  *)
(* section expand them on both sides, and each side is then the same       *)
(* formula.                                                                *)
LEMMA SameConstants == TP!TriggerConstants
<1>1. IsFiniteSet(Preps)
  BY LanesConstants DEF T!TriggerConstants, T!IsFiniteSet, IsFiniteSet
<1>2. \E s \in Seq(Preps) : \A p \in Preps : \E n \in 1..Len(s) : s[n] = p
  BY <1>1 DEF IsFiniteSet
<1> QED BY <1>2, LanesConstants DEF T!TriggerConstants, TP!TriggerConstants, TP!IsFiniteSet

LEMMA SameInit == T!Init = TP!Init
  BY DEF T!Init, TP!Init, T!NoDraft, TP!NoDraft, T!NoReg, TP!NoReg,
         T!NotIssued, TP!NotIssued, T!NoJob, TP!NoJob, T!NoWorkerJob,
         TP!NoWorkerJob, T!NoResult, TP!NoResult, T!Result, TP!Result

LEMMA SameStep == [T!Next]_(T!vars) = [TP!Next]_(TP!vars)
  BY DEF T!Next, TP!Next, T!vars, TP!vars, T!Request, TP!Request, T!Worker,
         TP!Worker, T!WorkerFails, TP!WorkerFails, T!Crash, TP!Crash, T!Tick,
         TP!Tick, T!Mine, TP!Mine, T!Index, TP!Index, T!EditRead, TP!EditRead,
         T!EditStore, TP!EditStore, T!PrepareRead, TP!PrepareRead,
         T!PrepareChecked, TP!PrepareChecked, T!PrepareRefused,
         TP!PrepareRefused, T!PrepareStore, TP!PrepareStore, T!Trigger,
         TP!Trigger, T!TriggerChecked, TP!TriggerChecked, T!TriggerRefused,
         TP!TriggerRefused, T!StoreSubmitting, TP!StoreSubmitting,
         T!BroadcastRecorded, TP!BroadcastRecorded, T!BroadcastRefused,
         TP!BroadcastRefused, T!BroadcastSent, TP!BroadcastSent,
         T!BroadcastUnseen, TP!BroadcastUnseen, T!ReceiptAwaited,
         TP!ReceiptAwaited, T!StoreBroadcast, TP!StoreBroadcast,
         T!RequestFails, TP!RequestFails, T!WorkerList, TP!WorkerList,
         T!WorkerCheck, TP!WorkerCheck, T!WorkerReceipt, TP!WorkerReceipt,
         T!WorkerProjection, TP!WorkerProjection, T!WorkerStore,
         TP!WorkerStore, T!WorkerGetDraft, TP!WorkerGetDraft,
         T!WorkerUpdateDraft, TP!WorkerUpdateDraft, T!WorkerGoto,
         TP!WorkerGoto, T!NoWorkerJob, TP!NoWorkerJob, T!envVars, TP!envVars,
         T!chainVars, TP!chainVars, T!NoJob, TP!NoJob, T!workerVars,
         TP!workerVars, T!OrderExists, TP!OrderExists, T!At, TP!At, T!Goto,
         TP!Goto, T!Return, TP!Return, T!CanPrepare, TP!CanPrepare, T!IdsLeft,
         TP!IdsLeft, T!NoReg, TP!NoReg, T!InsertLost, TP!InsertLost,
         T!NotIssued, TP!NotIssued, T!StoreRegistration, TP!StoreRegistration,
         T!PreparedRegistration, TP!PreparedRegistration, T!CanTrigger,
         TP!CanTrigger, T!Broadcasted, TP!Broadcasted, T!Result, TP!Result,
         T!EnterPool, TP!EnterPool, T!ReceiptResults, TP!ReceiptResults,
         T!BroadcastedRegistration, TP!BroadcastedRegistration, T!draftFrom,
         TP!draftFrom, T!isReconcileableRegistration,
         TP!isReconcileableRegistration, T!Concluded, TP!Concluded, T!Unseen,
         TP!Unseen, T!timedOut, TP!timedOut,
         T!registrationProjectionConfirmation,
         TP!registrationProjectionConfirmation, T!ReceiptOf, TP!ReceiptOf,
         T!FromReceipt, TP!FromReceipt, T!FromProjection, TP!FromProjection,
         T!ReconciledRegistration, TP!ReconciledRegistration, T!NoDraft,
         TP!NoDraft, T!NoResult, TP!NoResult, T!RetryingFailedTrigger,
         TP!RetryingFailedTrigger, T!ExpiredPreparedTrigger,
         TP!ExpiredPreparedTrigger, T!isPrepareExpired, TP!isPrepareExpired,
         T!RegistrationStatus, TP!RegistrationStatus, T!Retryable,
         TP!Retryable

LEMMA SameTruth == T!RegistrationTruthful = TP!RegistrationTruthful
  BY DEF T!RegistrationTruthful, TP!RegistrationTruthful, T!TypeOK, TP!TypeOK,
         T!ConfirmedIsOnChain, TP!ConfirmedIsOnChain, T!Draft, TP!Draft,
         T!Registration, TP!Registration, T!NotIssued, TP!NotIssued, T!Steps,
         TP!Steps, T!Job, TP!Job, T!WorkerSteps, TP!WorkerSteps, T!WorkerJob,
         TP!WorkerJob, T!OrderExists, TP!OrderExists, T!DraftStatus,
         TP!DraftStatus, T!RegStatus, TP!RegStatus, T!TriggerSteps,
         TP!TriggerSteps, T!Kinds, TP!Kinds

-----------------------------------------------------------------------------
(* A step of the lanes is a step of the triggers, or leaves them alone.    *)
LEMMA LanesStep ==
  [LanesNext]_<< focus, vars, triggerVars >>
    => UNCHANGED focus /\ [TP!Next]_(TP!vars) /\ (focus = "trigger" \/ UNCHANGED triggerVars)
<1> SUFFICES ASSUME [LanesNext]_<< focus, vars, triggerVars >>
             PROVE  UNCHANGED focus /\ [T!Next]_(T!vars) /\ (focus = "trigger" \/ UNCHANGED triggerVars)
  BY SameStep
<1> QED BY DEF LanesNext, triggerVars, T!vars

(* OrderTrigger's invariant, whenever the behaviour is about the triggers. *)
THEOREM Inductive == LanesSpec => []LanesInv
<1>1. LanesInit => LanesInv
  BY SameConstants, SameInit, TP!IndInit DEF LanesInit, LanesInv
<1>2. LanesInv /\ [LanesNext]_<< focus, vars, triggerVars >> => LanesInv'
  BY SameConstants, LanesStep, TP!IndStep DEF LanesInv
<1> QED BY <1>1, <1>2, PTL DEF LanesSpec

(* A registration is confirmed, and a draft triggered, only for an order   *)
(* that its transaction created, while the passes share the process.       *)
THEOREM Truthful == LanesSpec => []RegistrationTruthful
<1>1. LanesInv => RegistrationTruthful
  BY SameConstants, SameTruth, TP!InvTruthful DEF LanesInv, RegistrationTruthful
<1> QED BY <1>1, Inductive, PTL

(* No request sends again what it did not find failed, and nothing is      *)
(* issued beside a good authorization; a step of the passes is a stutter.  *)
THEOREM Once == LanesSpec => TriggersOnce
<1>1. LanesInv /\ [LanesNext]_<< focus, vars, triggerVars >> =>
        [ \A r \in Requests, t \in TxIds :
            (T!At(r, "broadcast") /\ ~T!At(r, "broadcast")' /\ chain[t].fate = "none"
               /\ chain'[t].fate # "none" /\ T!Sent(chain'[t].prep) # {})
            => job[r].again ]_(T!vars)
  <2> SUFFICES ASSUME LanesInv, [LanesNext]_<< focus, vars, triggerVars >>, ~UNCHANGED T!vars,
                      NEW r \in Requests, NEW t \in TxIds,
                      tpc[r] = "broadcast", tpc'[r] # "broadcast", chain[t].fate = "none",
                      chain'[t].fate # "none", T!Sent(chain'[t].prep) # {}
               PROVE  job[r].again
    BY DEF T!At
  <2>1. TP!IndInv /\ [TP!Next]_(TP!vars) /\ ~UNCHANGED TP!vars
    BY LanesStep DEF LanesInv, T!vars, TP!vars, triggerVars
  <2> QED BY <2>1, TP!SendsOnce DEF TP!At, T!Sent, TP!Sent
<1>2. LanesInv /\ [LanesNext]_<< focus, vars, triggerVars >> =>
        [ (T!Cardinality(T!Issued) = 1 /\ reg.status = "prepared" /\ ~T!isPrepareExpired(reg.prep))
            => T!Issued' = T!Issued ]_(T!vars)
  <2> SUFFICES ASSUME LanesInv, [LanesNext]_<< focus, vars, triggerVars >>, ~UNCHANGED T!vars,
                      T!Cardinality(T!Issued) = 1, reg.status = "prepared", ~T!isPrepareExpired(reg.prep)
               PROVE  T!Issued' = T!Issued
    OBVIOUS
  <2>1. TP!IndInv /\ [TP!Next]_(TP!vars) /\ ~UNCHANGED TP!vars
    BY LanesStep DEF LanesInv, T!vars, TP!vars, triggerVars
  <2>2. /\ T!Issued = TP!Issued /\ T!Issued' = TP!Issued'
        /\ T!isPrepareExpired(reg.prep) = TP!isPrepareExpired(reg.prep)
    BY DEF T!Issued, TP!Issued, T!NotIssued, TP!NotIssued, T!isPrepareExpired, TP!isPrepareExpired
  <2>3. T!Cardinality(TP!Issued) = TP!Cardinality(TP!Issued)
    BY DEF T!Cardinality, TP!Cardinality
  <2> QED BY <2>1, <2>2, <2>3, TP!IssuesOnce
<1> QED BY <1>1, <1>2, Inductive, PTL
        DEF LanesSpec, TriggersOnce, T!TriggersOnce, T!NoAccidentalRebroadcast, T!ConcurrentPreparesSettle
=============================================================================
