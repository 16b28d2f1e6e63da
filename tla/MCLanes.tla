------------------------------ MODULE MCLanes ------------------------------
(* The passes of the reconcile worker over the submission ledger, and the  *)
(* order triggers with the worker's registration lane.  The two share no   *)
(* state; focus says which of them a behaviour is about.                   *)
EXTENDS ReconcileWorker, TLC

CONSTANTS Requests, Editors, Preps, TxIds, NoRequest, NoPrep, NoTx,
          WaitForReceipt, PrepareTtl, MaxTriggerFaults

VARIABLES focus, tclock, tfaults, onChain, draft, reg, deadline, chain,
          tprojected, lock, tpc, job, wpc, wjob, reopened

T == INSTANCE OrderTrigger WITH clock <- tclock, faults <- tfaults,
       projected <- tprojected, pc <- tpc, MaxFaults <- MaxTriggerFaults

ASSUME LanesConstants == T!TriggerConstants

triggerVars == << tclock, tfaults, onChain, draft, reg, deadline, chain,
                  tprojected, lock, tpc, job, wpc, wjob, reopened >>

(* A behaviour about the passes has one initial trigger state.             *)
LanesInit == /\ Init /\ T!Init
             /\ focus = "trigger" \/ (focus = "pass" /\ onChain)

LanesNext ==
  \/ focus = "pass" /\ Next /\ UNCHANGED << focus, triggerVars >>
  \/ focus = "trigger" /\ T!Next /\ UNCHANGED << focus, vars >>

LanesSpec == LanesInit /\ [][LanesNext]_<< focus, vars, triggerVars >>

(* Callers and requests are the same two values: only one of the two       *)
(* components is active, the other is in a symmetric initial state.        *)
LanesSymmetry == Permutations(Requests) \cup Permutations(TxIds) \cup Permutations(Preps)

-----------------------------------------------------------------------------
(* The registration of the draft has the type its store gives it, and is   *)
(* confirmed, like a draft is triggered, only for an order that exists:    *)
(* the transaction on the record succeeded and created the order the       *)
(* record names.                                                           *)
RegistrationTruthful == focus = "trigger" => T!RegistrationTruthful
(* By accident, no authorization is issued beside one that is still good,  *)
(* and none is sent twice.                                                 *)
TriggersOnce == T!TriggersOnce
=============================================================================
