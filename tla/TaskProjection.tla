--------------------------- MODULE TaskProjection ---------------------------
(* The task board of one order, as a replay of its chain events leaves it  *)
(* (indexer/projections: task.ts, signal.ts, stage.ts and the capability   *)
(* part of plan.ts). One action applies one event; events come in chain    *)
(* order, so the position of an event is the number of events before it.   *)
EXTENDS Integers, FiniteSetsExt

CONSTANTS
  Hooks, Stages, Signals, Wallets,   \* a signal is a sourceId and a signalId
  StageOf,       \* stage of a hook
  NamedHook,     \* hook a signal's sourceId or signalId equals, or NoHook
  NoHook, NoWallet,
  ExecutorAt,    \* executor of the patch with a nonce
  MaxNonce, MaxEvents                \* bounds of the model

VARIABLES
  capabilities,      \* plan.signalCapabilities
  authorizations,    \* order.authorizations
  signals,           \* order.signals: position of the submission, 0 if none
  delegations,       \* order.signalDelegations
  executorOverlays, resourceOverlays,  \* order.stage*Overlays
  hooks, tasks,      \* order.hooks, order.tasks
  stage,             \* order.currentStage, and whether the status is registered
  inactive,          \* unresolvedStageActivationEventCount
  position           \* events replayed so far

taskVars == << capabilities, authorizations, signals, delegations, executorOverlays,
               resourceOverlays, hooks, tasks, stage, inactive, position >>

Nonces == 1..MaxNonce
(* Every relation other than "current" is treated alike.                   *)
Relations == { "current", "other" }
HookStatuses == { "init", "waiting", "ready", "cancelled", "unknown" }
None == [ none |-> TRUE ]

Capability == [ stage : Stages, signal : Signals, relation : Relations ]
Authorization == [ signal : Signals, by : Wallets, at : 1..MaxEvents ]
Delegation == [ stage : Stages, by : Wallets, nonce : Nonces ]
Overlay == [ by : Wallets, nonce : Nonces, activated : BOOLEAN ]
Hook == [ status : HookStatuses, due : BOOLEAN ]
Roles == { "stage_overlay_executor", "delegated_stage_executor", "authorized_submitter", "unknown" }
Task == [ status : { "ready", "submitted", "cancelled" }, signals : SUBSET Signals,
          role : Roles, by : Wallets \cup {NoWallet}, proof : 1..MaxEvents ]

Init ==
  /\ capabilities = {} /\ authorizations = {} /\ signals = [ s \in Signals |-> 0 ]
  /\ delegations = [ s \in Signals |-> None ]
  /\ executorOverlays = [ s \in Stages |-> None ]
  /\ resourceOverlays = [ s \in Stages |-> 0 ]
  /\ hooks = [ h \in Hooks |-> None ] /\ tasks = [ h \in Hooks |-> None ]
  /\ stage = [ current |-> None, registered |-> FALSE ]
  /\ inactive = 0 /\ position = 0

Here == position + 1
Event == position < MaxEvents /\ position' = Here
Present(x) == x # None
TasksOf(s) == { h \in Hooks : StageOf[h] = s /\ Present(tasks[h]) }

-----------------------------------------------------------------------------
(* Which signals complete a task.                                          *)
planSubmitSignalsForStage(caps, s) ==
  { c.signal : c \in { x \in caps : x.stage = s /\ x.relation = "current" } }

signalAuthorizationMatchesHook(a, h, submitSignals) ==
  NamedHook[a.signal] = h \/ a.signal \in submitSignals

(* Fault: delegations that were written before the hook became ready are   *)
(* not attached.                                                           *)
RefreshWithoutDelegations(h, caps) ==
  LET plan == planSubmitSignalsForStage(caps, StageOf[h])
  IN  plan \cup { a.signal : a \in { x \in authorizations : signalAuthorizationMatchesHook(x, h, plan) } }

refreshTaskSubmitSignals(h, caps) ==
  LET plan == planSubmitSignalsForStage(caps, StageOf[h])
  IN  plan
      \cup { a.signal : a \in { x \in authorizations : signalAuthorizationMatchesHook(x, h, plan) } }
      \cup { s \in Signals : Present(delegations[s]) /\ delegations[s].stage = StageOf[h] }

taskMatchesSubmittedSignal(h, task, s) == s \in task.signals \/ NamedHook[s] = h

markTaskSubmitted(task, proof) ==
  IF task.status = "cancelled" \/ (task.status = "submitted" /\ proof >= task.proof)
  THEN task
  ELSE [ task EXCEPT !.status = "submitted", !.proof = proof ]

markTaskSubmittedFromExistingSignals(h, task) ==
  LET proofs == { signals[s] : s \in { x \in Signals : signals[x] > 0 /\ taskMatchesSubmittedSignal(h, task, x) } }
  IN  IF proofs = {} THEN task ELSE markTaskSubmitted(task, Min(proofs))

-----------------------------------------------------------------------------
(* Plan vocabulary and authorizations.                                     *)
SignalCapabilityRegistered(s, sig, relation) ==
  /\ Event
  /\ LET caps == capabilities \cup { [ stage |-> s, signal |-> sig, relation |-> relation ] }
     IN  /\ capabilities' = caps
         /\ tasks' = [ h \in Hooks |->
              IF h \in TasksOf(s)
              THEN markTaskSubmittedFromExistingSignals(h,
                     [ tasks[h] EXCEPT !.signals = refreshTaskSubmitSignals(h, caps) ])
              ELSE tasks[h] ]
  /\ UNCHANGED << authorizations, signals, delegations, executorOverlays, resourceOverlays, hooks, stage, inactive >>

findActiveStageOverlayForHook(h) == Present(executorOverlays[StageOf[h]])

markMatchingTasksAssigned(a, h) ==
  IF /\ Present(tasks[h]) /\ ~findActiveStageOverlayForHook(h)
     /\ signalAuthorizationMatchesHook(a, h, tasks[h].signals)
  THEN markTaskSubmittedFromExistingSignals(h,
         [ tasks[h] EXCEPT !.role = "authorized_submitter", !.by = a.by, !.signals = @ \cup {a.signal} ])
  ELSE tasks[h]

SignalSubmitterAuthorized(sig, w) ==
  /\ Event
  /\ LET a == [ signal |-> sig, by |-> w, at |-> Here ]
     IN  /\ authorizations' = { x \in authorizations : x.signal # sig \/ x.by # w } \cup {a}
         /\ tasks' = [ h \in Hooks |-> markMatchingTasksAssigned(a, h) ]
  /\ UNCHANGED << capabilities, signals, delegations, executorOverlays, resourceOverlays, hooks, stage, inactive >>

markMatchingTasksSubmitted(sig, proof) ==
  [ h \in Hooks |-> IF Present(tasks[h]) /\ taskMatchesSubmittedSignal(h, tasks[h], sig)
                    THEN markTaskSubmitted(tasks[h], proof) ELSE tasks[h] ]

(* The contract accepts a signal of an order once.                         *)
SignalSubmitted(sig) ==
  /\ Event /\ signals[sig] = 0
  /\ signals' = [ signals EXCEPT ![sig] = Here ]
  /\ tasks' = markMatchingTasksSubmitted(sig, Here)
  /\ stage' = [ stage EXCEPT !.registered = TRUE ]
  /\ UNCHANGED << capabilities, authorizations, delegations, executorOverlays, resourceOverlays, hooks, inactive >>

DerivedSignalSubmitted ==
  /\ Event
  /\ UNCHANGED << capabilities, authorizations, signals, delegations, executorOverlays, resourceOverlays,
                  hooks, tasks, stage, inactive >>

-----------------------------------------------------------------------------
(* Executor and resource overlays; a lower nonce than the stored one is    *)
(* left out.                                                               *)
Newer(nonce, stored) == ~Present(stored) \/ nonce >= stored.nonce

markTargetStageTasksAssignedFromOverlay(s, w) ==
  [ h \in Hooks |-> IF h \in TasksOf(s)
                    THEN [ tasks[h] EXCEPT !.role = "stage_overlay_executor", !.by = w ] ELSE tasks[h] ]

StageExecutorPatchApplied(s, n) ==
  /\ Event
  /\ IF Newer(n, executorOverlays[s])
     THEN /\ executorOverlays' = [ executorOverlays EXCEPT ![s] =
                [ by |-> ExecutorAt[n], nonce |-> n, activated |-> FALSE ] ]
          /\ tasks' = markTargetStageTasksAssignedFromOverlay(s, ExecutorAt[n])
     ELSE UNCHANGED << executorOverlays, tasks >>
  /\ UNCHANGED << capabilities, authorizations, signals, delegations, resourceOverlays, hooks, stage, inactive >>

StageResourcePatchApplied(s, n) ==
  /\ Event
  /\ resourceOverlays' = [ resourceOverlays EXCEPT ![s] = IF n >= @ THEN n ELSE @ ]
  /\ UNCHANGED << capabilities, authorizations, signals, delegations, executorOverlays, hooks, tasks, stage, inactive >>

StageExecutorActivated(s, n) ==
  /\ Event
  /\ LET stored == executorOverlays[s]
     IN  /\ inactive' = IF Present(stored) THEN inactive ELSE inactive + 1
         /\ IF Present(stored) /\ n >= stored.nonce
            THEN /\ executorOverlays' = [ executorOverlays EXCEPT ![s] =
                       [ by |-> ExecutorAt[n], nonce |-> n, activated |-> TRUE ] ]
                 /\ tasks' = markTargetStageTasksAssignedFromOverlay(s, ExecutorAt[n])
            ELSE UNCHANGED << executorOverlays, tasks >>
  /\ UNCHANGED << capabilities, authorizations, signals, delegations, resourceOverlays, hooks, stage >>

markTargetStageTasksAssignedFromDelegation(s, sig, w) ==
  [ h \in Hooks |->
      IF h \in TasksOf(s)
      THEN markTaskSubmittedFromExistingSignals(h,
             [ tasks[h] EXCEPT !.role = "delegated_stage_executor", !.by = w, !.signals = @ \cup {sig} ])
      ELSE tasks[h] ]

StageExecutorSignalDelegated(s, sig, n) ==
  /\ Event
  /\ IF Newer(n, delegations[sig])
     THEN /\ delegations' = [ delegations EXCEPT ![sig] = [ stage |-> s, by |-> ExecutorAt[n], nonce |-> n ] ]
          /\ tasks' = markTargetStageTasksAssignedFromDelegation(s, sig, ExecutorAt[n])
     ELSE UNCHANGED << delegations, tasks >>
  /\ UNCHANGED << capabilities, authorizations, signals, executorOverlays, resourceOverlays, hooks, stage, inactive >>

-----------------------------------------------------------------------------
(* Hooks and stages.                                                       *)
ensureStateMachineHook(h) == IF Present(hooks[h]) THEN hooks[h] ELSE [ status |-> "unknown", due |-> FALSE ]

cancelTask(h) ==
  [ tasks EXCEPT ![h] = IF Present(@) THEN [ @ EXCEPT !.status = "cancelled", !.proof = Here ] ELSE @ ]

HookStatusChanged(h, status, due) ==
  /\ Event
  /\ hooks' = [ hooks EXCEPT ![h] = [ status |-> status, due |-> due ] ]
  /\ tasks' = IF status = "cancelled" THEN cancelTask(h) ELSE tasks
  /\ stage' = [ stage EXCEPT !.registered = TRUE ]
  /\ UNCHANGED << capabilities, authorizations, signals, delegations, executorOverlays, resourceOverlays, inactive >>

findSignalAuthorizationForHook(h) ==
  LET matching == { a \in authorizations :
        signalAuthorizationMatchesHook(a, h, planSubmitSignalsForStage(capabilities, StageOf[h])) }
  IN  IF matching = {} THEN None ELSE CHOOSE a \in matching : \A b \in matching : a.at <= b.at

(* The executor of the stage, else the first authorized submitter.         *)
Assignment(h) ==
  LET a == findSignalAuthorizationForHook(h)
  IN  CASE findActiveStageOverlayForHook(h) ->
             [ role |-> "stage_overlay_executor", by |-> executorOverlays[StageOf[h]].by ]
        [] ~findActiveStageOverlayForHook(h) /\ Present(a) -> [ role |-> "authorized_submitter", by |-> a.by ]
        [] OTHER -> [ role |-> "unknown", by |-> NoWallet ]

HookReady(h) ==
  /\ Event
  /\ hooks' = [ hooks EXCEPT ![h] = [ ensureStateMachineHook(h) EXCEPT !.status = "ready" ] ]
  /\ tasks' = [ tasks EXCEPT ![h] = markTaskSubmittedFromExistingSignals(h,
         [ status |-> "ready", signals |-> refreshTaskSubmitSignals(h, capabilities),
           role |-> Assignment(h).role, by |-> Assignment(h).by, proof |-> Here ]) ]
  /\ stage' = [ current |-> StageOf[h], registered |-> TRUE ]
  /\ UNCHANGED << capabilities, authorizations, signals, delegations, executorOverlays, resourceOverlays, inactive >>

TimerPoked(h, due) ==
  /\ Event
  /\ hooks' = [ hooks EXCEPT ![h] = [ ensureStateMachineHook(h) EXCEPT !.due = ensureStateMachineHook(h).due \/ due ] ]
  /\ UNCHANGED << capabilities, authorizations, signals, delegations, executorOverlays, resourceOverlays,
                  tasks, stage, inactive >>

StageMaterialized(s) ==
  /\ Event
  /\ stage' = [ current |-> s, registered |-> TRUE ]
  /\ UNCHANGED << capabilities, authorizations, signals, delegations, executorOverlays, resourceOverlays,
                  hooks, tasks, inactive >>

applyStateMachineEvent ==
  \/ \E s \in Stages, sig \in Signals, r \in Relations : SignalCapabilityRegistered(s, sig, r)
  \/ \E sig \in Signals, w \in Wallets : SignalSubmitterAuthorized(sig, w)
  \/ \E sig \in Signals : SignalSubmitted(sig)
  \/ DerivedSignalSubmitted
  \/ \E s \in Stages, n \in Nonces :
       \/ StageExecutorPatchApplied(s, n) \/ StageResourcePatchApplied(s, n) \/ StageExecutorActivated(s, n)
       \/ \E sig \in Signals : StageExecutorSignalDelegated(s, sig, n)
  \/ \E h \in Hooks : HookReady(h)
  \/ \E h \in Hooks, due \in BOOLEAN : TimerPoked(h, due) \/ \E st \in HookStatuses : HookStatusChanged(h, st, due)
  \/ \E s \in Stages : StageMaterialized(s)

Next == applyStateMachineEvent
Spec == Init /\ [][Next]_taskVars

-----------------------------------------------------------------------------
(* The board is well formed.                                               *)
TypeOK ==
  /\ capabilities \subseteq Capability /\ authorizations \subseteq Authorization
  /\ signals \in [ Signals -> 0..MaxEvents ]
  /\ delegations \in [ Signals -> Delegation \cup {None} ]
  /\ executorOverlays \in [ Stages -> Overlay \cup {None} ]
  /\ resourceOverlays \in [ Stages -> 0..MaxNonce ]
  /\ hooks \in [ Hooks -> Hook \cup {None} ] /\ tasks \in [ Hooks -> Task \cup {None} ]
  /\ stage \in [ current : Stages \cup {None}, registered : BOOLEAN ]
  /\ inactive \in 0..MaxEvents /\ position \in 0..MaxEvents

(* A signal the chain ties to a hook: by the plan's vocabulary, by a       *)
(* delegation to the stage, or because it names the hook.                  *)
Ties(sig, h) ==
  \/ NamedHook[sig] = h
  \/ [ stage |-> StageOf[h], signal |-> sig, relation |-> "current" ] \in capabilities
  \/ Present(delegations[sig]) /\ delegations[sig].stage = StageOf[h]

(* A task is never left ready once a signal the chain ties to it has been  *)
(* submitted, whichever of the signal, the vocabulary, the delegation and  *)
(* the hook came first (task.ts: "otherwise the task stays ready forever").*)
NoTaskLeftReady ==
  \A h \in Hooks, sig \in Signals :
    Present(tasks[h]) /\ signals[sig] > 0 /\ Ties(sig, h) => tasks[h].status # "ready"

(* The proof of a completed task is the submission of a signal, and no     *)
(* signal that is tied to the task was submitted earlier.                  *)
EarliestProof ==
  \A h \in Hooks : Present(tasks[h]) /\ tasks[h].status = "submitted" =>
    /\ \E sig \in Signals : signals[sig] = tasks[h].proof
    /\ \A sig \in Signals : signals[sig] > 0 /\ Ties(sig, h) => tasks[h].proof <= signals[sig]

(* While a hook is cancelled its task is: no later event of any kind       *)
(* completes or reopens it except the hook's own HookReady.                *)
CancelledStays ==
  \A h \in Hooks : Present(hooks[h]) /\ hooks[h].status = "cancelled" /\ Present(tasks[h])
    => tasks[h].status = "cancelled"

(* The tasks of a stage that has an executor are never held by a merely    *)
(* authorized submitter, nor by an executor that was replaced.             *)
ExecutorHoldsStage ==
  \A h \in Hooks : Present(tasks[h]) /\ findActiveStageOverlayForHook(h) =>
    /\ tasks[h].role \in { "stage_overlay_executor", "delegated_stage_executor" }
    /\ tasks[h].role = "stage_overlay_executor" => tasks[h].by = executorOverlays[StageOf[h]].by

(* The board shows what the chain says of each task, whatever the order    *)
(* of its events.                                                          *)
BoardTruthful == TypeOK /\ NoTaskLeftReady /\ EarliestProof /\ CancelledStays /\ ExecutorHoldsStage

-----------------------------------------------------------------------------
(* The invariant behind BoardTruthful, hook by hook.                       *)
Positions ==
  /\ inactive <= position
  /\ \A sig \in Signals : signals[sig] <= position

(* A completed task has the earliest of the signals that complete it, and  *)
(* a task none of them completed has none.                                 *)
ProofInv(h) ==
  Present(tasks[h]) =>
    /\ tasks[h].proof <= position
    /\ tasks[h].status = "submitted" => \E sig \in Signals : signals[sig] = tasks[h].proof
    /\ \A sig \in Signals : signals[sig] > 0 /\ taskMatchesSubmittedSignal(h, tasks[h], sig) =>
         /\ tasks[h].status # "ready"
         /\ tasks[h].status = "submitted" => tasks[h].proof <= signals[sig]

(* A task knows every signal the chain ties to it.                         *)
Covered(h) ==
  Present(tasks[h]) => \A sig \in Signals : Ties(sig, h) => taskMatchesSubmittedSignal(h, tasks[h], sig)

IndInv ==
  /\ TypeOK /\ Positions
  /\ \A h \in Hooks : ProofInv(h) /\ Covered(h)
  /\ CancelledStays /\ ExecutorHoldsStage
=============================================================================
