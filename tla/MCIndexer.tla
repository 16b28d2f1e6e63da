----------------------------- MODULE MCIndexer -----------------------------
(* The indexer and what it derives from its event log, one at a time:      *)
(* focus says whether the behaviour is about the log itself or about one   *)
(* of the projections a replay builds from it. They share no state; every  *)
(* event is applied to the projection it belongs to.                       *)
EXTENDS Integers, Sequences, FiniteSets, TLC

CONSTANTS
  Hooks, Stages, Signals, Wallets, StageOf, NamedHook, ExecutorAt, NoHook, NoWallet, MaxNonce, MaxEvents,
  Machines, Modules, ModuleIds, Plans, NoPlan, Orders, Docks, Bindings, Absent, MaxReplay,
  Deployments, IdentityIds, MaxRegistryEvents,
  s1, s3, h1, stageA, w1, w2,
  Txs, NoTx, Confirmations, MaxSweepAttempts, CasLimit,
  FirstBlockHasEvent, ReorgInRound, OtherProcess,
  MaxHeight, MaxForks, MaxFaults, MaxRebuilds

VARIABLES
  focus,
  capabilities, authorizations, signals, delegations, executorOverlays,
  resourceOverlays, hooks, tasks, stage, inactive, position,
  modules, plans, orders, docks, unresolved, failed, replayed, published, trusted, sent,
  deployments, active, identities, registryEvents,
  chain, forks, events, cursor, sync, steps, deliveries, memory, casFailures,
  pc, job, other, faults, rebuilds, forgone, uncleaned

X == INSTANCE Indexer
T == INSTANCE TaskProjection
B == INSTANCE OrderBuckets
R == INSTANCE Registries

(* An absent deployment is none of the values a deployment may have, an    *)
(* empty block holds no transaction, and so for what else may be absent;   *)
(* a module is a contract of its own, not a state machine.                 *)
ASSUME IndexerConstants ==
  /\ Absent \notin Deployments /\ Absent \notin R!Deployment
  /\ StageOf \in [ Hooks -> Stages ] /\ ExecutorAt \in [ 1..MaxNonce -> Wallets ]
  /\ MaxNonce \in Nat /\ MaxEvents \in Nat
  /\ NoTx \notin Txs /\ Confirmations \in Nat
  /\ Absent \notin Machines \cup Modules \cup B!Order \cup B!Plan \cup B!Dock
  /\ NoPlan \notin Plans /\ Machines \cap Modules = {} /\ MaxReplay \in Nat
  /\ MaxHeight \in Nat /\ MaxForks \in Nat /\ MaxFaults \in Nat /\ MaxRebuilds \in Nat

taskVars == << capabilities, authorizations, signals, delegations, executorOverlays,
               resourceOverlays, hooks, tasks, stage, inactive, position >>
bucketVars == << modules, plans, orders, docks, unresolved, failed, replayed, published, trusted, sent >>
registryVars == << deployments, active, identities, registryEvents >>
indexVars == << chain, forks, events, cursor, sync, steps, deliveries, memory, casFailures,
                pc, job, other, faults, rebuilds, forgone, uncleaned >>
vars == << focus, taskVars, bucketVars, registryVars, indexVars >>

Init ==
  /\ X!Init /\ T!Init /\ B!Init /\ R!Init
  /\ focus \in { "log", "tasks", "buckets", "registries" }

Next ==
  \/ focus = "log" /\ X!Next /\ UNCHANGED << focus, taskVars, bucketVars, registryVars >>
  \/ focus = "tasks" /\ T!Next /\ UNCHANGED << focus, bucketVars, registryVars, indexVars >>
  \/ focus = "buckets" /\ B!Next /\ UNCHANGED << focus, taskVars, registryVars, indexVars >>
  \/ focus = "registries" /\ R!Next /\ UNCHANGED << focus, taskVars, bucketVars, indexVars >>

Spec == Init /\ [][Next]_vars
MCStageOf == (h1 :> stageA)
MCNamedHook == (s1 :> NoHook @@ s3 :> h1)
MCExecutorAt == << w1, w2 >>
Symmetric == Permutations(Machines) \cup Permutations(Plans) \cup Permutations(Orders)

-----------------------------------------------------------------------------
(* The log is well formed and is the chain's.                              *)
IndexSound == focus = "log" => X!IndexSound
(* Everyone is told of what is on chain, and nobody keeps being told of    *)
(* what is not.                                                            *)
NotificationsTrue == focus = "log" => X!NotificationsTrue
(* The board shows what the chain says of each task, whatever the order    *)
(* of its events.                                                          *)
BoardTruthful == focus = "tasks" => T!BoardTruthful
(* What the events of an order left behind is in one place, or counted     *)
(* where an operator sees it, and the replay of a stream the contracts     *)
(* emit goes through.                                                      *)
BucketsSound == focus = "buckets" => B!BucketsSound
(* The deployment the snapshot calls active is the only one with that      *)
(* status, and it is the one its state machine's orders are attributed to. *)
OneActiveDeployment == focus = "registries" => R!OneActiveDeployment
(* Seen through the cursor the event log grows at its end, is cut back, or *)
(* is replaced by a rebuild: appends and the cursor are separate writes,   *)
(* and nothing shows of it.                                                *)
ImplementsChainView == X!ImplementsChainView
=============================================================================
