---------------------------- MODULE OrderBuckets ----------------------------
(* Where a replay files each chain event (indexer/replay.ts and            *)
(* indexer/projections: order.ts, plan.ts, docking.ts): the state machine  *)
(* a module's event belongs to, the plan it names and the bucket of its    *)
(* order. A ProjectionError ends the replay; the indexer is then degraded. *)
EXTENDS Integers, FiniteSets

CONSTANTS
  Machines, Modules,     \* addresses of state machines and of module contracts
  ModuleIds,             \* the module slots of a state machine
  Plans, NoPlan,         \* plan ids; NoPlan is ZERO_BYTES32, an unknown plan
  Orders, Docks, Bindings, Absent,
  MaxReplay              \* bound: events of a replay

VARIABLES
  modules,       \* stateMachineModules: slot -> module address
  plans,         \* stateMachinePlans
  orders,        \* stateMachineOrders: key -> projection
  docks,         \* stateMachineDocks
  unresolved,    \* the diagnostics counters
  failed,        \* a ProjectionError was thrown
  replayed,      \* events so far
  published,     \* history: plans the contracts committed
  trusted,       \* history: every event so far obeyed the v0.10 contracts
  sent           \* history: deliveries the dock events reported

bucketVars == << modules, plans, orders, docks, unresolved, failed, replayed, published, trusted, sent >>

Addresses == Machines \cup Modules
Slots == Machines \X ModuleIds
OrderKeys == Addresses \X (Plans \cup {NoPlan}) \X Orders
DockKeys == Addresses \X Docks
PlanKeys == Machines \X Plans

Order == [ plan : Plans \cup {NoPlan}, status : { "registered", "unknown" }, planHash : BOOLEAN,
           staged : BOOLEAN, linked : BOOLEAN, relayed : BOOLEAN, trail : Nat ]
Plan == [ committed : BOOLEAN, finalized : BOOLEAN, registered : BOOLEAN, publisher : BOOLEAN,
          vocabulary : BOOLEAN, selectors : BOOLEAN ]
Dock == [ localOrder : Orders, localPlan : Plans, linkedOrder : Orders, targetPlan : Plans,
          inputs : SUBSET Bindings, outputs : SUBSET Bindings ]
Counters == { "moduleOrder", "dock", "dockTarget" }

createEmptyProjectionSnapshot ==
  /\ modules = [ s \in Slots |-> Absent ] /\ plans = [ p \in PlanKeys |-> Absent ]
  /\ orders = [ k \in OrderKeys |-> Absent ] /\ docks = [ k \in DockKeys |-> Absent ]
  /\ unresolved = [ c \in Counters |-> 0 ]

Init == createEmptyProjectionSnapshot /\ failed = FALSE /\ replayed = 0 /\ trusted = TRUE /\ sent = {} /\ published = {}

Replays == ~failed /\ replayed < MaxReplay /\ replayed' = replayed + 1
Throws == failed' = TRUE
Applied == failed' = FALSE

-----------------------------------------------------------------------------
(* From the emitter of an event to the state machine it belongs to.        *)
Owners(emitter) == { s \in Slots : modules[s] = emitter }

resolveStateMachineAddressForModuleEvent(emitter) ==
  IF Cardinality(Owners(emitter)) = 1
  THEN [ machine |-> (CHOOSE s \in Owners(emitter) : TRUE)[1], resolved |-> TRUE ]
  ELSE [ machine |-> emitter, resolved |-> FALSE ]

stateMachineAddressForOrderEvent(emitter) == resolveStateMachineAddressForModuleEvent(emitter).machine

Counted(counter, emitter) ==
  [ counter EXCEPT !["moduleOrder"] =
      IF resolveStateMachineAddressForModuleEvent(emitter).resolved THEN @ ELSE @ + 1 ]

-----------------------------------------------------------------------------
(* The bucket of an order: by plan and order when the event names a plan,  *)
(* adopting a bucket whose plan was unknown; else the only candidate.      *)
Candidates(os, a, o) == { k \in OrderKeys : k[1] = a /\ k[3] = o /\ os[k] # Absent }

NewOrder(p) ==
  [ plan |-> p, status |-> IF p = NoPlan THEN "unknown" ELSE "registered", planHash |-> FALSE,
    staged |-> FALSE, linked |-> FALSE, relayed |-> FALSE, trail |-> 0 ]

Ambiguous(os, a, p, o) == p = NoPlan /\ Cardinality(Candidates(os, a, o)) > 1

KeyFor(os, a, p, o) ==
  IF p = NoPlan /\ Candidates(os, a, o) # {} THEN CHOOSE k \in Candidates(os, a, o) : TRUE
  ELSE << a, p, o >>

(* Fault: the bucket of an order whose plan was unknown is left behind.    *)
EnsureWithoutAdoption(os, a, p, o) ==
  LET key == KeyFor(os, a, p, o)
  IN  [ os EXCEPT ![key] = IF os[key] # Absent THEN @ ELSE NewOrder(p) ]

ensureStateMachineOrder(os, a, p, o) ==
  LET key == KeyFor(os, a, p, o)
      unknown == << a, NoPlan, o >>
  IN  IF os[key] = Absent /\ p # NoPlan /\ os[unknown] # Absent
      THEN [ os EXCEPT ![unknown] = Absent, ![key] = [ os[unknown] EXCEPT !.plan = p ] ]
      ELSE [ os EXCEPT ![key] = IF os[key] # Absent THEN @ ELSE NewOrder(p) ]

(* The bucket is made and then changed; f maps a projection to its update. *)
Filed(os, a, p, o, f(_)) ==
  LET made == ensureStateMachineOrder(os, a, p, o)
  IN  [ made EXCEPT ![KeyFor(made, a, p, o)] = f(@) ]

appendOrderProof(order) == [ order EXCEPT !.trail = @ + 1 ]

-----------------------------------------------------------------------------
(* Modules, plans and plan metadata.                                       *)
applyStateMachineModuleSet(m, id, new) ==
  /\ Replays /\ Applied
  /\ modules' = [ modules EXCEPT ![<< m, id >>] = new ]
  /\ UNCHANGED << published, plans, orders, docks, unresolved, trusted, sent >>

NewPlan == [ committed |-> FALSE, finalized |-> FALSE, registered |-> FALSE, publisher |-> FALSE,
             vocabulary |-> FALSE, selectors |-> FALSE ]
StoredPlan(k) == IF plans[k] = Absent THEN NewPlan ELSE plans[k]

PlanAtCommit(m, p) ==
  IF plans[<< m, p >>] # Absent THEN plans[<< m, p >>]
  ELSE [ NewPlan EXCEPT !.committed = TRUE, !.publisher = TRUE ]

applyPlanCommitted(m, p) ==
  /\ Replays /\ Applied
  /\ plans' = [ plans EXCEPT ![<< m, p >>] = PlanAtCommit(m, p) ]
  /\ published' = published \cup { << m, p >> }
  /\ UNCHANGED << modules, orders, docks, unresolved, trusted, sent >>

(* The contract finalizes and registers committed plans only; a stream     *)
(* that starts later shows these events first.                             *)
applyPlanFinalized(m, p) ==
  /\ Replays /\ Applied
  /\ plans' = [ plans EXCEPT ![<< m, p >>] = [ StoredPlan(<< m, p >>) EXCEPT !.committed = TRUE, !.finalized = TRUE ] ]
  /\ trusted' = (trusted /\ << m, p >> \in published)
  /\ UNCHANGED << published, modules, orders, docks, unresolved, sent >>

PlanAtRegistration(m, p) == [ StoredPlan(<< m, p >>) EXCEPT !.registered = TRUE ]

applyPlanRegistered(m, p) ==
  /\ Replays /\ Applied
  /\ plans' = [ plans EXCEPT ![<< m, p >>] = PlanAtRegistration(m, p) ]
  /\ orders' = [ k \in OrderKeys |->
       IF k[1] = m /\ orders[k] # Absent /\ orders[k].plan = p
       THEN appendOrderProof([ orders[k] EXCEPT !.planHash = TRUE ]) ELSE orders[k] ]
  /\ trusted' = (trusted /\ << m, p >> \in published)
  /\ UNCHANGED << published, modules, docks, unresolved, sent >>

PlanKnown(m, p) == << m, p >> \in PlanKeys /\ plans[<< m, p >>] # Absent

findPlanForEvent(emitter, p) ==
  LET exact == << stateMachineAddressForOrderEvent(emitter), p >>
      others == { k \in PlanKeys : k[2] = p /\ plans[k] # Absent }
  IN  IF PlanKnown(exact[1], p) THEN { exact }
      ELSE IF Cardinality(others) = 1 THEN others ELSE {}


(* Emitters the contracts allow for a plan's events: the state machine the *)
(* plan is committed on, or the module only that state machine registered. *)
Genuine(emitter, p) ==
  \E m \in Machines : /\ << m, p >> \in published
                      /\ emitter = m \/ \E id \in ModuleIds : Owners(emitter) = { << m, id >> }

applyPlanPublisherRecorded(m, p) ==
  /\ Replays
  /\ LET found == findPlanForEvent(m, p)
     IN  /\ failed' = (found = {})
         /\ plans' = [ k \in PlanKeys |-> IF k \in found THEN [ plans[k] EXCEPT !.publisher = TRUE ] ELSE plans[k] ]
  /\ trusted' = (trusted /\ Genuine(m, p))
  /\ UNCHANGED << published, modules, orders, docks, unresolved, sent >>

applySignalCapabilityRegistered(emitter, p) ==
  /\ Replays
  /\ LET found == findPlanForEvent(emitter, p)
     IN  /\ failed' = (found = {})
         /\ plans' = [ k \in PlanKeys |-> IF k \in found THEN [ plans[k] EXCEPT !.vocabulary = TRUE ] ELSE plans[k] ]
  /\ trusted' = (trusted /\ Genuine(emitter, p))
  /\ UNCHANGED << published, modules, orders, docks, unresolved, sent >>

applyStageSelectorBindingRegistered(emitter, p) ==
  /\ Replays
  /\ LET found == findPlanForEvent(emitter, p)
     IN  /\ failed' = (found = {})
         /\ plans' = [ k \in PlanKeys |-> IF k \in found THEN [ plans[k] EXCEPT !.selectors = TRUE ] ELSE plans[k] ]
  /\ trusted' = (trusted /\ Genuine(emitter, p))
  /\ UNCHANGED << published, modules, orders, docks, unresolved, sent >>

-----------------------------------------------------------------------------
(* Events of an order. EventOf is the common part: the bucket is found or  *)
(* made under address a, and the event is appended to its trail.           *)
EventOf(a, p, o, f(_)) ==
  /\ failed' = Ambiguous(orders, a, p, o)
  /\ orders' = IF Ambiguous(orders, a, p, o) THEN orders
               ELSE Filed(orders, a, p, o, LAMBDA x :
                      appendOrderProof(f(x)))

WithHash(x, m, p) == [ x EXCEPT !.planHash = @ \/ PlanKnown(m, p) ]

OrderCreation(m, p, o, f(_)) ==
  /\ Replays /\ EventOf(m, p, o, f)
  /\ trusted' = (trusted /\ << m, p >> \in published)
  /\ UNCHANGED << published, modules, plans, docks, unresolved, sent >>

applyOrderRegistered(m, p, o) ==
  OrderCreation(m, p, o, LAMBDA x : WithHash([ x EXCEPT !.status = "registered" ], m, p))
applyOrderMaterialized(m, p, o) ==
  OrderCreation(m, p, o, LAMBDA x : WithHash([ x EXCEPT !.status = "registered", !.staged = TRUE ], m, p))
applyOrderRelayerRecorded(m, p, o) == OrderCreation(m, p, o, LAMBDA x : [ x EXCEPT !.relayed = TRUE ])
applyOrderTriggered(m, p, o) ==
  OrderCreation(m, p, o, LAMBDA x : WithHash([ x EXCEPT !.status = "registered", !.staged = TRUE ], m, p))

(* Hook, signal and stage events of the state machine itself; the plan is  *)
(* optional in streams older than v0.10. Registers: the event implies it.  *)
OrderEvent(m, p, o, registers) ==
  /\ Replays
  /\ EventOf(m, p, o, LAMBDA x : IF registers THEN [ x EXCEPT !.status = "registered" ] ELSE x)
  /\ trusted' = (trusted /\ << m, p >> \in published)
  /\ UNCHANGED << published, modules, plans, docks, unresolved, sent >>

(* Patch and derived-signal events, which a module emits.                  *)
ensureStateMachineOrderFromModuleEvent(emitter, p, o) ==
  /\ Replays /\ EventOf(stateMachineAddressForOrderEvent(emitter), p, o, LAMBDA x : x)
  /\ unresolved' = Counted(unresolved, emitter)
  /\ trusted' = (trusted /\ Genuine(emitter, p))
  /\ UNCHANGED << published, modules, plans, docks, sent >>

applyOrderLinked(emitter, p, o) ==
  LET m == stateMachineAddressForOrderEvent(emitter)
  IN  /\ Replays
      /\ EventOf(m, p, o, LAMBDA x : [ x EXCEPT !.linked = TRUE, !.staged = TRUE ])
      /\ unresolved' = Counted(unresolved, emitter)
      /\ trusted' = (trusted /\ Genuine(emitter, p))
      /\ UNCHANGED << published, modules, plans, docks, sent >>

-----------------------------------------------------------------------------
(* Docks. The contract opens an instance once.                             *)
applyDockOpened(emitter, d, lp, lo, tp, to) ==
  LET m == stateMachineAddressForOrderEvent(emitter)
  IN  /\ Replays /\ Applied /\ lo # to
      /\ \A a \in Addresses : docks[<< a, d >>] = Absent
      /\ orders' = Filed(Filed(orders, m, lp, lo, appendOrderProof), m, tp, to, appendOrderProof)
      /\ docks' = [ docks EXCEPT ![<< m, d >>] =
            [ localOrder |-> lo, localPlan |-> lp, linkedOrder |-> to, targetPlan |-> tp, inputs |-> {}, outputs |-> {} ] ]
      /\ unresolved' = [ Counted(unresolved, emitter) EXCEPT !["dockTarget"] = IF PlanKnown(m, tp) THEN @ ELSE @ + 1 ]
      /\ trusted' = (trusted /\ Genuine(emitter, lp))
      /\ UNCHANGED << published, modules, plans, sent >>

findDockForEvent(emitter, d) == << stateMachineAddressForOrderEvent(emitter), d >>

CountUnresolvedDock(counter) == [ counter EXCEPT !["dock"] = @ + 1 ]

(* A delivery is recorded by f and appended to the orders in touched.      *)
Delivery(emitter, d, f(_), touched(_)) ==
  LET key == findDockForEvent(emitter, d)
      dock == docks[key]
  IN  /\ Replays /\ Applied
      /\ IF dock = Absent
         THEN /\ unresolved' = CountUnresolvedDock(Counted(unresolved, emitter))
              /\ UNCHANGED << docks, orders >>
         ELSE /\ docks' = [ docks EXCEPT ![key] = f(@) ]
              /\ orders' = touched(dock)
              /\ unresolved' = Counted(unresolved, emitter)
      /\ trusted' = (trusted /\ Cardinality(Owners(emitter)) = 1)
      /\ UNCHANGED << published, modules, plans >>

AtLocal(os, m, dock) == Filed(os, m, dock.localPlan, dock.localOrder, appendOrderProof)
AtLinked(os, m, dock) == Filed(os, m, dock.targetPlan, dock.linkedOrder, appendOrderProof)

applyDockInputSubmitted(emitter, d, b) ==
  /\ Delivery(emitter, d, LAMBDA x : [ x EXCEPT !.inputs = @ \cup {b} ],
              LAMBDA x : AtLinked(AtLocal(orders, findDockForEvent(emitter, d)[1], x), findDockForEvent(emitter, d)[1], x))
  /\ sent' = sent \cup { << d, b, "input" >> }

applyDockOutputSubmitted(emitter, d, b) ==
  /\ Delivery(emitter, d, LAMBDA x : [ x EXCEPT !.outputs = @ \cup {b} ],
              LAMBDA x : AtLocal(AtLinked(orders, findDockForEvent(emitter, d)[1], x), findDockForEvent(emitter, d)[1], x))
  /\ sent' = sent \cup { << d, b, "output" >> }

(* A sibling binding delivered the same fact: the parent's trail only.     *)
applyDockOutputSatisfied(emitter, d, b) ==
  /\ Delivery(emitter, d, LAMBDA x : [ x EXCEPT !.outputs = @ \cup {b} ],
              LAMBDA x : AtLocal(orders, findDockForEvent(emitter, d)[1], x))
  /\ sent' = sent \cup { << d, b, "output" >> }

-----------------------------------------------------------------------------
rebuildOrderProjections ==
  \/ \E m \in Machines, id \in ModuleIds, a \in Modules : applyStateMachineModuleSet(m, id, a)
  \/ \E m \in Machines, p \in Plans :
       \/ applyPlanCommitted(m, p) \/ applyPlanFinalized(m, p) \/ applyPlanRegistered(m, p)
       \/ applyPlanPublisherRecorded(m, p)
  \/ \E a \in Modules, p \in Plans :
       applySignalCapabilityRegistered(a, p) \/ applyStageSelectorBindingRegistered(a, p)
  \/ \E m \in Machines, p \in Plans, o \in Orders :
       \/ applyOrderRegistered(m, p, o) \/ applyOrderMaterialized(m, p, o)
       \/ applyOrderRelayerRecorded(m, p, o) \/ applyOrderTriggered(m, p, o)
  \/ \E m \in Machines, p \in Plans \cup {NoPlan}, o \in Orders, r \in BOOLEAN : OrderEvent(m, p, o, r)
  \/ \E a \in Modules, p \in Plans \cup {NoPlan}, o \in Orders :
       ensureStateMachineOrderFromModuleEvent(a, p, o) \/ applyOrderLinked(a, p, o)
  \/ \E a \in Modules, d \in Docks, lp \in Plans, tp \in Plans, lo \in Orders, to \in Orders :
       applyDockOpened(a, d, lp, lo, tp, to)
  \/ \E a \in Modules, d \in Docks, b \in Bindings :
       applyDockInputSubmitted(a, d, b) \/ applyDockOutputSubmitted(a, d, b) \/ applyDockOutputSatisfied(a, d, b)

Next == rebuildOrderProjections
Spec == Init /\ [][Next]_bucketVars

-----------------------------------------------------------------------------
(* The snapshot is well formed.                                            *)
TypeOK ==
  /\ modules \in [ Slots -> Modules \cup {Absent} ] /\ plans \in [ PlanKeys -> Plan \cup {Absent} ]
  /\ orders \in [ OrderKeys -> Order \cup {Absent} ]
  /\ \A k \in OrderKeys : orders[k] # Absent => orders[k].plan = k[2]
  /\ docks \in [ DockKeys -> Dock \cup {Absent} ]
  /\ unresolved \in [ Counters -> 0..MaxReplay ] /\ failed \in BOOLEAN /\ replayed \in 0..MaxReplay

(* An order is never split: while a bucket of an unknown plan exists under *)
(* an address, no bucket of the same order with a plan does.               *)
NoSplitOrder ==
  \A a \in Addresses, o \in Orders :
    orders[<< a, NoPlan, o >>] # Absent => \A p \in Plans : orders[<< a, p, o >>] = Absent

(* No silent phantom: a bucket under a module's address, instead of its    *)
(* state machine's, is always accompanied by the diagnostic count.         *)
NoSilentPhantom ==
  \A k \in OrderKeys : orders[k] # Absent /\ k[1] \in Modules => unresolved["moduleOrder"] > 0

(* A stream the v0.10 contracts can emit never ends the replay: metadata   *)
(* events come before PlanRegistered, possibly for a plan id two state     *)
(* machines share, and none of them is an unknown plan.                    *)
ContractStreamReplays == trusted => ~failed

(* Every delivery a dock event reported is in a dock projection or counted *)
(* as unresolved.                                                          *)
DeliveriesAccounted ==
  \A x \in sent : \/ unresolved["dock"] > 0
                  \/ \E a \in Addresses :
                       /\ docks[<< a, x[1] >>] # Absent
                       /\ x[2] \in IF x[3] = "input" THEN docks[<< a, x[1] >>].inputs ELSE docks[<< a, x[1] >>].outputs

(* What the events of an order left behind is in one place, or counted     *)
(* where an operator sees it, and the replay of a stream the contracts     *)
(* emit goes through.                                                      *)
BucketsSound ==
  TypeOK /\ NoSplitOrder /\ NoSilentPhantom /\ ContractStreamReplays /\ DeliveriesAccounted

(* The invariant behind it: a committed plan stays known, no counter runs  *)
(* ahead of the events, and a stream that obeyed the contracts so far has  *)
(* not ended the replay.                                                   *)
IndInv ==
  /\ BucketsSound
  /\ published \in SUBSET PlanKeys /\ \A k \in published : plans[k] # Absent
  /\ \A c \in Counters : unresolved[c] <= replayed
  /\ sent \in SUBSET (Docks \X Bindings \X { "input", "output" }) /\ trusted \in BOOLEAN
=============================================================================
