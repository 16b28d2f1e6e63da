----------------------------- MODULE DockKeeper -----------------------------
(***************************************************************************)
(* The dock liveness worker (service/src/dock-automation/service.ts): it   *)
(* polls the routes an off-chain source lists, finds in the order          *)
(* projection which docking steps are ready and not yet delivered, and     *)
(* broadcasts them.  All routes of the model share one routeId and one     *)
(* local plan (a plan that reuses a route): what tells them apart is the   *)
(* local order.  A route has three steps: "open" (its entrance hook),      *)
(* "input" (its second input binding) and "output".                        *)
(*                                                                         *)
(* The projection lags the chain; a transaction may be refused by the      *)
(* submitter or lost after it was accepted; the process may restart.  Time *)
(* is counted in ticks and only as ages, up to redeliveryWindowMs.         *)
(***************************************************************************)
EXTENDS Integers, FiniteSets, Sequences

CONSTANTS
    DockRoutes,       \* how many routes the source lists, in order 1..DockRoutes
    ExistingRoutes,   \* those of orderMode "existing"
    Twins,            \* those whose order number is also used on a second deployment
    RedeliveryWindow, \* redeliveryWindowMs, in ticks
    MaxPerRun,        \* maxCandidatesPerRun
    MaxDockTrouble    \* bound on refusals, losses, restarts and stops together

VARIABLES
    dockChain,       \* [facts, done]: what is true on chain, per route and step
    dockProjection,  \* the same, as the order projection last showed it
    dockPool,        \* broadcast transactions not yet mined
    routeSource,     \* "good" or "malformed": what listRoutes() answers
    running,         \* the worker's interval is set
    run,             \* the round in progress: [checking, queue, submitted]
    lastBroadcastAt, \* the worker's Map, as the age of the last attempt per key
    attempts,        \* history: ages of the attempts per key still in the window
    rebirths,        \* history: ages of the restarts still in the window
    misdirected,     \* history: a step went to an instance without its fact
    dockTrouble      \* refusals, losses, restarts and stops so far

dockVars == << dockChain, dockProjection, dockPool, routeSource, running, run,
               lastBroadcastAt, attempts, rebirths, misdirected, dockTrouble >>

RouteNumbers == 1..DockRoutes
StepKinds    == {"open", "input", "output"}
DockKeys     == RouteNumbers \X StepKinds

NoFacts == [facts |-> {}, done |-> {}]
NoRun   == [checking |-> FALSE, queue |-> {}, submitted |-> 0]

DockTypeOK ==
    /\ dockChain \in [facts : SUBSET DockKeys, done : SUBSET DockKeys]
    /\ dockProjection \in [facts : SUBSET DockKeys, done : SUBSET DockKeys]
    /\ dockPool \subseteq DockKeys
    /\ routeSource \in {"good", "malformed"}
    /\ running \in BOOLEAN
    /\ run \in [checking : BOOLEAN, queue : SUBSET DockKeys, submitted : 0..MaxPerRun]
    /\ lastBroadcastAt \in [DockKeys -> 0..RedeliveryWindow]
    /\ dockTrouble \in 0..MaxDockTrouble

(***************************************************************************)
(* Candidates of a round: a function of the routes and one snapshot.       *)
(***************************************************************************)

(* Fault: the instance is looked up by routeId alone.                       *)
FirstDockOfRoute(snap, r) ==
    {d \in RouteNumbers : /\ <<d, "open">> \in snap.done
                          /\ \A e \in 1..(d - 1) : <<e, "open">> \notin snap.done}

(* The dock instance of a route, identified by (routeId, localPlanId,      *)
(* localOrderId): empty or one.                                            *)
DockOf(snap, r) == {d \in RouteNumbers : d = r /\ <<d, "open">> \in snap.done}

(* #orderFor without an address: an order number in use on two deployments *)
(* has two matches, and no answer.                                         *)
OrderUnique(r) == r \notin Twins

entranceHookReady(snap, r) == OrderUnique(r) /\ <<r, "open">> \in snap.facts

(* With a dock the order is sought under the dock's own state machine.     *)
inputHookReady(snap, r) == <<r, "input">> \in snap.facts

targetFactExists(snap, r) == OrderUnique(r) /\ <<r, "output">> \in snap.facts

(* What runOnce would submit for one route: the opening of its dock, or    *)
(* what the open dock still lacks.                                         *)
RouteCandidates(snap, r) ==
    LET docks == DockOf(snap, r)
        open == { k \in { <<r, "open">> } : docks = {} /\ entranceHookReady(snap, r) }
        input == { k \in docks \X {"input"} : k \notin snap.done /\ inputHookReady(snap, r) }
        output == { k \in docks \X {"output"} : k \notin snap.done /\ targetFactExists(snap, r) }
    IN  IF r \in ExistingRoutes THEN {} ELSE open \cup input \cup output

Candidates(snap) == UNION { RouteCandidates(snap, r) : r \in RouteNumbers }

(* They are submitted route by route, inputs before outputs.               *)
Precedes(j, k) == j[1] < k[1] \/ (j[1] = k[1] /\ j[2] = "input" /\ k[2] = "output")

-----------------------------------------------------------------------------
Init ==
    /\ dockChain = NoFacts /\ dockProjection = NoFacts
    /\ dockPool = {}
    /\ routeSource \in {"good", "malformed"}
    /\ running = FALSE
    /\ run = NoRun
    /\ lastBroadcastAt = [k \in DockKeys |-> RedeliveryWindow]
    /\ attempts = [k \in DockKeys |-> <<>>]
    /\ rebirths = <<>>
    /\ misdirected = FALSE
    /\ dockTrouble = 0

(* A history lists ages, the newest first, while they are in the window.   *)
InWindow(ages) == [i \in { j \in DOMAIN ages : ages[j] < RedeliveryWindow } |-> ages[i]]
Now(ages) == InWindow(<<0>> \o ages)
Older(ages) == InWindow([i \in DOMAIN ages |-> ages[i] + 1])

(***************************************************************************)
(* The worker.                                                             *)
(***************************************************************************)

Start ==
    /\ ~running
    /\ running' = TRUE
    /\ UNCHANGED << dockChain, dockProjection, dockPool, routeSource, run,
                    lastBroadcastAt, attempts, rebirths, misdirected, dockTrouble >>

(* stop() clears the interval only: a round in progress runs to its end.   *)
Stop ==
    /\ running /\ dockTrouble < MaxDockTrouble
    /\ running' = FALSE
    /\ dockTrouble' = dockTrouble + 1
    /\ UNCHANGED << dockChain, dockProjection, dockPool, routeSource, run,
                    lastBroadcastAt, attempts, rebirths, misdirected >>

(* One record with a missing, zero or foreign identity, or a "new" route   *)
(* without entrance or calldata, refuses the whole listing.                *)
validateDockRouteRecord == routeSource = "good"

(* The interval fires: the routes are listed and validated, then one       *)
(* snapshot is taken.  A malformed record makes the whole round throw.     *)
RunStarts ==
    /\ running /\ ~run.checking
    /\ validateDockRouteRecord
    /\ run' = [checking |-> TRUE, queue |-> Candidates(dockProjection), submitted |-> 0]
    /\ UNCHANGED << dockChain, dockProjection, dockPool, routeSource, running,
                    lastBroadcastAt, attempts, rebirths, misdirected, dockTrouble >>

(* Fault: a round that stops at its limit leaves #checking set.            *)
RunEndsChecking ==
    /\ run.checking
    /\ run.queue = {} \/ run.submitted >= MaxPerRun
    /\ run' = IF run.submitted >= MaxPerRun THEN [run EXCEPT !.queue = {}] ELSE NoRun
    /\ UNCHANGED << dockChain, dockProjection, dockPool, routeSource, running,
                    lastBroadcastAt, attempts, rebirths, misdirected, dockTrouble >>

(* The round ends when the list is exhausted or the limit is reached.      *)
RunEnds ==
    /\ run.checking
    /\ run.queue = {} \/ run.submitted >= MaxPerRun
    /\ run' = NoRun
    /\ UNCHANGED << dockChain, dockProjection, dockPool, routeSource, running,
                    lastBroadcastAt, attempts, rebirths, misdirected, dockTrouble >>

(* The dedupe test of #submitCalldata: an attempt younger than the window. *)
Held(key) == lastBroadcastAt[key] < RedeliveryWindow

(* The candidate the round has come to.                                    *)
Due(key) ==
    /\ run.checking /\ run.submitted < MaxPerRun
    /\ key \in run.queue /\ \A other \in run.queue : ~Precedes(other, key)

(* deduplicated += 1                                                       *)
SubmitDeduplicated == \E key \in DockKeys :
    /\ Due(key) /\ Held(key)
    /\ run' = [run EXCEPT !.queue = @ \ {key}]
    /\ UNCHANGED << dockChain, dockProjection, dockPool, routeSource, running,
                    lastBroadcastAt, attempts, rebirths, misdirected, dockTrouble >>

(* The window is taken before the submitter is called, whatever it answers. *)
Attempt(key) ==
    /\ Due(key) /\ ~Held(key)
    /\ lastBroadcastAt' = [lastBroadcastAt EXCEPT ![key] = 0]
    /\ attempts' = [attempts EXCEPT ![key] = Now(@)]
    /\ misdirected' = (misdirected \/ key \notin dockChain.facts)

SubmitAccepted == \E key \in DockKeys :
    /\ Attempt(key)
    /\ dockPool' = dockPool \cup {key}
    /\ run' = [run EXCEPT !.queue = @ \ {key}, !.submitted = @ + 1]
    /\ UNCHANGED << dockChain, dockProjection, routeSource, running, rebirths, dockTrouble >>

(* The error is pushed on summary.skipped and the round goes on.           *)
SubmitRefused == \E key \in DockKeys :
    /\ dockTrouble < MaxDockTrouble
    /\ Attempt(key)
    /\ run' = [run EXCEPT !.queue = @ \ {key}]
    /\ dockTrouble' = dockTrouble + 1
    /\ UNCHANGED << dockChain, dockProjection, dockPool, routeSource, running, rebirths >>

(* The process restarts: the Map is in memory only.                        *)
Restart ==
    /\ running /\ dockTrouble < MaxDockTrouble
    /\ running' = FALSE /\ run' = NoRun
    /\ lastBroadcastAt' = [k \in DockKeys |-> RedeliveryWindow]
    /\ rebirths' = Now(rebirths)
    /\ dockTrouble' = dockTrouble + 1
    /\ UNCHANGED << dockChain, dockProjection, dockPool, routeSource, attempts, misdirected >>

(***************************************************************************)
(* Its surroundings: the chain, the index, the route source and the clock. *)
(***************************************************************************)

(* A hook becomes ready, or the linked order records the target signal.    *)
FactHappens == \E k \in DockKeys \ dockChain.facts :
    /\ k[2] # "open" => <<k[1], "open">> \in dockChain.done
    /\ dockChain' = [dockChain EXCEPT !.facts = @ \cup {k}]
    /\ UNCHANGED << dockProjection, dockPool, routeSource, running, run,
                    lastBroadcastAt, attempts, rebirths, misdirected, dockTrouble >>

(* The docking module takes a step once, and an input or output only on an *)
(* open dock.                                                              *)
TransactionMined == \E k \in dockPool :
    /\ dockPool' = dockPool \ {k}
    /\ dockChain' = IF k \in dockChain.facts /\ (k[2] = "open" \/ <<k[1], "open">> \in dockChain.done)
                    THEN [dockChain EXCEPT !.done = @ \cup {k}] ELSE dockChain
    /\ UNCHANGED << dockProjection, routeSource, running, run, lastBroadcastAt,
                    attempts, rebirths, misdirected, dockTrouble >>

(* A party other than the worker opens the dock of an order the worker     *)
(* cannot tell apart.                                                      *)
OpenedByHand == \E r \in Twins :
    /\ <<r, "open">> \in dockChain.facts \ dockChain.done
    /\ dockChain' = [dockChain EXCEPT !.done = @ \cup {<<r, "open">>}]
    /\ UNCHANGED << dockProjection, dockPool, routeSource, running, run,
                    lastBroadcastAt, attempts, rebirths, misdirected, dockTrouble >>

TransactionLost == \E k \in dockPool :
    /\ dockTrouble < MaxDockTrouble
    /\ dockPool' = dockPool \ {k}
    /\ dockTrouble' = dockTrouble + 1
    /\ UNCHANGED << dockChain, dockProjection, routeSource, running, run,
                    lastBroadcastAt, attempts, rebirths, misdirected >>

IndexCatchesUp ==
    /\ dockProjection # dockChain
    /\ dockProjection' = dockChain
    /\ UNCHANGED << dockChain, dockPool, routeSource, running, run, lastBroadcastAt,
                    attempts, rebirths, misdirected, dockTrouble >>

SourceRepaired ==
    /\ routeSource = "malformed"
    /\ routeSource' = "good"
    /\ UNCHANGED << dockChain, dockProjection, dockPool, running, run, lastBroadcastAt,
                    attempts, rebirths, misdirected, dockTrouble >>

Tick ==
    /\ \/ \E k \in DockKeys : lastBroadcastAt[k] < RedeliveryWindow \/ attempts[k] # <<>>
       \/ rebirths # <<>>
    /\ lastBroadcastAt' = [k \in DockKeys |->
            IF lastBroadcastAt[k] < RedeliveryWindow THEN lastBroadcastAt[k] + 1
                                                     ELSE RedeliveryWindow]
    /\ attempts' = [k \in DockKeys |-> Older(attempts[k])]
    /\ rebirths' = Older(rebirths)
    /\ UNCHANGED << dockChain, dockProjection, dockPool, routeSource, running, run,
                    misdirected, dockTrouble >>

Next ==
    \/ Start \/ Stop \/ RunStarts \/ RunEnds
    \/ SubmitDeduplicated \/ SubmitAccepted \/ SubmitRefused \/ Restart
    \/ FactHappens \/ OpenedByHand \/ TransactionMined \/ TransactionLost
    \/ IndexCatchesUp \/ SourceRepaired \/ Tick

(***************************************************************************)
(* The interval keeps firing and a round's awaits return; accepted         *)
(* transactions are mined unless lost; the index and the clock advance;    *)
(* an operator restarts a stopped worker and repairs a refused source.     *)
(***************************************************************************)
Fairness ==
    /\ WF_dockVars(Start) /\ WF_dockVars(SourceRepaired)
    /\ WF_dockVars(RunStarts) /\ WF_dockVars(RunEnds)
    /\ WF_dockVars(SubmitDeduplicated \/ SubmitAccepted)
    /\ WF_dockVars(TransactionMined) /\ WF_dockVars(IndexCatchesUp) /\ WF_dockVars(Tick)

Spec == Init /\ [][Next]_dockVars /\ Fairness

-----------------------------------------------------------------------------
(* The rate limit of #submitCalldata: in any redelivery window one step is *)
(* attempted at most once, whether or not the attempt succeeded, plus once *)
(* for every restart of the process that falls in the window.              *)
RateLimited ==
    \A k \in DockKeys : Len(attempts[k]) <= 1 + Len(rebirths)

(* A step is broadcast only for the dock instance whose own order supports *)
(* it on chain, although every route shares the routeId and the snapshot   *)
(* may be old (the dock lookup of runOnce).                                *)
SupportedByFact == ~misdirected

(* A round keeps to its window and its limits, and broadcasts nothing      *)
(* that the chain does not support.                                        *)
DockSound == DockTypeOK /\ RateLimited /\ SupportedByFact

(* The invariant behind it.                                                *)
Aging(ages) ==
    /\ ages \in Seq(Nat)
    /\ \A i \in DOMAIN ages : ages[i] < RedeliveryWindow
    /\ \A i, j \in DOMAIN ages : i <= j => ages[i] <= ages[j]

(* Between two attempts in a window the process restarted; and the Map     *)
(* knows the newest attempt, unless a restart came after it.               *)
WindowInv(k) ==
    /\ Aging(attempts[k])
    /\ \A i \in DOMAIN attempts[k] : i > 1 => i - 1 \in DOMAIN rebirths /\ rebirths[i - 1] <= attempts[k][i]
    /\ Held(k) => 1 \in DOMAIN attempts[k] /\ attempts[k][1] = lastBroadcastAt[k]
    /\ ~Held(k) => \A i \in DOMAIN attempts[k] : i \in DOMAIN rebirths /\ rebirths[i] <= attempts[k][i]

(* What a round found to be a fact, in whatever snapshot, is one.          *)
FactInv ==
    /\ dockProjection.facts \subseteq dockChain.facts
    /\ run.queue \subseteq dockChain.facts
    /\ SupportedByFact

IndInv ==
    /\ DockTypeOK /\ DOMAIN attempts = DockKeys
    /\ Aging(rebirths) /\ (\A k \in DockKeys : WindowInv(k)) /\ FactInv

(* The worker provides liveness: every step whose fact is on chain is      *)
(* delivered in the end, through refusals, lost transactions, restarts and *)
(* a limit of one broadcast a round; an order number in use twice is the   *)
(* declared exception (#orderFor fails closed).                            *)
Deliverable(k) ==
    /\ k[1] \notin ExistingRoutes
    /\ k[2] # "input" => k[1] \notin Twins
    /\ k[2] # "open" => <<k[1], "open">> \in dockChain.done
DockDelivers == []<>(\A k \in dockChain.facts : Deliverable(k) => k \in dockChain.done)
=============================================================================
