--------------------------- MODULE MCFollowers ---------------------------
(* What must get there in the end: the indexer, with another process that  *)
(* rebuilds its database, and the dock worker, with one route it opens     *)
(* itself and one it must leave alone.  A behaviour is about the one in    *)
(* focus, and its fairness is the one the component states.                *)
EXTENDS Integers, Sequences, FiniteSets

CONSTANTS
  Txs, NoTx, Confirmations, MaxSweepAttempts, CasLimit,
  FirstBlockHasEvent, ReorgInRound, OtherProcess,
  MaxHeight, MaxForks, MaxFaults, MaxRebuilds,
  DockRoutes, ExistingRoutes, Twins, RedeliveryWindow, MaxPerRun, MaxDockTrouble

VARIABLES
  focus,
  chain, forks, events, cursor, sync, steps, deliveries, memory, casFailures,
  pc, job, other, faults, rebuilds, forgone, uncleaned,
  dockChain, dockProjection, dockPool, routeSource, running, run,
  lastBroadcastAt, attempts, rebirths, misdirected, dockTrouble

H == INSTANCE Indexer
D == INSTANCE DockKeeper

indexVars == << chain, forks, events, cursor, sync, steps, deliveries, memory, casFailures,
                pc, job, other, faults, rebuilds, forgone, uncleaned >>
dockVars == << dockChain, dockProjection, dockPool, routeSource, running, run,
               lastBroadcastAt, attempts, rebirths, misdirected, dockTrouble >>
vars == << focus, indexVars, dockVars >>

Init ==
  /\ H!Init /\ D!Init
  /\ \/ focus = "recovering" /\ routeSource = "good"
     \/ focus = "delivering"

Next ==
  \/ focus = "recovering" /\ H!Next /\ UNCHANGED << focus, dockVars >>
  \/ focus = "delivering" /\ D!Next /\ UNCHANGED << focus, indexVars >>

Recovering == focus = "recovering"
Delivering == focus = "delivering"

(* The fairness of Indexer's FairSpec and of DockKeeper's Fairness.        *)
Spec ==
  /\ Init /\ [][Next]_vars
  /\ WF_vars(Recovering /\ H!Mine /\ UNCHANGED << focus, dockVars >>)
  /\ WF_vars(Recovering /\ H!Proceed /\ UNCHANGED << focus, dockVars >>)
  /\ SF_vars(Recovering /\ H!Poll /\ UNCHANGED << focus, dockVars >>)
  /\ WF_vars(Delivering /\ D!Start /\ UNCHANGED << focus, indexVars >>)
  /\ WF_vars(Delivering /\ D!SourceRepaired /\ UNCHANGED << focus, indexVars >>)
  /\ WF_vars(Delivering /\ D!RunStarts /\ UNCHANGED << focus, indexVars >>)
  /\ WF_vars(Delivering /\ D!RunEnds /\ UNCHANGED << focus, indexVars >>)
  /\ WF_vars(Delivering /\ (D!SubmitDeduplicated \/ D!SubmitAccepted) /\ UNCHANGED << focus, indexVars >>)
  /\ WF_vars(Delivering /\ D!TransactionMined /\ UNCHANGED << focus, indexVars >>)
  /\ WF_vars(Delivering /\ D!IndexCatchesUp /\ UNCHANGED << focus, indexVars >>)
  /\ WF_vars(Delivering /\ D!Tick /\ UNCHANGED << focus, indexVars >>)

-----------------------------------------------------------------------------
(* The cursor reaches the finalized block of a chain that goes quiet,      *)
(* after any faults, reorganisations and foreign rebuilds, unless the      *)
(* indexer failed closed (#refreshFromCursor, #rollbackOnReorg).           *)
CatchesUp ==
  <>[](Recovering => cursor.next = H!FinalizedBlock + 1 \/ H!FailedClosed)
(* The queue of post-commit steps is emptied again and again               *)
(* (#sweepPendingPostCommitStepsUnderGuard), unless the indexer failed     *)
(* closed.                                                                 *)
QueueDrains == []<>(Recovering => steps = {} \/ H!FailedClosed)

(* After any faults, reorganisations and foreign rebuilds the indexer is   *)
(* up to date with its chain and its queue, or has failed closed.          *)
Recovers == CatchesUp /\ QueueDrains

(* The worker provides liveness: every step whose fact is on chain is      *)
(* delivered in the end, through refusals, lost transactions, restarts and *)
(* a limit of one broadcast a round; an order number in use twice is the   *)
(* declared exception (#orderFor fails closed).                            *)
DockDelivers ==
  []<>(Delivering => \A k \in dockChain.facts : D!Deliverable(k) => k \in dockChain.done)
=============================================================================
