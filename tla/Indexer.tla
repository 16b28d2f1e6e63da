------------------------------ MODULE Indexer ------------------------------
(* The indexer (indexer/service.ts): incremental refresh, rollback after a *)
(* reorganisation, rebuild, and the durable queue of post-commit steps. It *)
(* follows a chain that grows and is reorganised, over a store that        *)
(* survives crashes; a second process may rebuild the same database.       *)
EXTENDS Integers, Sequences, FiniteSets

CONSTANTS
  Txs, NoTx,          \* transactions that emit a signal; a block without one
  Confirmations,      \* finalityConfirmations
  MaxSweepAttempts,   \* PENDING_POST_COMMIT_MAX_SWEEP_ATTEMPTS
  CasLimit,           \* CURSOR_CAS_FAILURE_LIMIT
  FirstBlockHasEvent, \* the deployment block holds an event, in every fork
  ReorgInRound,       \* whether the chain may be reorganised during an operation
  OtherProcess,       \* whether another process rebuilds the same database
  MaxHeight, MaxForks, MaxFaults, MaxRebuilds  \* bounds of the model

VARIABLES
  chain, forks,      \* the canonical chain, and the reorganisations so far
  events,            \* chain_event_log
  cursor,            \* chain_index_cursor
  sync,              \* finalizedBlock of the projection sync state
  steps,             \* indexer_pending_post_commit
  deliveries,        \* the delivery each event led to
  memory,            \* #cursor
  casFailures,       \* #consecutiveCursorCasFailures
  pc, job,           \* the operation inside the exclusive guard
  other,             \* a rebuild by another process
  faults, rebuilds,  \* bounded counters
  forgone,           \* history: events whose notification was given up
  uncleaned          \* history: events went away without their clean-up

chainVars == << chain, forks >>
histVars == << faults, rebuilds, forgone, uncleaned >>
storeVars == << events, cursor, sync, steps, deliveries >>
memVars == << memory, casFailures, pc, job >>
vars == << chainVars, storeVars, memVars, other, histVars >>

At(label) == pc = label

(* The locals of an operation.                                              *)
NoJob == [ from |-> 0, final |-> 0, reported |-> 0, events |-> {}, hash |-> << 0, 0 >>,
           todo |-> {}, next |-> 0, rebuild |-> FALSE ]

NoCursor == [ next |-> 0, final |-> 0, hash |-> << 0, 0 >> ]
Deployment == 1
Heights == 0..MaxHeight

-----------------------------------------------------------------------------
(* The chain. A block is named by the reorganisation it was made after; a  *)
(* hash is a height and that name. An event is keyed by block number and   *)
(* transaction, as chainEventKey is, and carries the hash of its block.    *)
HashOf(c, h) == << h, IF h = 0 THEN 0 ELSE c[h].fork >>

Logs(c, from, to) ==
  { [ h |-> h, tx |-> c[h].tx, fork |-> c[h].fork ] :
      h \in { k \in from..to : k \in 1..Len(c) /\ c[k].tx # NoTx } }

Key(e) == << e.h, e.tx >>
Keys(es) == { Key(e) : e \in es }
AllKeys == (1..MaxHeight) \X Txs

OnChain(hash) == hash[1] <= Len(chain) /\ HashOf(chain, hash[1]) = hash

FinalizedBlock == IF Len(chain) <= Confirmations THEN 0 ELSE Len(chain) - Confirmations

Blocks == [ fork : 0..MaxForks, tx : Txs \cup {NoTx} ]
MayHold(h, tx) == h = Deployment /\ FirstBlockHasEvent => tx # NoTx

Mine ==
  /\ Len(chain) < MaxHeight
  /\ \E tx \in Txs \cup {NoTx} :
       /\ MayHold(Len(chain) + 1, tx)
       /\ chain' = Append(chain, [ fork |-> forks, tx |-> tx ])
  /\ UNCHANGED << forks, storeVars, memVars, other, histVars >>

(* The blocks above k are replaced by one new block, with another or with  *)
(* the same transaction; the deployment block itself is out of reach.      *)
Reorg(k) ==
  /\ forks < MaxForks
  /\ k \in Deployment..Len(chain) - 1
  /\ ReorgInRound \/ At("idle")
  /\ \E tx \in Txs \cup {NoTx} :
       chain' = Append(SubSeq(chain, 1, k), [ fork |-> forks + 1, tx |-> tx ])
  /\ forks' = forks + 1
  /\ UNCHANGED << storeVars, memVars, other, histVars >>

-----------------------------------------------------------------------------
(* The store.                                                              *)
Cursor(next, final, hash) == [ next |-> next, final |-> final, hash |-> hash ]

(* appendEvent: a row with the same key is kept as it is.                  *)
appendEvents(rows, new) == rows \cup { e \in new : Key(e) \notin Keys(rows) }

deleteEventsAfterBlock(rows, block) == { e \in rows : e.h <= block }

(* saveCursor with expectNextBlock: compare and swap, or the first row.    *)
CasHolds(expected) == cursor = NoCursor \/ cursor.next = expected

(* pendingPostCommitStepId: a step is known by the keys of its events; one *)
(* without events is the automation step.                                  *)
SameStep(s, es) == Keys(s.events) = Keys(es)

(* A row that exists is left alone.                                        *)
savePendingPostCommitStep(rows, es) ==
  IF \E s \in rows : SameStep(s, es) THEN rows
  ELSE rows \cup { [ events |-> es, attempts |-> 0 ] }

deletePendingPostCommitStep(rows, es) == { s \in rows : ~SameStep(s, es) }

recordPendingPostCommitAttempt(rows, es) ==
  { IF SameStep(s, es) THEN [ s EXCEPT !.attempts = @ + 1 ] ELSE s : s \in rows }

saveSyncState(final) == sync' = final

(* resetFromEvents: one transaction for the events, the projections, the   *)
(* cursor (unconditionally) and the sync state.                            *)
resetFromEvents(es, c) ==
  /\ events' = es
  /\ cursor' = c
  /\ saveSyncState(c.final)

-----------------------------------------------------------------------------
(* The notification processor, as far as the indexer sees it: events up to *)
(* the finalized block get a delivery unless they have one; deliveries     *)
(* above a block are invalidated.                                          *)
processSignalSubmittedEvents(es) ==
  [ k \in AllKeys |->
      IF deliveries[k] = "none" /\ \E e \in es : Key(e) = k /\ e.h <= sync
        THEN "live" ELSE deliveries[k] ]

invalidateDeliveriesAboveBlock(block) ==
  [ k \in AllKeys |->
      IF deliveries[k] # "none" /\ k[1] > block THEN "invalidated" ELSE deliveries[k] ]

-----------------------------------------------------------------------------
Init ==
  /\ chain = << >> /\ forks = 0
  /\ events = {} /\ cursor = NoCursor
  /\ sync = 0
  /\ steps = {}
  /\ deliveries = [ k \in AllKeys |-> "none" ]
  /\ memory = NoCursor /\ casFailures = 0
  /\ pc = "idle" /\ job = NoJob
  /\ other = NoJob
  /\ faults = 0 /\ rebuilds = 0 /\ forgone = {} /\ uncleaned = FALSE

Goto(label, locals) == pc' = label /\ job' = locals
Return == Goto("idle", NoJob)
Fault == faults < MaxFaults /\ faults' = faults + 1
NoFault == UNCHANGED << faults, rebuilds, forgone, uncleaned >>
Larger(a, b) == IF a >= b THEN a ELSE b

-----------------------------------------------------------------------------
(* #refreshFromCursor: the cursor in memory wins over the stored one.      *)
Current == IF memory # NoCursor THEN memory ELSE cursor

RefreshStart ==
  /\ At("idle")
  /\ Current # NoCursor
  /\ Goto("check", [ NoJob EXCEPT !.from = Larger(Current.next, Deployment),
                                  !.final = FinalizedBlock ])
  /\ UNCHANGED << chainVars, storeVars, memory, casFailures, other, histVars >>

(* #rollbackOnReorg: the stored hash against the block below from.         *)
HashChecked == job.from - 1 >= Deployment /\ cursor # NoCursor
HashMatches == HashOf(chain, job.from - 1) = cursor.hash

CheckHash ==
  /\ At("check")
  /\ HashChecked => job.from - 1 <= Len(chain) /\ HashMatches
  /\ Goto("sweep", job)
  /\ UNCHANGED << chainVars, storeVars, memory, casFailures, other, histVars >>

CheckHashFails ==
  /\ At("check")
  /\ HashChecked /\ job.from - 1 <= Len(chain) /\ ~HashMatches
  /\ Goto("ancestor", job)
  /\ UNCHANGED << chainVars, storeVars, memory, casFailures, other, histVars >>

(* #rollbackToCommonAncestor: the newest stored event whose block is still *)
(* canonical. A height the node does not have makes it throw.              *)
Anchors == { e \in events : e.h < job.from /\ e.h >= Deployment }
CommonAncestors == { e \in Anchors : OnChain(<< e.h, e.fork >>) }
NewestOf(es) == CHOOSE e \in es : \A d \in es : d.h <= e.h

FindAncestor ==
  /\ At("ancestor")
  /\ CommonAncestors # {}
  /\ \A e \in Anchors : e.h <= Len(chain)
  /\ LET e == NewestOf(CommonAncestors) IN
       Goto("rollback", [ job EXCEPT !.hash = << e.h, e.fork >> ])
  /\ UNCHANGED << chainVars, storeVars, memory, casFailures, other, histVars >>

(* No event was ever stored: it carries on from the cursor.                *)
NoEventStored ==
  /\ At("ancestor")
  /\ events = {}
  /\ Goto("sweep", job)
  /\ UNCHANGED << chainVars, storeVars, memory, casFailures, other, histVars >>

(* A block the node does not have, or a reorganisation deeper than every   *)
(* stored event: the round ends with an error.                             *)
RoundFails ==
  /\ \/ At("check") /\ HashChecked /\ job.from - 1 > Len(chain)
     \/ /\ At("ancestor") /\ events # {}
        /\ CommonAncestors = {} \/ \E e \in Anchors : e.h > Len(chain)
     \/ At("read") /\ job.final < job.from /\ job.from - 1 > Len(chain)
     \/ At("hash") /\ job.final > Len(chain)
     \/ At("rb_hash") /\ job.final > Len(chain)
  /\ Return
  /\ uncleaned' = (uncleaned \/ At("hash"))
  /\ UNCHANGED << chainVars, storeVars, memory, casFailures, other, faults, rebuilds, forgone >>

(* Fault: the events go first, and the cursor only with the next save.     *)
RollbackKeepsCursor ==
  /\ At("rollback")
  /\ CasHolds(job.from)
  /\ events' = deleteEventsAfterBlock(events, job.hash[1])
  /\ sync' = job.hash[1]
  /\ Goto("invalidate", job)
  /\ casFailures' = 0
  /\ UNCHANGED << chainVars, cursor, steps, deliveries, memory, other, histVars >>

(* #applyReorgRollback: one transaction, then the clean-ups.               *)
ApplyRollback ==
  /\ At("rollback")
  /\ CasHolds(job.from)
  /\ LET a == job.hash[1]
         back == Cursor(Larger(a + 1, Deployment), a, job.hash) IN
       /\ events' = deleteEventsAfterBlock(events, a)
       /\ cursor' = back /\ memory' = back
       /\ saveSyncState(a)
       /\ Goto("invalidate", [ job EXCEPT !.from = back.next ])
  /\ casFailures' = 0
  /\ UNCHANGED << chainVars, steps, deliveries, other, histVars >>

(* Another writer moved the cursor: defer to it.                           *)
RollbackDeferred ==
  /\ At("rollback")
  /\ ~CasHolds(job.from)
  /\ casFailures' = casFailures + 1
  /\ IF casFailures + 1 >= CasLimit
       THEN Return /\ UNCHANGED memory
       ELSE /\ memory' = cursor
            /\ Goto("sweep", [ job EXCEPT !.from = Larger(cursor.next, Deployment) ])
  /\ UNCHANGED << chainVars, storeVars, other, histVars >>

(* Fault: the deliveries are left alone.                                   *)
InvalidateNothing ==
  /\ At("invalidate")
  /\ Goto("trim", job)
  /\ UNCHANGED << chainVars, storeVars, memory, casFailures, other, histVars >>

InvalidateNotifications ==
  /\ At("invalidate")
  /\ deliveries' = invalidateDeliveriesAboveBlock(job.hash[1])
  /\ Goto("trim", job)
  /\ UNCHANGED << chainVars, events, cursor, sync, steps, memory, casFailures, other, histVars >>

(* #trimPendingPostCommitStepsAfterReorg.                                  *)
Surviving(s, a) == { e \in s.events : e.h <= a }
Untouched(s, a) == Surviving(s, a) = s.events
Trimmed(a) == { Surviving(s, a) : s \in { t \in steps : ~Untouched(t, a) } } \ {{}}

TrimPendingSteps ==
  /\ At("trim")
  /\ LET a == job.hash[1]
         kept == { s \in steps : Untouched(s, a) } IN
       steps' = kept \cup { [ events |-> es, attempts |-> 0 ] :
                              es \in { x \in Trimmed(a) : \A s \in kept : ~SameStep(s, x) } }
  /\ Goto("sweep", job)
  /\ UNCHANGED << chainVars, events, cursor, sync, deliveries, memory, casFailures, other, histVars >>

(* Both clean-ups are tried twice and then given up.                       *)
CleanupGivenUp ==
  /\ At("invalidate") \/ At("trim")
  /\ Fault
  /\ uncleaned' = TRUE
  /\ Goto(IF At("invalidate") THEN "trim" ELSE "sweep", job)
  /\ UNCHANGED << chainVars, storeVars, memory, casFailures, other, rebuilds, forgone >>

-----------------------------------------------------------------------------
(* #sweepPendingPostCommitStepsUnderGuard, from a round or from the admin. *)
SweepStart ==
  /\ At("idle") /\ steps # {}
  /\ Goto("sweep", NoJob)
  /\ UNCHANGED << chainVars, storeVars, memory, casFailures, other, histVars >>

SweepList ==
  /\ At("sweep")
  /\ Goto("sweeping", [ job EXCEPT !.todo = steps ])
  /\ UNCHANGED << chainVars, storeVars, memory, casFailures, other, histVars >>

WaitsForFinality(s) == \E e \in s.events : e.h > sync
Next1(s) == Goto("sweeping", [ job EXCEPT !.todo = @ \ {s} ])

SweepWaits(s) ==
  /\ At("sweeping") /\ WaitsForFinality(s)
  /\ Next1(s)
  /\ UNCHANGED << chainVars, storeVars, memory, casFailures, other, histVars >>

SweepDelivers(s) ==
  /\ At("sweeping") /\ ~WaitsForFinality(s)
  /\ deliveries' = processSignalSubmittedEvents(s.events)
  /\ steps' = deletePendingPostCommitStep(steps, s.events)
  /\ Next1(s)
  /\ UNCHANGED << chainVars, events, cursor, sync, memory, casFailures, other, histVars >>

(* The delivery, or the deletion after it, fails: counted, and at the      *)
(* limit the step is dropped.                                              *)
SweepFails(s) ==
  /\ At("sweeping") /\ ~WaitsForFinality(s)
  /\ Fault
  /\ deliveries' \in { deliveries, processSignalSubmittedEvents(s.events) }
  /\ IF s.attempts + 1 >= MaxSweepAttempts
       THEN /\ steps' = deletePendingPostCommitStep(steps, s.events)
            /\ forgone' = forgone \cup Keys(s.events)
       ELSE /\ steps' = recordPendingPostCommitAttempt(steps, s.events)
            /\ UNCHANGED forgone
  /\ Next1(s)
  /\ UNCHANGED << chainVars, events, cursor, sync, memory, casFailures, other, rebuilds, uncleaned >>

(* The bound on finality is read after the rollback and never goes back.   *)
SweepDone ==
  /\ At("sweeping") /\ job.todo = {}
  /\ IF job.from = 0 THEN Return
     ELSE Goto("read", [ job EXCEPT
                           !.reported = Larger(Larger(cursor.final, memory.final), job.final) ])
  /\ UNCHANGED << chainVars, storeVars, memory, casFailures, other, histVars >>

-----------------------------------------------------------------------------
(* Fault: the last finalized block is taken for one that is not there yet. *)
RefreshIdleAtFinal ==
  /\ At("read")
  /\ job.final <= job.from /\ job.from - 1 <= Len(chain)
  /\ Goto("save", [ job EXCEPT !.next = job.from, !.hash = HashOf(chain, job.from - 1) ])
  /\ UNCHANGED << chainVars, storeVars, memory, casFailures, other, histVars >>

(* #refreshFromCursor, after the rollback. Nothing finalized to read: the  *)
(* cursor stays, with the hash of its block as it is now.                  *)
RefreshIdle ==
  /\ At("read")
  /\ job.final < job.from /\ job.from - 1 <= Len(chain)
  /\ Goto("save", [ job EXCEPT !.next = job.from, !.hash = HashOf(chain, job.from - 1) ])
  /\ UNCHANGED << chainVars, storeVars, memory, casFailures, other, histVars >>

ReadEvents ==
  /\ At("read")
  /\ job.final >= job.from
  /\ Goto("commit", [ job EXCEPT !.events = Logs(chain, job.from, job.final) ])
  /\ UNCHANGED << chainVars, storeVars, memory, casFailures, other, histVars >>

(* Fault: rows of a crashed round are not swept.                           *)
CommitUnswept ==
  /\ At("commit")
  /\ events' = appendEvents(events, job.events)
  /\ saveSyncState(job.reported)
  /\ Goto("notify", job)
  /\ UNCHANGED << chainVars, cursor, steps, deliveries, memory, casFailures, other, histVars >>

(* One transaction: rows a crashed round left above the cursor are swept,  *)
(* the new ones appended, the projections and the sync state saved.        *)
CommitEvents ==
  /\ At("commit")
  /\ LET kept == IF cursor.next = job.from
                   THEN deleteEventsAfterBlock(events, job.from - 1) ELSE events IN
       events' = appendEvents(kept, job.events)
  /\ saveSyncState(job.reported)
  /\ Goto("notify", job)
  /\ UNCHANGED << chainVars, cursor, steps, deliveries, memory, casFailures, other, histVars >>

AfterNotify == IF job.rebuild THEN "automation" ELSE "hash"

(* Events above the bound on finality are passed over without a word: only *)
(* another process can have lowered it since the commit.                   *)
PassedOver == { Key(e) : e \in { d \in job.events : d.h > sync /\ deliveries[Key(d)] = "none" } }

(* #processSignalNotifications: a rebuild then withdraws its staged step.  *)
NotifyDelivered ==
  /\ At("notify")
  /\ deliveries' = processSignalSubmittedEvents(job.events)
  /\ steps' = IF job.todo # {} THEN deletePendingPostCommitStep(steps, job.events) ELSE steps
  /\ forgone' = forgone \cup PassedOver
  /\ Goto(AfterNotify, job)
  /\ UNCHANGED << chainVars, events, cursor, sync, memory, casFailures, other, faults, rebuilds, uncleaned >>

(* Every try fails, after some of the events were handled.                 *)
NotifyPersisted ==
  /\ At("notify") /\ job.events # {}
  /\ Fault
  /\ \E es \in SUBSET job.events : deliveries' = processSignalSubmittedEvents(es)
  /\ steps' = recordPendingPostCommitAttempt(
                savePendingPostCommitStep(steps, job.events), job.events)
  /\ Goto(AfterNotify, job)
  /\ UNCHANGED << chainVars, events, cursor, sync, memory, casFailures, other, rebuilds, forgone, uncleaned >>

(* And the queue cannot be written either: logged, and lost.               *)
NotifyLost ==
  /\ At("notify") /\ job.events # {} /\ job.todo = {}
  /\ Fault
  /\ forgone' = forgone \cup Keys(job.events)
  /\ Goto(AfterNotify, job)
  /\ UNCHANGED << chainVars, storeVars, memory, casFailures, other, rebuilds, uncleaned >>

ReadHash ==
  /\ At("hash") /\ job.final <= Len(chain)
  /\ Goto("save", [ job EXCEPT !.next = job.final + 1, !.hash = HashOf(chain, job.final) ])
  /\ UNCHANGED << chainVars, storeVars, memory, casFailures, other, histVars >>

(* #saveCursorAdvancingFrom.                                               *)
AfterSave == IF job.next = job.from THEN "summary" ELSE "automation"

SaveCursor ==
  /\ At("save") /\ CasHolds(job.from)
  /\ cursor' = Cursor(job.next, job.reported, job.hash)
  /\ memory' = cursor' /\ casFailures' = 0
  /\ Goto(AfterSave, job)
  /\ UNCHANGED << chainVars, events, sync, steps, deliveries, other, histVars >>

SaveDeferred ==
  /\ At("save") /\ ~CasHolds(job.from)
  /\ memory' = cursor
  /\ casFailures' = casFailures + 1
  /\ IF casFailures + 1 >= CasLimit THEN Return ELSE Goto(AfterSave, job)
  /\ UNCHANGED << chainVars, storeVars, other, histVars >>

(* #summarizeStoredProjection.                                             *)
Summarize ==
  /\ At("summary")
  /\ saveSyncState(job.reported)
  /\ Goto("automation", job)
  /\ UNCHANGED << chainVars, events, cursor, steps, deliveries, memory, casFailures, other, histVars >>

(* #processProjectionAutomation; a rebuild sets #cursor after it.          *)
MemoryAfter == IF job.rebuild THEN Cursor(job.next, job.final, job.hash) ELSE memory

Automation ==
  /\ At("automation")
  /\ memory' = MemoryAfter
  /\ Return
  /\ UNCHANGED << chainVars, storeVars, casFailures, other, histVars >>

AutomationPersisted ==
  /\ At("automation")
  /\ Fault
  /\ steps' = recordPendingPostCommitAttempt(savePendingPostCommitStep(steps, {}), {})
  /\ memory' = MemoryAfter
  /\ Return
  /\ UNCHANGED << chainVars, events, cursor, sync, deliveries, casFailures, other, rebuilds, forgone, uncleaned >>

-----------------------------------------------------------------------------
(* #rebuildFromDeploymentBlock: asked for by the admin, up to a block of   *)
(* the admin's choice, or by a round that finds no cursor. Nothing is      *)
(* finalized since the deployment: only the cursor is written.             *)
Begun == rebuilds + (IF pc \in {"rb_read", "rb_hash", "rb_commit"} THEN 1 ELSE 0)
                  + (IF other # NoJob THEN 1 ELSE 0)
MayRebuild == cursor = NoCursor \/ Begun < MaxRebuilds
Targets == IF cursor = NoCursor THEN {FinalizedBlock} ELSE 0..FinalizedBlock
BeforeDeployment(final) == Cursor(Deployment, final, HashOf(chain, Deployment - 1))

(* Deliveries, and events pending or in flight, outside the new history:  *)
(* a rebuild invalidates and trims nothing.                                *)
Pending == UNION { Keys(s.events) : s \in steps }
Live == { k \in AllKeys : deliveries[k] = "live" }
Outside(es) == ~(Live \cup Pending \cup Keys(job.events) \subseteq Keys(es))

RebuildEmpty ==
  /\ At("idle") /\ MayRebuild
  /\ \E final \in { t \in Targets : t < Deployment } :
       /\ cursor' = BeforeDeployment(final) /\ memory' = cursor'
       /\ saveSyncState(final)
  /\ rebuilds' = rebuilds + 1
  /\ uncleaned' = (uncleaned \/ Outside({}))
  /\ UNCHANGED << chainVars, events, steps, deliveries, casFailures, pc, job, other, faults, forgone >>

RebuildStart ==
  /\ At("idle") /\ MayRebuild
  /\ \E final \in { t \in Targets : t >= Deployment } :
       /\ saveSyncState(final)
       /\ Goto("rb_read", [ NoJob EXCEPT !.final = final, !.next = final + 1, !.rebuild = TRUE ])
  /\ UNCHANGED << chainVars, events, cursor, steps, deliveries, memory, casFailures, other, histVars >>

RebuildRead ==
  /\ At("rb_read")
  /\ Goto("rb_hash", [ job EXCEPT !.events = Logs(chain, Deployment, job.final) ])
  /\ UNCHANGED << chainVars, storeVars, memory, casFailures, other, histVars >>

(* The hash for the cursor, then #prePersistRebuildNotificationStep.       *)
RebuildStage ==
  /\ At("rb_hash") /\ job.final <= Len(chain)
  /\ LET staged == IF job.events = {} THEN {} ELSE { [ events |-> job.events, attempts |-> 0 ] } IN
       /\ steps' = IF staged = {} THEN steps ELSE savePendingPostCommitStep(steps, job.events)
       /\ Goto("rb_commit", [ job EXCEPT !.hash = HashOf(chain, job.final), !.todo = staged ])
  /\ UNCHANGED << chainVars, events, cursor, sync, deliveries, memory, casFailures, other, histVars >>

RebuildStageFails ==
  /\ At("rb_hash") /\ job.final <= Len(chain) /\ job.events # {}
  /\ Fault
  /\ Goto("rb_commit", [ job EXCEPT !.hash = HashOf(chain, job.final) ])
  /\ UNCHANGED << chainVars, storeVars, memory, casFailures, other, rebuilds, forgone, uncleaned >>

RebuildCommit ==
  /\ At("rb_commit")
  /\ resetFromEvents(job.events, Cursor(job.next, job.final, job.hash))
  /\ rebuilds' = rebuilds + 1
  /\ uncleaned' = (uncleaned \/ Outside(job.events))
  /\ Goto("notify", job)
  /\ UNCHANGED << chainVars, steps, deliveries, memory, casFailures, other, faults, forgone >>

-----------------------------------------------------------------------------
(* The rebuild of another process on the same database (--rebuild): it     *)
(* asks nobody about the cursor and notifies nobody.                       *)
OtherRead ==
  /\ OtherProcess /\ other = NoJob /\ Begun < MaxRebuilds
  /\ FinalizedBlock >= Deployment
  /\ other' = [ NoJob EXCEPT !.events = Logs(chain, Deployment, FinalizedBlock),
                             !.final = FinalizedBlock, !.next = FinalizedBlock + 1,
                             !.hash = HashOf(chain, FinalizedBlock) ]
  /\ saveSyncState(FinalizedBlock)
  /\ UNCHANGED << chainVars, events, cursor, steps, deliveries, memVars, histVars >>

OtherCommit ==
  /\ other # NoJob
  /\ resetFromEvents(other.events, Cursor(other.next, other.final, other.hash))
  /\ rebuilds' = rebuilds + 1
  /\ forgone' = forgone \cup { k \in Keys(other.events) \ Pending : deliveries[k] = "none" }
  /\ uncleaned' = (uncleaned \/ Outside(other.events))
  /\ other' = NoJob
  /\ UNCHANGED << chainVars, steps, deliveries, memVars, faults >>

OtherFails ==
  /\ other # NoJob
  /\ other' = NoJob
  /\ UNCHANGED << chainVars, storeVars, memVars, histVars >>

-----------------------------------------------------------------------------
(* Failures. An error of the store or of the node ends the operation; a    *)
(* rebuild withdraws the step it staged, or found staged.                  *)
Failing == { "check", "ancestor", "rollback", "sweep", "read", "commit", "hash", "save",
             "summary", "rb_read", "rb_hash", "rb_commit" }
Withdrawn == IF At("rb_commit") THEN Keys(UNION { s.events : s \in job.todo }) ELSE {}

Abort ==
  /\ pc \in Failing
  /\ Fault
  /\ steps' = IF Withdrawn # {} THEN deletePendingPostCommitStep(steps, job.events) ELSE steps
  /\ forgone' = forgone \cup { k \in Withdrawn : deliveries[k] = "none" }
  /\ uncleaned' = (uncleaned \/ pc \in {"hash", "save"})
  /\ sync' = IF job.rebuild THEN job.final ELSE sync
  /\ Return
  /\ UNCHANGED << chainVars, events, cursor, deliveries, memory, casFailures, other, rebuilds >>

(* The process dies, possibly half way through the notifications.          *)
Crash ==
  /\ Fault
  /\ memory' = NoCursor /\ casFailures' = 0
  /\ IF At("notify") THEN \E es \in SUBSET job.events : deliveries' = processSignalSubmittedEvents(es)
     ELSE UNCHANGED deliveries
  /\ forgone' = IF At("notify") /\ job.rebuild /\ job.todo = {}
                  THEN forgone \cup Keys(job.events) ELSE forgone
  /\ uncleaned' = (uncleaned \/ pc \in {"invalidate", "trim", "notify", "hash", "save", "rb_commit"})
  /\ Return
  /\ UNCHANGED << chainVars, events, cursor, sync, steps, other, rebuilds >>

-----------------------------------------------------------------------------
(* The steps an operation takes by itself once it has begun.               *)
Proceed ==
  \/ CheckHash \/ CheckHashFails \/ FindAncestor \/ NoEventStored \/ RoundFails
  \/ ApplyRollback \/ RollbackDeferred \/ InvalidateNotifications \/ TrimPendingSteps
  \/ SweepList \/ SweepDone \/ \E s \in job.todo : SweepWaits(s) \/ SweepDelivers(s)
  \/ RefreshIdle \/ ReadEvents \/ CommitEvents \/ NotifyDelivered \/ ReadHash
  \/ SaveCursor \/ SaveDeferred \/ Summarize \/ Automation
  \/ RebuildRead \/ RebuildStage \/ RebuildCommit

Faulty ==
  \/ CleanupGivenUp \/ \E s \in job.todo : SweepFails(s)
  \/ NotifyPersisted \/ NotifyLost \/ AutomationPersisted
  \/ RebuildStageFails \/ Abort \/ Crash

Next ==
  \/ Mine \/ \E k \in Heights : Reorg(k)
  \/ RefreshStart \/ SweepStart \/ RebuildEmpty \/ RebuildStart
  \/ Proceed \/ Faulty
  \/ OtherRead \/ OtherCommit \/ OtherFails

Spec == Init /\ [][Next]_vars

(* The poll: a refresh, or the first rebuild.                              *)
Poll == RefreshStart \/ (cursor = NoCursor /\ (RebuildEmpty \/ RebuildStart))

(* The chain grows; an operation that began goes on; the poll gets its     *)
(* turn in the queue of the guard, which is first come first served.       *)
FairSpec ==
  /\ Spec
  /\ WF_vars(Mine)
  /\ WF_vars(Proceed)
  /\ SF_vars(Poll)

-----------------------------------------------------------------------------
Events == [ h : 1..MaxHeight, tx : Txs, fork : 0..MaxForks ]
Cursors == [ next : 0..MaxHeight + 1, final : Heights, hash : Heights \X (0..MaxForks) ]

(* The variables have their types; the stored bound on finality is a       *)
(* height of the chain.                                                    *)
TypeOK ==
  /\ chain \in Seq(Blocks) /\ Len(chain) <= MaxHeight /\ forks \in 0..MaxForks
  /\ events \subseteq Events
  /\ cursor \in Cursors /\ memory \in Cursors
  /\ sync \in Heights
  /\ \A s \in steps : s.events \subseteq Events /\ s.attempts \in 0..MaxFaults
  /\ deliveries \in [ AllKeys -> {"none", "live", "invalidated"} ]
  /\ casFailures \in Nat
  /\ job.events \subseteq Events /\ other.events \subseteq Events
  /\ faults \in 0..MaxFaults /\ rebuilds \in 0..MaxRebuilds + 1
  /\ forgone \subseteq AllKeys /\ uncleaned \in BOOLEAN

BehindCursor == { e \in events : e.h < cursor.next }
CursorOnChain == cursor # NoCursor /\ OnChain(cursor.hash)

(* While the hash of the cursor is on chain, the events stored behind the  *)
(* cursor are exactly the logs of the canonical chain (#refreshFromCursor, *)
(* #applyReorgRollback, #rebuildFromDeploymentBlock), whatever crashed,    *)
(* failed or was reorganised between two operations.                       *)
IndexMatchesChain ==
  CursorOnChain => BehindCursor = Logs(chain, Deployment, cursor.next - 1)

(* The log is well formed and is the chain's.                              *)
IndexSound == TypeOK /\ IndexMatchesChain

Notifying == IF job.rebuild /\ At("notify") THEN Keys(job.events) ELSE {}

(* The cursor never passes an event nobody will be told of: each one       *)
(* behind it has a delivery, is in the pending queue or in hand, or was    *)
(* given up where the code says so aloud (#processSignalNotifications runs *)
(* before the cursor is saved).                                            *)
NotificationsOwed ==
  \A e \in BehindCursor :
    \/ deliveries[Key(e)] # "none"
    \/ Key(e) \in Pending \cup forgone \cup Notifying

Canonical == Keys(Logs(chain, Deployment, Len(chain)))

(* After a rollback that was not cut short, no live delivery and no queued *)
(* event is about a block that left the chain                              *)
(* (#invalidateNotificationsAfterReorg,                                    *)
(* #trimPendingPostCommitStepsAfterReorg).                                 *)
NoGhosts ==
  At("idle") /\ CursorOnChain /\ ~uncleaned => Live \cup Pending \subseteq Canonical

(* Everyone is told of what is on chain, and nobody keeps being told of    *)
(* what is not.                                                            *)
NotificationsTrue == NotificationsOwed /\ NoGhosts

View == INSTANCE ChainView WITH view <- BehindCursor, next <- cursor.next, rebuilt <- rebuilds
(* Seen through the cursor the event log grows at its end, is cut back, or *)
(* is replaced by a rebuild: appends and the cursor are separate writes,   *)
(* and nothing shows of it.                                                *)
ImplementsChainView == View!Spec

(* The indexer asks for an operator: no event it stored below the cursor   *)
(* it goes by is on chain, or other writers keep moving the cursor.     *)
FailedClosed ==
  \/ events # {} /\ \A e \in events : e.h < Current.next => ~OnChain(<< e.h, e.fork >>)
  \/ casFailures >= CasLimit

(* The cursor reaches the finalized block of a chain that goes quiet,      *)
(* after any faults, reorganisations and foreign rebuilds, unless the      *)
(* indexer failed closed (#refreshFromCursor, #rollbackOnReorg).           *)
CatchesUp == <>[](cursor.next = FinalizedBlock + 1 \/ FailedClosed)

(* The queue of post-commit steps is emptied again and again               *)
(* (#sweepPendingPostCommitStepsUnderGuard), unless the indexer failed     *)
(* closed.                                                                 *)
QueueDrains == []<>(steps = {} \/ FailedClosed)

-----------------------------------------------------------------------------
(* What holds between any two steps while one process writes the database, *)
(* the chain is reorganised between operations only, and the deployment    *)
(* block holds an event; it implies the safety properties.                 *)
OneProcess == ~OtherProcess /\ ~ReorgInRound /\ FirstBlockHasEvent

Step == [ events : SUBSET Events, attempts : 0..MaxFaults ]
Hashes == Heights \X (0..MaxForks)
Job == [ from : 0..MaxHeight + 1, final : Heights, reported : Heights, events : SUBSET Events,
         hash : Hashes, todo : SUBSET Step, next : 0..MaxHeight + 1, rebuild : BOOLEAN ]

InRefresh == { "check", "ancestor", "rollback" }
InClean == { "invalidate", "trim" }
InSweep == { "sweep", "sweeping" }
InUpdate == { "read", "commit", "notify", "hash", "save", "summary", "automation" }
InRebuild == { "rb_read", "rb_hash", "rb_commit" }
Labels == { "idle" } \cup InRefresh \cup InClean \cup InSweep \cup InUpdate \cup InRebuild

Types ==
  /\ chain \in Seq(Blocks) /\ Len(chain) <= MaxHeight /\ forks \in 0..MaxForks
  /\ events \subseteq Events
  /\ cursor \in Cursors /\ memory \in Cursors
  /\ sync \in Heights
  /\ steps \subseteq Step /\ \A s \in steps : s.attempts <= faults
  /\ deliveries \in [ AllKeys -> {"none", "live", "invalidated"} ]
  /\ casFailures \in Nat
  /\ pc \in Labels /\ job \in Job /\ other = NoJob
  /\ faults \in 0..MaxFaults /\ rebuilds \in 0..MaxRebuilds + 1
  /\ cursor = NoCursor => rebuilds = 0
  /\ pc \in InRebuild => rebuilds <= MaxRebuilds
  /\ forgone \subseteq AllKeys /\ uncleaned \in BOOLEAN

(* A hash that is on chain stands for all blocks up to it.                 *)
Seen(hash) ==
  /\ hash[1] = 0 => hash[2] = 0
  /\ hash[2] <= forks /\ (hash[2] = forks => hash[1] <= Len(chain))
UpTo(h) == { e \in events : e.h <= h }
Agrees(hash) == OnChain(hash) => UpTo(hash[1]) = Logs(chain, Deployment, hash[1])

ChainInv ==
  /\ \A k \in 1..Len(chain) : chain[k].fork <= forks
  /\ Len(chain) >= 1 => chain[1].tx # NoTx

CursorInv ==
  /\ cursor # NoCursor => cursor.next = cursor.hash[1] + 1
  /\ Seen(cursor.hash) /\ Agrees(cursor.hash)
  /\ \A e \in BehindCursor : Seen(<< e.h, e.fork >>) /\ Agrees(<< e.h, e.fork >>)
  /\ cursor.next >= 2 => Len(chain) >= 1 /\ BehindCursor # {}

(* The operation in progress works on the one cursor there is, and what it *)
(* read is still what the chain says.                                      *)
OnCursor == cursor # NoCursor /\ job.from = cursor.next
OnCanonicalCursor == OnCursor /\ OnChain(cursor.hash)

MemoryInv ==
  memory \in { NoCursor, cursor } \/ (job.rebuild /\ pc \in { "notify", "automation" })

(* The reorganisation check and the rollback, up to the sweep.             *)
RefreshInv ==
  /\ pc \in InRefresh \cup InClean \cup InSweep \cup { "read" } =>
       ~job.rebuild /\ job.final <= Len(chain) /\ job.events = {}
  /\ pc \in InRefresh => OnCursor
  /\ pc = "ancestor" => job.from >= 2
  /\ pc = "rollback" =>
       OnChain(job.hash) /\ job.hash[1] >= Deployment /\ \E e \in BehindCursor : job.hash = << e.h, e.fork >>
  /\ pc \in InClean => OnCanonicalCursor /\ job.hash = cursor.hash
  /\ pc \in InSweep => OnCanonicalCursor \/ job.from = 0

(* From the read of the new blocks to the save of the cursor.              *)
UpdateInv ==
  /\ pc \in { "commit", "hash", "save", "summary" } => ~job.rebuild
  /\ pc \in { "read", "commit", "notify", "hash", "save" } /\ ~job.rebuild => OnCanonicalCursor
  /\ pc \in { "commit", "notify", "hash" } /\ ~job.rebuild =>
       job.from <= job.final /\ job.final <= Len(chain) /\ job.events = Logs(chain, job.from, job.final)
  /\ pc \in { "notify", "hash" } /\ ~job.rebuild => UpTo(job.final) = Logs(chain, Deployment, job.final)
  /\ pc = "save" =>
       /\ job.from <= job.next /\ job.next - 1 <= Len(chain) /\ job.hash = HashOf(chain, job.next - 1)
       /\ UpTo(job.next - 1) = Logs(chain, Deployment, job.next - 1)
       /\ job.events = { e \in events : e.h \in job.from..job.next - 1 }

RebuildInv ==
  /\ pc \in InRebuild =>
       job.rebuild /\ Deployment <= job.final /\ job.final <= Len(chain) /\ job.next = job.final + 1
  /\ pc \in { "rb_read", "rb_hash" } => job.todo = {}
  /\ pc \in { "rb_hash", "rb_commit" } => job.events = Logs(chain, Deployment, job.final)
  /\ pc = "rb_commit" => job.hash = HashOf(chain, job.final) /\ \A s \in job.todo : s.events = job.events
  /\ pc \in { "rb_commit", "notify" } /\ job.rebuild /\ job.todo # {} => Keys(job.events) \subseteq Pending
  /\ pc \in { "notify", "automation" } /\ job.rebuild =>
       cursor = Cursor(job.next, job.final, job.hash) /\ job.events \subseteq BehindCursor

RoundInv == MemoryInv /\ RefreshInv /\ UpdateInv /\ RebuildInv

Owed(k) == deliveries[k] # "none" \/ k \in Pending \cup forgone
OwedInv == NotificationsOwed /\ (pc \in { "hash", "save" } => \A e \in job.events : Owed(Key(e)))

(* The keys a live delivery, or a queued step, may have.                   *)
InHand == IF pc \in { "hash", "save" } THEN Keys(job.events) ELSE {}
ToClear(labels) == IF pc \in labels THEN { k \in AllKeys : k[1] > job.hash[1] } ELSE {}
GhostInv ==
  ~uncleaned =>
    /\ Live \subseteq Keys(BehindCursor) \cup InHand \cup ToClear({ "invalidate" })
    /\ \A s \in steps :
         \/ Keys(s.events) \subseteq Keys(BehindCursor) \cup InHand \cup ToClear(InClean)
         \/ pc = "rb_commit" /\ job.todo # {} /\ SameStep(s, job.events)
    /\ pc = "sweeping" => \A s \in job.todo : Keys(s.events) \subseteq Keys(BehindCursor)

IndInv == Types /\ ChainInv /\ CursorInv /\ RoundInv /\ OwedInv /\ GhostInv
=============================================================================
