# Verification of the UVP chain services

TLA+ models of the service under `src/service/src`: a TypeScript backend that broadcasts the
signed intents of participants to the UVP state-machine contracts (it pays the gas, it never
signs for them), follows the chain with an indexer, and keeps the product's own records (order
drafts, triggers, submissions, governance reviews, evidence, the Store's shelf) consistent with what
the chain says. TLC checks the models on small instances; TLAPS proves the central results for every value of
the constants.

Paths below are relative to `src/service/src` unless they start with `src/`.

## Inventory: the parts of the system

| part | state it keeps | operations that change state | talks to |
|---|---|---|---|
| `submissions` | prepared submissions, reserved nonces, the submission ledger, the dedupe state and the owner of each transaction hash (stored), in-flight counters (memory) | `prepareSubmit`, `submit` | chain node, evidence service, audit log |
| `reconcile` | a non-reentrancy flag, diagnostics | `runOnce`: evidence sweep, then the registration, submission and governance lanes | every ledger, the projection store, the node's receipts |
| `product/query/bff` | order drafts, participants, invites, one trigger registration per draft; an in-process lock per draft | `createDraft`, `updateDraft`, `prepareOrderTrigger`, `triggerOrder`, `createInvite`, `acceptInvite`, `rejectInvite` | chain node, store versions |
| `governance` | identity reviews, the ledger of identity transactions | `saveReview`, `registerIdentity`, `revokeIdentity` | chain node, notification profiles |
| `indexer` | raw logs, checkpoint, projections, pending post-commit steps | incremental refresh, reorg rollback, rebuild, replay | chain node, notifications |
| `stage-patches` | prepared patches, nonces, patch submissions | prepare/submit of executor and resource patches | chain node |
| `evidence` | evidence metadata and bindings, blobs, backups | `uploadEvidence`, `bindEvidence`, `restoreEvidenceBackup` | object storage, submissions |
| `notifications` | profiles, deliveries, read states | `processSignalSubmittedEvents`, `retryDelivery`, `reopenDelivery`, `invalidateDeliveriesAboveBlock`, `deadLetterDelivery` | indexer, webhooks |
| `store/sessions` | login challenges, wallet sessions, account addresses | `createChallenge`, `verify`, `logout`, `revokeAccountAddress` | console, product |
| `store/join` | join applications and their events | submit, review, approve, reject, revoke | governance, suppliers |
| `store/suppliers` | supplier metadata, audits | create, review, request identity registration and revocation | governance |
| `store/listings`, `store/decoration` | listings; page versions and delegations | import, review, delist, relist; save, restore, grant, revoke | projections |
| `store/console` | zhixu drafts, versions, docking sessions, audit trail | compile, submit for review, activate, deprecate | compiler, projections |
| `dock-automation` | pending dock submissions of a run | `runOnce` | dock routes, submitter |
| `product/application` | none of its own (orders and tasks are read models) | orchestrates evidence, submissions and patches | most of the above |
| `storage` | database handles, migrations, the SQLite transaction in progress | `withSqliteTransaction`, migrations | every store |
| `api`, `config`, `security`, `shared`, `chain-adapters`, `proof-verifier` | none | HTTP boundary, configuration, redaction, pure verification | - |

### What is hard in this code, and what makes each part correct

* **submissions.** Every step of `submit` is an `await`; two requests for one prepare, a slow
  request whose nonce row goes stale, a node that accepts a transaction and loses the answer, a
  store that fails after the broadcast, a process that dies between any two steps. Correct means:
  at most one request works on a prepare; a hash has one owner; a record that says a transaction
  landed is right; nothing is sent again once an outcome is settled; the counters return to zero.
* **reconcile.** The worker reads a record, then asks the projection, the node and the projection
  again, and writes the record back whole, without comparing it with what is stored by then.
  Correct means: *confirmed* only for what the chain shows; a late success heals a record that
  timed out; every open record is visited by every pass although the pass changes the very
  statuses it pages by; a repair of evidence is attempted before a record leaves the sweep.
* **order triggers.** `triggerOrder` is serialised per draft by an in-process lock, but
  `prepareOrderTrigger`, `updateDraft` and the worker are not under it. Correct means: one prepare
  is not broadcast twice by accident, a confirmed trigger and a triggered draft name an order that
  exists, a draft produces one order, a draft never gets stuck.
* **governance.** Reviews are read, checked and written back without a comparison; `revokeIdentity`
  marks the review before it broadcasts and restores it after a failure. Correct means: a revoked
  review stays revoked, the duplicate check prevents a second broadcast of a request that is in
  flight or done, the ledger and the review agree with the chain in the end.
* **indexer.** Refresh, reorganisation and rebuild interleave with crashes between the commit of a
  page and the steps after it. Correct means: projections are those of the canonical chain, no log
  is skipped or applied twice, post-commit steps are not lost.
* **projections.** Pure folds over the log, but of events that arrive in any order the contracts can
  emit, through module addresses that several state machines may share. Correct means: the board,
  the buckets and the deployments end up where the last event says, and nothing is filed twice.
* **notifications, stage patches, sessions, invites, join, versions.** Check-then-act over stores
  with and without conditional writes: quotas, single-use challenges, single active invites, one
  transaction per stage nonce, deliveries that are sent only while their event is on chain.
* **Store access.** Identity is resolved again at every check of a request and audited in a store
  that may fail. Correct means: nobody asserts his own rights, the roles that review and the roles
  that broadcast stay apart, the trail agrees with what was answered.
* **configuration.** Two layers refuse settings (load and preflight), three entry points run one of
  them or both. Correct means: what a tier must refuse is refused on every way to start.
* **dock automation.** A worker rebroadcasts what it cannot see as done. Correct means: it delivers
  everything the chain supports, nothing else, and not faster than its window allows.

## Modules

Every module follows the same conventions. A request (or a pass of the worker) is a program
counter and a record of local variables (`pc`/`job`, `pass`, `work`, `draftCalls`, ...); each `await`
of the code at which another request can change what matters is a boundary between two actions, so
the actions are the pieces of code that run without interruption. What the code keeps in memory is
lost in `Crash`, what it stores survives. A store call or a remote call that may throw has a failing
alternative, bounded by a constant (`MaxFaults`, `MaxTrouble`, ...). Definitions whose comment begins
with "Fault:" are not part of any specification: each is a plausible wrong version of the
definition below it, kept to make sure that the property it breaks can be broken.

A property that a run checks is a conjunction of named parts; the parts are defined, and commented,
in the module of the component.

| module | models | composed in |
|---|---|---|
| `Submissions`, `SubmissionsProofs` | `submissions/` | `MCSubmissions` |
| `ReconcileOutcome` | `#resolveOutcome` of `reconcile/worker.ts` | the next three |
| `OrderTrigger`, `OrderTriggerProofs` | triggers of `product/query/bff`, registration lane | `MCOrderTrigger`, `MCLanes` |
| `Governance`, `GovernanceProofs` | `governance/`, governance lane | `MCGovernance` |
| `ReconcileWorker`, `ReconcileWorkerProofs` | passes, submission lane, evidence sweep | `MCReconcileWorker`, `MCLanes` |
| `Indexer` | `indexer/service.ts` over `storage/sqlite-projection-store.ts` | `MCIndexer`, `MCFollowers` |
| `ChainView` | abstract: what the indexer promises | refined by `Indexer` in `MCIndexer` |
| `TaskProjection` | `indexer/projections/task.ts`, `signal.ts`, `stage.ts` | `MCIndexer` |
| `OrderBuckets` | `indexer/replay.ts`, `projections/order.ts`, `plan.ts`, `docking.ts` | `MCIndexer` |
| `Registries` | deployments and identity bindings of a replay | `MCIndexer` |
| `Notifications`, `WebhookGuard` | `notifications/` | `MCParticipants` |
| `StagePatches` | `stage-patches/` | `MCParticipants` |
| `Invites` | invites and authorizations of `product/query/bff` | `MCParticipants` |
| `Evidence` | `evidence/` | `MCParticipants` |
| `Config` | `config/env.ts`, `config/preflight.ts`, the start in `api/server.ts` | `MCStore` |
| `StoreSessions` | `store/sessions/` | `MCStore` |
| `StoreAccess` | `store/console/access.ts`, `audit.ts`, authorization of `api/routes` | `MCStore` |
| `StoreListings`, `StoreDecoration` | `store/listings/`, `store/decoration/` | `MCStore` |
| `StoreJoin` | `store/join/`, `store/suppliers/` | `MCStore` |
| `ZhixuDrafts`, `SchemaValidation` | `store/console/zhixu-drafts.ts` | `MCStore` |
| `StoreVersions` | `store/console/version.ts` and its routes | `MCStore` |
| `DockKeeper` | `dock-automation/` | `MCStore`, `MCFollowers` |
| `LanesProofs`, `IndexerProofs`, `ParticipantsProofs`, `StoreProofs` | the theorems of the runs over several components | extend `MCLanes`, `MCIndexer`, `MCParticipants`, `MCStore` |

`MCLanes`, `MCIndexer`, `MCFollowers`, `MCParticipants` and `MCStore` check several components in one
run. The components of such a module share no state; the variable `focus` is chosen in the initial
state and says which of them the behaviour is about, the others stand still. A run over them is the
sum of the runs of each, not a product.

### `Submissions`

`submissions/service.ts`, `safe-broadcast-adapter.ts`, `broadcast-adapter.ts` and their stores.

| state | code |
|---|---|
| `prepared`, `nonce`, `ledger` | tables `submission_prepare`, `submission_nonce`, `submission` |
| `states`, `txOwners`, `orderInFlight`, `submitterInFlight` | the maps of the safe-broadcast adapter, in memory |
| `dedupe`, `txOwnersDb` | tables `broadcast_dedupe_state`, `broadcast_dedupe_tx_owner` |
| `bound` | ledger entries whose evidence was bound |
| `chain` | transactions in the pool or mined, external |

`SubmitRead`, `SubmitExpired`, `SubmitNotAttempted`, `SubmitChecked`, `ReserveNonce` are `submit`
up to the reservation; `LoadState` to `SaveState` are `broadcast` of the safe adapter around the
chain adapter (`SendRefused`, `SendAccepted`, `SendAcceptedUnseen`, `SendDuplicate`,
`WaitForReceipt`); `PersistSubmission`, `PersistFailed`, `RecoverThrown`, `BindEvidence` are the
rest of `submit`. The clock counts ticks below a second: deadlines are compared in whole seconds
and the staleness of a nonce row in milliseconds, as in the code. `SubmitTimeAssumption` says a
submit ends within half the lifetime of a prepare: the receipt timeout and the RPC timeouts bound
it, and the default lifetime is far longer. Typed data, signature recovery and authorization are
inputs: a request that fails them changes no state.

### `ReconcileOutcome`, `OrderTrigger`, `Governance`, `ReconcileWorker`

`ReconcileOutcome` has the conclusions of `#resolveOutcome` as functions of what was observed, and
the status each lane stores for a conclusion. The order of the observations is in the lanes.

`OrderTrigger` is one draft: `prepareOrderTrigger`, `triggerOrder` and `updateDraft` of the product
BFF, the two broadcast adapters, and the registration lane of the worker (`WorkerList` to
`WorkerUpdateDraft`). `reg` is the one trigger row of the draft, `lock` the in-process lock, `deadline`
the authorizations that were issued. The worker works on the copy it listed and writes it back
whole; so do the requests. `Mine` reverts an authorization past its deadline and a second creation
of an order. The listing of several registrations is modelled as one copy, taken at any time and
used at any later time. `reopened` and `again` are history.

`Governance` is one subject with one review: `reviewZhixu`/`reviewSupplier` (`CreateReview`,
`SaveRead`, `SaveStore`), `registerIdentity`, `revokeIdentity`, the simulated and the chain adapter,
and the governance lane of the worker. `logs` is `governance_tx_log`; a chain request is told apart
by its action and the review it hashes, which is what the request hash covers once account, binding
and reason are given. The descriptor snapshot store is taken to be configured.

`ReconcileWorker` is `runOnce` with its re-entry guard, the two scans of a pass over the submissions
(evidence sweep, then reconcile), paging by key, and the check of one submission. A key stands for
the position in the order of `(created_at, submission_id)`; submits insert keys in any order. A page
is a set of keys with the copies of their records: `Limited` says of a set that it is the first
`PageSize` rows of another, which is what `ORDER BY ... LIMIT` returns. `due` and `visited` are
history. The submit lane appears as `Submit` and `SubmitBinds`: the records it can leave, as
`Submissions` describes them. The registration lane, which a pass runs first, is in `OrderTrigger`;
the governance lane, which it runs last, in `Governance`.

### `Indexer` and `ChainView`

The chain (`Mine`, `Reorg`) grows and replaces blocks that are not final. The indexer polls:
it compares the hash of its cursor with the chain's, rolls back to the last block both have, or reads
the next events, appends them together with the pending post-commit step, moves the cursor by
compare-and-swap and runs the steps (derive notifications, wait for finality, give up after
`MaxSweepAttempts`). A rebuild reads the whole chain and replaces log, cursor and queue in one
transaction; with `OtherProcess` a second process rebuilds the same database. Crashes and failing
calls come between any two steps. The durable state is `events` (`chain_event_log`), `cursor`,
`sync`, `steps` (the pending post-commit steps) and `deliveries`; the cursor in `memory`,
`casFailures` and the round in progress (`pc`, `job`) are lost in a crash. `forgone` and `uncleaned`
are history.

`ChainView` promises of that durable state, seen through the cursor, that the log is only extended
at its end, cut back to a block it already held, or replaced as a whole. `ImplementsChainView` is the
refinement, checked as a property of `Indexer` with a mapping that hides what lies behind the cursor:
a page committed before a crash that kept the cursor from moving is invisible.

### The projections

`TaskProjection`, `OrderBuckets` and `Registries` apply one chain event per action, in every order the
contracts can emit them (their guards are the contracts' and are marked external). `TaskProjection`
keeps the tasks of one order, the delegations, overlays and proofs; its reference is the history of
events itself (the earliest accepted proof, the last executor written, the cancelled stage).
`OrderBuckets` files events that come through a module's address with the state machine, plan and
order they belong to; a `ProjectionError` is a final state. `Registries` switches deployments and
identity bindings on and off.

### What participants meet

`Notifications`: intake from finalized events, dispatch, retry, reopening, dead letters, invalidation
after a reorganisation, by the indexer and operators at the same time, each on the copy it read; the
transports of a profile by priority; the read states of notices. `WebhookGuard`: the receiver's
replay guard with clocks that differ and a bounded memory. `StagePatches`: prepare, submit, the
reservation of a stage nonce and its takeover after `Ttl`, broadcast, persistence and its fallback;
`previousExecutor` is resolved from the overlays and logs of two flows that cannot always be ordered.
`Invites`: invitations to role slots, conditional acceptance, the participants and the authorizations
an order is prepared with. `Evidence`: an object, its backup and its record are three writes; media
lose or damage objects; an administrator restores.

### The Store and the start of a process

`Config` abstracts a setup to the set of settings that are faulty, and each check of load, static
preflight and chain preflight to the faults it refuses, by tier and entry point. `StoreSessions`
has challenges with their quotas, logins, anchoring, logout and revocation. `StoreAccess` resolves a
caller (JWT roles, wallet session, development mode) at each check of a route; a route is the list
of its checks, its action and its audit. `StoreListings` keeps the listing of a plan and the
verification of what it claims against the index and the contract. `StoreDecoration` keeps page
versions and delegations. `StoreJoin` is an application from submission to activation with the
supplier directory and the governance calls behind it. `ZhixuDrafts` is the draft workflow;
`SchemaValidation` is `validateProductSchemaBundle` next to a definition of what the product needs,
over all small schemas. `StoreVersions` switches the versions of a series. `DockKeeper` is the dock
worker: route source, the three steps of a route, its redelivery window in memory, refusals, lost
transactions and restarts.

## Runs

| run | instance | what it shows |
|---|---|---|
| `submit_retry` | 1 prepare, 2 requests, 2 transactions, 2 ticks per second | `SubmitExclusion`: between reservation and persistence a prepare has one request. `RecordsTruthful`: a record that says *landed* is right, a used prepare is consumed. `NoResend`: nothing is sent after the outcome is settled or the prepare used, across crashes and stale takeovers |
| `submit_concurrent` | 2 prepares of one order, 2 requests, 1 transaction | `TxHashOwnedByOnePrepare`, `InFlightLimits`: a hash has one owner, and no path out of the guard leaks a unit |
| `trigger_selfheal` | 1 request that also edits, 2 transactions, receipts awaited, one fault, fairness | `SelfHeals`: a late success is confirmed even after a timeout marked the record failed |
| `govern_safety` | 2 requests of all operations, 2 transactions, one fault | `GovernanceTruth`: the ledger confirms only what the chain did, an alert means a revert. `RequestsHonoured`: a registration on chain has its descriptor, a failed entry answers no reissued request |
| `govern_heal` | 1 request, 2 ledger entries, receipts awaited, one fault, fairness | `LogHeals` |
| `pass_heal` | 1 caller, 2 submissions with evidence, pages of 1, one fault, fairness | `SubmissionHeals` |
| `lanes_safety` | passes: 2 callers, 2 submissions, pages of 1, one fault; triggers: 2 requests, 2 prepares, 2 transactions | `PassCoversBacklog`, `ConfirmedIsFinal`, `VerdictIsChainFact` of the passes; `RegistrationTruthful`, `TriggersOnce` of the triggers |
| `index_safety` | 3 blocks, 1 reorganisation, 2 rebuilds, 2 faults; replays of 4 events (registries: 6) | `IndexSound`, `NotificationsTrue`, `ImplementsChainView` of the log; `BoardTruthful`, `BucketsSound`, `OneActiveDeployment` of the projections |
| `followers_heal` | the same chain with 1 fault and a second process; 2 dock routes; fairness | `Recovers`: the indexer catches up and its queue drains, or it has failed closed. `DockDelivers`: every step the chain supports is delivered |
| `participants_safety` | two of everything that can race (see the cfg) | `DeliveriesSound`, `AcceptedOnce`, `NonceDiscipline`, `PreviousExecutorUnique`, `InvitesSound`, `AuthoritySound`, `EvidenceKept` |
| `store_safety` | two requests per component, 15 kinds of routes, 4 calls of the join loop, setups with one fault, two faults or two deployments | `StartsSafely`, `SessionsSound`, `AccessSound`, `PublicIsVerified`, `DecorationSound`, `JoinSound`, `ConsoleSound`, `AcceptsServiceable`, `DockSound` |
| `trigger_two_orders` | violation | a draft can create two orders |

**Bounds.** Two requests are enough for the races: every lock, reservation and conditional write is
between two parties, and each party can be at any step. Two transactions allow one resend; two
prepares, invites, listings or versions allow one replacement. Time passes beyond each timeout and
deadline of the instance, and not further. One fault (a crash or a failing call) is placed anywhere,
two in the indexer, whose recovery can itself be cut short; the submission runs do not bound faults,
and the triggers of `lanes_safety` have none: the faults of the trigger are left to
`trigger_selfheal`. Two records with pages of one make a pass read three pages, in either order of
insertion, and confirm the first while the second is ahead of the cursor; the proofs lift this to
any number of records and any page size. Three blocks with one confirmation let a reorganisation
replace a block that was indexed and one that was not. Four events are an event, what it depends on,
its repetition and its undoing; deployments need six. Three requests to a series of versions are two
that race and one before them. Requests, prepares, transactions, wallets and callers are
interchangeable, hence the symmetry in the safety runs; the runs with fairness use none.

Two switches of `Indexer` name assumptions rather than sizes. `ReorgInRound = FALSE`: the chain is
reorganised between the operations of the indexer, not between two reads of one round.
`OtherProcess = FALSE` in `index_safety`: one process writes the database. What happens without them
is under *Observations*.

**Fairness.** `FairSpec` of `OrderTrigger`, `Governance` and `ReconcileWorker` adds weak fairness of
the worker's steps only: the worker polls on a timer (`start` in `reconcile/worker.ts`) and each call
it makes returns or throws, being bounded by RPC and database timeouts. Nothing is assumed of users,
of miners or of the indexer, and the healing properties start from a transaction that is already
projected. `Indexer` is fair to `Mine` (the chain goes on, up to its bound), to the steps of a round in
progress (`Proceed`, weakly: each call returns or throws) and to `Poll` (strongly: rounds and rebuilds
exclude each other in the process, and the timer fires again whenever the last one is over).
`DockKeeper` is fair to its interval, to the end of a run, to a submission that is not refused for
ever, to mining, to the index, and to the repair of the route source. Faults are finitely many: with
a call that fails in every pass a record would never heal.

**Deadlock** is checked in the runs of the submissions, triggers, governance and passes. It is off
where a behaviour may end: a chain that reached its bound, a replay whose events are used up, a
process that refused to start, requests that are used up; and in `trigger_two_orders`, whose instance
runs out of prepares.

## Proofs

TLC checks the instances of the table above; the theorems below hold for every value of the
constants. Each property was checked by TLC before it was proved, and so was the invariant behind it
(`IndInv` of each module), by a run that had it as its invariant on a small instance. `IndInv` is
defined at the end of the module it is about, part by part; the proofs are in the module
`<name>Proofs`, or, for the small modules that share a run, in `StoreProofs`, `ParticipantsProofs`
and `IndexerProofs`, which prove the very formula the run of that name checks
(`focus = "..." => ...`).

A proof that a step keeps `IndInv` has one lemma or step per action and, under it, one per part the
action can disturb; parts that an action leaves alone go by a lemma that says what they depend on.

**Submissions** (`SubmissionsProofs`), from `ConstantsAssumption` (the types of the constants; the
set of requests is finite, since the limits count them) and `SubmitTimeAssumption` (a reservation is
taken over no sooner than a submit can last): `TypeCorrect`, `Exclusive`, `Truthful`, `OneOwner`,
`NothingResent`, `Limited`. None but the first is inductive:

* `SubmitExclusion` needs `ReservationInv`: the nonce row carries the reservation time of the request
  between reservation and persistence, and that time is at most `MaxSubmitTicks` ago. A stale takeover
  needs an older row, so it never meets a request that is still at work.
* `RecordsTruthful` and `TxHashOwnedByOnePrepare` need `ResultInv`: every result that can still reach
  the ledger, also one kept in memory or in the deduplication table, owns its hash in the durable
  table and tells the truth; `LedgerInv` says the same of what is stored.
* `NoResend` needs `SettledInv` (a settled durable state is never hidden by an older one in memory)
  and `UsedInv` (a used prepare is past its deadline or its nonce row is kept and too young for
  every request that read the prepare before it was used).

**Order triggers** (`OrderTriggerProofs`, and `LanesProofs` for the composition the run
`lanes_safety` checks), from `TriggerConstants` and a finite set of prepares: `Truthful`, `Once`.
The worker copies the registration before it asks the chain and writes the copy back without the
draft lock. The proof shows why this is harmless for these two properties: the copy is never of a
record that is only prepared, what the worker concluded stays a fact (`WorkerInv`), the lock belongs
to the request inside `triggerOrder` (`LockInv`), and a record that is prepared was never sent
(`StoreInv`). `ConcurrentPreparesSettle` needs `PrepareInv`: a prepare that saw an old registration
writes over it only if that one is no longer good or a newer one has been issued. `LanesProofs`
adds that a step of the passes is a stutter of the triggers and conversely.

**Governance** (`GovernanceProofs`), from `GovernanceConstants`: `Truthful`, `Honoured`. Every request and every entry carries
its own transaction or none (`RequestSent`, `LogSound`), a registration reaches its broadcast with
its descriptor persisted (`RequestPrepared`), and the worker's conclusion is a fact when it is stored
(`ConclusionTrue`).

**Passes** (`ReconcileWorkerProofs`), from `WorkerConstants` (a page holds at least one record, and
the constants are of their types): `TypeCorrect`, `VerdictsAreChainFacts`, `PassesCoverBacklog`,
`ConfirmedStaysConfirmed`. A pass writes back copies, so *confirmed stays confirmed* needs that the
copies of the page are current (`CopiesCurrent`): only the running pass rewrites a stored record, a
submit stores only new ones, and at most one pass runs (`OnePass`, which is the re-entry guard).
*Verdicts are chain facts* needs that the conclusion about to be stored still holds
(`ConclusionIsChainFact`): a receipt or a projection, once seen, does not go away. *A pass covers the
backlog* needs `BacklogAhead`: a record still to be checked is in the page, or it is open, ahead of
the cursor, and the page is not the last one. The step that reads a page is the heart of it
(`PageSplitsRows`): the page is closed downwards among the open rows, so a row outside it lies ahead
of its greatest key, and a page that leaves a row out is full, so the pass goes on. `RunningPassStep`
reduces each step to the part of the caller that takes it, since the others are idle and hold
nothing.

**The indexer** (`IndexerProofs`): `LogIsTheChains` (`IndexSound`), `EveryoneIsTold`
(`NotificationsTrue`) and `LogIsAView` (`ImplementsChainView`), for any number of blocks,
reorganisations, faults and rebuilds, from `IndexerConstants` and under the hypothesis `OneProcess`:
one process writes the database, the chain is reorganised between two operations and not inside one,
and the deployment block holds an event. These are the settings of `index_safety`; what happens
without them is under *Observations*, so the hypothesis cannot be dropped. The invariant:

* `CursorInv`: *a hash that is on chain stands for all blocks up to it.* If the hash of the cursor,
  or of any stored event behind it, is on chain, the log up to its block is the chain's (`Agrees`).
  This is what makes the search of `#rollbackOnReorg` for an ancestor sound: it compares one hash and
  keeps everything below it. It survives a reorganisation because a block that is replaced gets a hash
  that was never seen (`Seen`).
* `RoundInv`: the operation in progress works on the one cursor there is, and what it read is still
  what the chain says, from the read of the new blocks to the save of the cursor (`UpdateInv`), and
  likewise for the reorganisation check (`RefreshInv`) and a rebuild (`RebuildInv`).
* `OwedInv` and `GhostInv`: where an event whose delivery is missing, or a delivery whose event left
  the chain, is at each step of an operation: queued, in hand, given up aloud, or about to be cleared.

The refinement maps `ChainView` to the log behind the cursor. Each action is a stutter except the
save of the cursor (`Grow`: the saved events are exactly those between the old and the new
cursor), the rollback of a round (`Cut`) and the commit of a rebuild (`Rebuild`).

**The projections** (`IndexerProofs`): `BoardShowsTheChain`, `ActiveDeploymentUnique`, for any order
of any number of events. `BoardTruthful` needs `Positions` and `Covered`: events are applied in the
order of their positions and a task that is present matches every signal submitted for it, so a later
task event cannot reopen what the chain has done. `BucketsTruthful` (`BucketsSound`): a plan that was
committed stays known under its address and a counter never runs ahead of the events replayed, so a
stream that obeys the contracts never meets the plan it names as unknown and never ends the replay;
an event that creates a bucket under a module's address, or drops a delivery, is the one that counts
it. From `IndexerConstants`: an address is not both a state machine's and a module's, and *absent* and
*no plan* are not values.

**What participants meet** (`ParticipantsProofs`), from `ParticipantsConstants`:

* `NoReplay` (`AcceptedOnce`): the guard remembers every accepted nonce, once, with the time under its
  signature, so a replay that is still fresh finds its nonce.
* `OneNonceOneTransaction` (`NonceDiscipline`): `NonceInv` has, for each reserved nonce, at most one
  holder among the submits (`HolderInv`) and at most one live transaction (`LiveInv`), unless a
  takeover is on record; a row that makes a nonce reusable is of a submit that sent nothing.
* `HandoffNamesTheExecutor` (`PreviousExecutorUnique`): what the search for the last submitter returns
  on any finite set of signals.
* `InvitesHonest`, `AuthorityAccepted`: each request's copy of the invite is only used to decide, never
  to write; the conditional updates carry the argument, and whoever is a participant has an
  acceptance of an invite to that role (`ParticipantInv`).
* `DeliveriesHonest` (`DeliveriesSound`): nothing stops two actors from working on one delivery, so
  the argument is about those deliveries no two operations overlapped on (`AloneInv`), whose copy is
  then current or was swept over meanwhile (`CopyInv`). `BudgetInv` says where the attempts of the
  indexer are recorded, in the row or in the operation that will write it; `ReceiptInv` that an
  accepted delivery is marked, or about to be, with no further attempt on its way; `SweepInv`,
  `NoticeInv` and `EventInv` that what a rollback or a round still owes is in the hands of the
  operation in progress. From the assumptions that a profile lists its transports with natural
  priorities, that `MaxAutomatic` is positive, and that an operator is not the indexer. The bound that
  was stated before, one more attempt for every crash, turned out not to be inductive and is false:
  see *Observations*.
* `EvidenceStays`: an upload that reached the record holds objects that were written, and an answer
  names the one record of its payload (`UploadInv`, `RecordInv`, `AnswerInv`).

**The Store** (`StoreProofs`), from `StoreConstants` (types; the names that stand for *none* or
*unreadable* are not values; quotas are positive; stage and slot names are finite sets and there is a
slot to name; the routes called are routes of the tables):

* `ShelfVerified`, `PageHistory`: reviews write back copies of a listing; no copy in flight shows
  what was not verified when it was made, and the listing found when a copy was taken is still the
  only one. `SaveInv` does the same for the versions of a page.
* `SessionsHonest`: `VerifyInv` says that the conditional update that consumed a challenge leaves no
  other login at the point of storing a session for it; `AnchorInv` and `SeveredInv` tie an anchor and
  a revoked session to who asked for them.
* `ConsoleHonest`: for drafts, whatever may still become the schema of a published draft was settled
  before (`SettledInv`), and a copy in flight agrees with the record unless another request is named
  that wrote (`CopyInv`); for versions, `CutoverInv` and `AnchorInv` say which requests listed side by
  side, and `PlanInv` that a plan about to be claimed is registered.
* `JoinHonest`: `WorkInv` says a supplier copy about to be stored carries a status the governance
  accepted and was created with authority; `OpenInv` is the unique index, on insert and on update;
  `SupplierPut` and `ApplicationPut` say what a whole-record write of such a copy keeps.
* `AcceptsExactly`: `validateProductSchemaBundle` reports no issue exactly for the serviceable
  schemas. The counters of the algorithm (`stageCoverage`, the covering slots of a stage) are turned
  into *one and only one* by the cardinality of finite sets; each check has its lemma
  (`NoPluginIssues`, `NoCoverageIssues`, `NoSelectorIssues`, `NoSelectionIssues`).
* `AccessHonest`: what a call passed its checks with stays true of it although the session it passed
  with may end: `PassedInv` keeps the capability (the caller's own or the list its wallet was on), the
  anchor and whose wallet it acts for, `LaneInv` which checks a route goes through. The identity a
  request resolves to is coherent (`BaseFounded`, `WalletAdds`, `IdentityResolved`), for any sets of
  roles in tokens, and every route of the tables has the shape the argument needs (`GroupsShaped`).
* `DocksHonest` (`DockSound`): the history of attempts and that of restarts list ages, the newest
  first, as long as they are in the window. `WindowInv` pairs them: between two attempts lies a
  restart, and the Map knows the newest attempt unless a restart came after it; the histories age
  together, so the part that leaves the window leaves it from the end (`WindowPrefix`, `NowAges`,
  `OlderAges`), and the number of attempts is at most one more than that of restarts. `FactInv`: a
  snapshot lags behind the chain and facts are never withdrawn, so what any snapshot supports is so
  (`CandidatesAreFacts`). The window may be 0, which turns the limit off.
* `StartsMeant` (`StartsSafely`): the invariant is what the process got through on its path
  (`PassedLoad`, `PassedPreflight`); the work is in lemmas on the settings: `LoadRefuses` and
  `PreflightRefuses` (each layer alone refuses every critical fault, in each tier), `TiersAgree` (what
  production loads staging would load), `MeantSelected` (past the static preflight
  `selectActiveStateMachineDeployment` returns the named deployment or the only active one). The
  theorem covers any number of faults at once and manifests of any length, where the run has one or
  two faults, or at most two deployments (`SetupsKnown` is all it needs of `Setups`).

**Only model-checked.** The healing and the other liveness properties (`SelfHeals`, `LogHeals`,
`SubmissionHeals`, `Recovers`, `DockDelivers`): liveness under fairness is out of the prover's reach.
`OneOrderPerDraft` is violated. Every safety property a passing run checks, and the refinement, has a
theorem.

## Findings

`trigger_two_orders` (`product/query/bff/service.ts:350`) ends in a violation of what a comment of the
code says; the trace is the shortest TLC finds. `isReconcileableRegistration` re-checks failed
registrations so that a retry need not open a second order. A timeout stores *failed, retryable*;
`prepareOrderTrigger` then replaces the row, and with it the hash, by a new prepare; the first
transaction is still valid and succeeds beside the second.

### Observations

Other behaviours of the models that a reader of the code should know. They were seen as traces of
the same modules, or while the properties were stated so as to hold beside them; no run is kept for
them.

**Submissions and the reconcile worker**

* A failed submission without a hash may belong to a transaction the node accepted
  (`SendAcceptedUnseen`, `submissions/service.ts:418`); the record is not looked at again and the
  prepare stays usable, so a retry may send a second transaction with the same authorization.
* Inside the last second of an authorization the nonce row that a `persist_failed` record keeps can
  be taken over (`submissions/sqlite-store.ts:180`), because deadlines are whole seconds.
* Two submits of an expired prepare both store an expired record; the second replaces the
  submission id of the first (`submissions/service.ts:291`).
* The worker is a second writer outside the lock of `triggerOrder`: a copy taken while the broadcast
  was in progress replaces the confirmed row stored meanwhile, and the hash is lost
  (`reconcile/worker.ts:428`, against `product/query/bff/service.ts:192`).
* The worker stores a registration and its draft in two writes (`reconcile/worker.ts:428-433`): a
  failure between them leaves the draft of a confirmed registration in `triggering` or `failed`; a
  prepare between them leaves a `failed` draft that, once that prepare expires, can neither be
  prepared nor triggered.
* A record stored between the two scans of a pass, or a failed one that turns out to have succeeded,
  is confirmed without having been swept for evidence (`reconcile/worker.ts:310`), and confirmed
  records are not swept.

**Governance**

* `revokeIdentity` puts the review back on every failure, also when only the receipt wait failed and
  the transaction later succeeds (`governance/service.ts:242`): a revoked binding keeps an approved
  review.
* A review save that checked its transition before a concurrent revocation writes over the revoked
  review (`governance/service.ts:364`).
* A revocation that times out first and reverts later raises no alert (`reconcile/worker.ts:503`).
* Two identical governance requests in flight both find no ledger entry and are both broadcast
  (`governance/service.ts:192`). A process that dies between the broadcast and the entry leaves a
  transaction no entry names (`governance/service.ts:248`).

**Indexer**

* A reorganisation found while no event is stored "continues from the canonical chain"
  (`indexer/service.ts:940`): events of the replaced blocks are skipped. `FirstBlockHasEvent` keeps
  this out of `index_safety`.
* The hash of a block is read again after its events: a reorganisation inside a round can leave events
  of the old fork under a canonical hash.
* A rollback, the invalidation of deliveries and the trimming of pending batches are three steps; a
  crash in between leaves deliveries of blocks that are gone. A rebuild invalidates none at all.
* A rebuild that fails before its commit withdraws a pending step that was there before with the same
  id (`indexer/service.ts:420`).
* With a second writer: a lowered finalized block makes `processSignalSubmittedEvents` pass over
  events; a stale in-memory cursor asks for a full rebuild for ever; a deferred rollback keeps it
  stale; the compare-and-swap of the cursor cannot tell A-B-A.

**Projections**

* A delegation written before its hook is ready attaches the signal and not the assignee.
* A module registered by two state machines with one plan makes `findPlanForEvent` fail.
* A capability event drops the signal of a stage whose delegation moved elsewhere.
* A hook that is reopened is submitted at once by an old signal.

**Notifications**

* The id of a delivery does not name a block: an event that comes back after a reorganisation finds
  its old, invalidated delivery and is not sent (`notifications/service.ts:1591`).
* `deadLetterDelivery` overwrites any status, so an invalidated delivery can be reopened and sent
  (`notifications/service.ts:687`, `:626`). A dispatch writes back the copy it read before the webhook
  call (`:1652`); two operators together can exceed the limit of automatic attempts.
* A crash between the send and the write of its outcome leaves the row pending. If the profile no
  longer takes a push by the next round, `saveSkippedSignalDelivery` stores it with `attempts: 0`
  (`:1801`), and the automatic attempts start again: the bound is `MaxAutomatic` for every crash and
  once more, not one attempt for every crash.
* The replay guard of webhooks is sound below its capacity only.

**Stage patches, invites, evidence**

* `releaseNonce` is unconditional (`stage-patches/service.ts:439`); an expired submit consumes a
  prepare without reserving; a final failure without a transaction holds the nonce for a full `Ttl`;
  a takeover while the index lags by more than that broadcasts the nonce again.
* `createInvite` writes back the participant and draft it read (`product/query/bff/service.ts:678-699`);
  an expired invite is written back over an acceptance (`:1060`); one wallet can accept two roles at
  once; an acceptance in flight past the expiry and a new invite can bind a role twice.
* A second bind of an evidence record replaces the first (`evidence/sqlite-store.ts:201`); a failed
  backup leaves an object without a record.

**Store**

* Resolving a session clears a revocation stored meanwhile (`store/sessions/service.ts:268`); two
  first logins of an address create two accounts.
* Wallet operators lack `store.docking.read`; a JWT without roles may read the Store and no audit; a
  failing success audit answers 503 for an action that was done.
* A delisting is undone by an approval that read the listing before; two grants at once leave two
  delegations; a delegate revoked between check and append still writes.
* An approval overwrites a revocation (`store/join/service.ts:227`); two approvals can bind two wallets
  to a supplier without one; a failed registration still authorizes the application.
* A schema of an approved draft can be replaced by an invalid one, and stays approved; a publication
  between the check and the write of a draft is missed (`store/console/zhixu-drafts.ts:390`).
* Two activations at once leave two active versions (`store/console/version.ts:158`), of which
  new orders take the one created first; two creations at once can change the anchor of a version; and
  deprecating a version of a series that has no records yet ends its implicit active version.
* The dock worker counts only successes against its limit per run; one malformed route stops all of
  them; with only the twin of a deployment indexed it takes the twin.

**Configuration and storage**

* Production accepts the names of S3 key variables without values; load and preflight differ on
  relayer broadcast and on the evidence adapter; the stores are opened before the preflight runs.
* `withSqliteTransaction` joins a transaction that another request has open on the same connection
  while its body awaits (`storage/sqlite.ts:84`).

## Not modelled

* `product/application`: read models and the order in which the modelled services are called; it
  keeps no state of its own. The same holds for the queries, diagnostics and closure reports.
* `storage`: migrations and connection handling. A transaction is atomic in the models, and
  PostgreSQL and SQLite stores are taken to be equivalent.
* Docking sessions of the console: drafts for operators that no other part reads.
* Reorganisations below a confirmed record: the worker never re-reads a confirmed record.
* Several reviews of one governance subject, and the lookup of the latest among them.
* `attempts` of a submission, audit records other than those of `StoreAccess` and the revoke alert,
  diagnostics and summaries.
* Hashing, typed data, signatures and the encoding of logs: they decide whether a request changes
  state, and are inputs of the models. Wording and layout of messages.
* `security`, `shared`, `chain-adapters`, `proof-verifier`: pure functions without state.

## Plan

All modules of the table are written, checked and, where this document says so, proved. What is left:

1. The liveness properties stay with TLC, as does the violated `OneOrderPerDraft`.
2. Breadth: docking sessions of the console, and a model of `withSqliteTransaction` that lets the
   statements of two requests share a transaction.
