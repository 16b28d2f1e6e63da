--------------------------- MODULE Notifications ---------------------------
(* Deliveries of signal notifications (notifications/service.ts): the      *)
(* indexer derives them from finalized SignalSubmitted events, operators   *)
(* retry, reopen and dead-letter them, a reorg invalidates them. Every     *)
(* store call is an await: an operation works on the copy it read.         *)
EXTENDS Integers, Sequences, FiniteSets

CONSTANTS
  Events,                \* SignalSubmitted events, one receiver hook each
  Suppliers,             \* directory rows: a subject id and a wallet
  NoReceiver, Unresolved,\* delivery subjects of events without hook, supplier
  Profiles, NoProfile,   \* notification profiles a directory row may carry
  Operators, Nil,
  MaxAutomatic,          \* MAX_AUTOMATIC_DELIVERY_ATTEMPTS
  MaxRounds, MaxManual, MaxEdits, MaxCrashes, MaxReorgs   \* bounds

VARIABLES
  rows,          \* delivery store
  directory,     \* supplier metadata: whom a row serves, and its profile
  onChain,       \* events on the canonical chain
  owedInvalidation, \* a rollback was committed, deliveries not yet invalidated
  dispatcher,    \* whether a transport adapter is configured
  op,            \* operation in flight of the indexer and of each operator
  readStates,    \* participant notifications marked read
  budget,        \* rounds, manual operations, edits, crashes and reorgs so far
  hist           \* history the properties speak of

notifyVars == << rows, directory, onChain, owedInvalidation, dispatcher, op, readStates, budget, hist >>

Subjects == Suppliers \cup { NoReceiver, Unresolved }
(* signalDeliveryIdFor: the event's position, the hook and the supplier.   *)
Ids == Events \X Subjects
Statuses == { "pending", "sent", "failed", "skipped", "dead_letter", "invalidated" }
Transports == { "webhook", "slack", "email", "mcp", "executor-watch", "xmtp", "none" }
Row == [ status : Statuses, attempts : Nat, transport : Transports ]
Actors == Operators \cup { "indexer" }
Idle == [ kind |-> "idle" ]
Stored(id) == rows[id] # Nil

Init ==
  /\ rows = [ id \in Ids |-> Nil ]
  /\ directory \in [ Suppliers -> { Nil } \cup [ serves : {TRUE}, profile : Profiles ] ]
  /\ onChain = Events /\ owedInvalidation = FALSE /\ dispatcher \in BOOLEAN
  /\ op = [ a \in Actors |-> Idle ] /\ readStates = {}
  /\ budget = [ rounds |-> 0, manual |-> 0, edits |-> 0, crashes |-> 0, reorgs |-> 0 ]
  /\ hist = [ autoSends |-> [ id \in Ids |-> 0 ], receipts |-> [ id \in Ids |-> 0 ], delivered |-> {}, ghosts |-> {},
              revived |-> {}, raced |-> {}, reopened |-> {}, acknowledged |-> {}, takenUp |-> {} ]

Spends(field, limit) == budget[field] < limit /\ budget' = [ budget EXCEPT ![field] = @ + 1 ]

-----------------------------------------------------------------------------
(* Transports of a profile, in order of preference.                        *)
isPushTransport(t) == t.type \in { "webhook", "slack", "email", "mcp" }
EnabledAt(profile) == { i \in 1..Len(profile) : profile[i].enabled }
First(profile, is) == CHOOSE i \in is : \A j \in is :
  profile[i].priority < profile[j].priority \/ (profile[i].priority = profile[j].priority /\ i <= j)

chooseTransport(profile) ==
  LET usable == { i \in EnabledAt(profile) : isPushTransport(profile[i]) \/ profile[i].type = "executor-watch" }
  IN  CASE usable # {} -> profile[First(profile, usable)].type
        [] usable = {} /\ EnabledAt(profile) # {} -> profile[First(profile, EnabledAt(profile))].type
        [] OTHER -> "none"

chooseTransportForRetry(profile, type) ==
  IF \E i \in EnabledAt(profile) : profile[i].type = type THEN type ELSE chooseTransport(profile)

Pushes(type) == type = "webhook"

(* The supplier an event's receiver resolves to: the only directory row    *)
(* that serves it, by wallet or by stage.                                  *)
Matches == { s \in Suppliers : directory[s] # Nil /\ directory[s].serves }
resolveReceiverSupplier == IF Cardinality(Matches) = 1 THEN CHOOSE s \in Matches : TRUE ELSE Unresolved

(* Whom a stored delivery is sent to.                                      *)
Listed == { s \in Suppliers : directory[s] # Nil }
RetryRecipient(id) == IF id[2] \in Listed THEN id[2] ELSE Unresolved

resolveRetryTransport(id, type) ==
  LET s == RetryRecipient(id)
  IN  IF s = Unresolved \/ directory[s].profile = NoProfile THEN "none"
      ELSE chooseTransportForRetry(directory[s].profile, type)

-----------------------------------------------------------------------------
(* The store: a save replaces the whole row.                               *)
saveDelivery(id, row) ==
  /\ rows' = [ rows EXCEPT ![id] = row ]
  /\ hist' = IF Stored(id) /\ rows[id].status = "invalidated" /\ row.status # "invalidated"
             THEN [ hist EXCEPT !.revived = @ \cup {id} ] ELSE hist

Begin(a, o, h) ==
  /\ op' = [ op EXCEPT ![a] = o ]
  /\ hist' = IF \E b \in Actors \ {a} : op[b].kind \notin { "idle", "invalidate" } /\ op[b].id = o.id
             THEN [ h EXCEPT !.raced = @ \cup {o.id} ] ELSE h
End(a) == op' = [ op EXCEPT ![a] = Idle ]

New(type) == [ status |-> "pending", attempts |-> 0, transport |-> type ]

(* processSignalSubmittedEvents, one event of a round: what it resolves    *)
(* to, and the delivery row read. Projections may still miss the event's   *)
(* scope, order, signal or artifact: then the drop itself is a delivery.   *)
Missing == { "event_scope_ids_missing", "order_projection_missing",
             "signal_projection_missing", "artifact_mapping_missing" }

SkipFor(e) == << e, NoReceiver >>

Resolve(e, gap) ==
  LET s == resolveReceiverSupplier
      profile == IF s = Unresolved THEN NoProfile ELSE directory[s].profile
      type == IF profile = NoProfile THEN "none" ELSE chooseTransport(profile)
  IN  IF gap # Nil THEN [ id |-> SkipFor(e), type |-> "none" ] ELSE [ id |-> << e, s >>, type |-> type ]

processSignalSubmittedEvents(e, gap) ==
  LET r == Resolve(e, gap)
  IN  /\ Spends("rounds", MaxRounds)
      /\ op["indexer"] = Idle /\ ~owedInvalidation /\ e \in onChain
      /\ Begin("indexer", [ kind |-> IF Pushes(r.type) THEN "dispatch" ELSE "skip", id |-> r.id, row |-> rows[r.id],
                            type |-> r.type, at |-> "read", to |-> r.id[2], void |-> FALSE ],
               [ hist EXCEPT !.takenUp = @ \cup {e} ])
      /\ UNCHANGED << dispatcher, rows, directory, onChain, owedInvalidation, readStates >>

saveSkippedSignalDelivery ==
  LET o == op["indexer"]
  IN  /\ o.kind = "skip" /\ End("indexer")
      /\ IF o.row = Nil \/ (o.row # Nil /\ o.row.status = "pending")
         THEN saveDelivery(o.id, [ New(o.type) EXCEPT !.status = "skipped" ])
         ELSE UNCHANGED << rows, hist >>
      /\ UNCHANGED << dispatcher, directory, onChain, owedInvalidation, readStates, budget >>

Exhausted(row) == row.status = "failed" /\ row.attempts >= MaxAutomatic

dispatchSignalTransportDelivery ==
  LET o == op["indexer"]
      row == IF o.row = Nil THEN New(o.type) ELSE o.row
  IN  /\ o.kind = "dispatch" /\ o.at = "read"
      /\ CASE row.status \notin { "pending", "failed" } -> End("indexer") /\ UNCHANGED << rows, hist >>
           [] row.status \in { "pending", "failed" } /\ Exhausted(row) ->
                saveDelivery(o.id, [ row EXCEPT !.status = "dead_letter" ]) /\ End("indexer")
           [] OTHER -> /\ saveDelivery(o.id, [ row EXCEPT !.status = "pending" ])
                       /\ op' = [ op EXCEPT !["indexer"] = [ @ EXCEPT !.row = [ row EXCEPT !.status = "pending" ], !.at = "send" ] ]
      /\ UNCHANGED << dispatcher, directory, onChain, owedInvalidation, readStates, budget >>

(* dispatchPreparedDelivery: the request goes out, then the answer is      *)
(* stored over the row with one more attempt. A request that timed out     *)
(* counts as failed. Without an adapter nothing is sent: skipped.          *)
Send(a) ==
  LET o == op[a]
  IN  /\ o.kind \in { "dispatch", "retry", "reopen" } /\ o.at = "send" /\ dispatcher
      /\ \E ok \in BOOLEAN :
           /\ op' = [ op EXCEPT ![a] = [ @ EXCEPT !.at = IF ok THEN "accepted" ELSE "refused" ] ]
           /\ hist' = [ hist EXCEPT !.receipts[o.id] = IF ok THEN @ + 1 ELSE @,
                                    !.autoSends[o.id] = IF a = "indexer" THEN @ + 1 ELSE @,
                                    !.delivered = @ \cup { << o.id, o.to >> },
                                    !.ghosts = IF o.void THEN @ \cup {o.id} ELSE @ ]
      /\ UNCHANGED << dispatcher, rows, directory, onChain, owedInvalidation, readStates, budget >>

dispatchPreparedDelivery(a) ==
  LET o == op[a]
  IN  /\ o.kind \in { "dispatch", "retry", "reopen" }
      /\ \/ /\ o.at \in { "accepted", "refused" }
            /\ saveDelivery(o.id, [ o.row EXCEPT !.status = IF o.at = "accepted" THEN "sent" ELSE "failed", !.attempts = @ + 1 ])
         \/ o.at = "send" /\ ~dispatcher /\ saveDelivery(o.id, [ o.row EXCEPT !.status = "skipped" ])
      /\ End(a)
      /\ UNCHANGED << dispatcher, directory, onChain, owedInvalidation, readStates, budget >>

-----------------------------------------------------------------------------
(* Operators. Each operation reads the row, then acts on what it read.     *)
ManualRead(a, kind, id) ==
  /\ Spends("manual", MaxManual)
  /\ op[a] = Idle
  /\ Begin(a, [ kind |-> kind, id |-> id, row |-> rows[id], type |-> rows[id].transport, at |-> "read", to |-> Unresolved,
                void |-> id[1] \notin onChain /\ rows[id].status = "invalidated" ],
           IF kind = "reopen" THEN [ hist EXCEPT !.reopened = @ \cup {id} ] ELSE hist)
  /\ UNCHANGED << dispatcher, rows, directory, onChain, owedInvalidation, readStates >>

Retriable(status) == status \notin { "sent", "dead_letter", "invalidated" }

retryDelivery(a, id) == Stored(id) /\ Retriable(rows[id].status) /\ ManualRead(a, "retry", id)
reopenDelivery(a, id) == Stored(id) /\ rows[id].status = "dead_letter" /\ ManualRead(a, "reopen", id)
deadLetterDelivery(a, id) == Stored(id) /\ ManualRead(a, "bury", id)

(* The row is pending again; then the transport is resolved anew, or the   *)
(* row is skipped.                                                         *)
Reissue(a) ==
  LET o == op[a]
      type == resolveRetryTransport(o.id, o.type)
  IN  /\ o.kind \in { "retry", "reopen" } /\ o.at = "read"
      /\ IF Pushes(type)
         THEN /\ saveDelivery(o.id, [ o.row EXCEPT !.status = "pending" ])
              /\ op' = [ op EXCEPT ![a] = [ @ EXCEPT !.row = [ o.row EXCEPT !.status = "pending" ], !.at = "send",
                                                        !.to = RetryRecipient(o.id) ] ]
         ELSE saveDelivery(o.id, [ o.row EXCEPT !.status = "skipped" ]) /\ End(a)
      /\ UNCHANGED << dispatcher, directory, onChain, owedInvalidation, readStates, budget >>

Bury(a) ==
  /\ op[a].kind = "bury"
  /\ saveDelivery(op[a].id, [ op[a].row EXCEPT !.status = "dead_letter" ]) /\ End(a)
  /\ UNCHANGED << dispatcher, directory, onChain, owedInvalidation, readStates, budget >>

-----------------------------------------------------------------------------
(* A reorg removes events; the indexer's rollback then invalidates their   *)
(* deliveries from one listing, row by row.                                *)
Reorg ==
  /\ Spends("reorgs", MaxReorgs) /\ op["indexer"] = Idle /\ ~owedInvalidation
  /\ \E gone \in (SUBSET onChain) \ {{}} : onChain' = onChain \ gone
  /\ owedInvalidation' = TRUE
  /\ UNCHANGED << dispatcher, rows, directory, op, readStates, hist >>

(* Fault: what was sent already is left as it is.                          *)
InvalidateUnsent(listing) ==
  { id \in Ids : listing[id] # Nil /\ id[1] \notin onChain /\ listing[id].status \notin { "invalidated", "sent" } }

Invalidated(listing) ==
  { id \in Ids : listing[id] # Nil /\ id[1] \notin onChain /\ listing[id].status # "invalidated" }

invalidateDeliveriesAboveBlock ==
  /\ op["indexer"] = Idle /\ owedInvalidation /\ owedInvalidation' = FALSE
  /\ op' = [ op EXCEPT !["indexer"] = [ kind |-> "invalidate", listing |-> rows, left |-> Invalidated(rows) ] ]
  /\ UNCHANGED << dispatcher, rows, directory, onChain, readStates, budget, hist >>

InvalidateOne ==
  LET o == op["indexer"]
  IN  /\ o.kind = "invalidate"
      /\ IF o.left = {} THEN End("indexer") /\ UNCHANGED << rows, hist >>
         ELSE \E id \in o.left :
                /\ saveDelivery(id, [ o.listing[id] EXCEPT !.status = "invalidated" ])
                /\ op' = [ op EXCEPT !["indexer"] = [ o EXCEPT !.left = o.left \ {id} ] ]
      /\ UNCHANGED << dispatcher, directory, onChain, owedInvalidation, readStates, budget >>

-----------------------------------------------------------------------------
(* A participant is shown failed and invalidated deliveries of its wallet. *)
NoticeKind(status) == IF status = "failed" THEN "submission_failed" ELSE "notification_invalidated"

participantNotificationId(id, status) == << id, NoticeKind(status) >>

buildParticipantNotificationList(s) ==
  { participantNotificationId(id, rows[id].status) :
      id \in { x \in Ids : Stored(x) /\ x[2] = s /\ rows[x].status \in { "failed", "invalidated" } } }

markParticipantNotificationRead(s, id) ==
  /\ Stored(id) /\ rows[id].status \in { "failed", "invalidated" }
  /\ participantNotificationId(id, rows[id].status) \in buildParticipantNotificationList(s)
  /\ participantNotificationId(id, rows[id].status) \notin readStates
  /\ readStates' = readStates \cup { participantNotificationId(id, rows[id].status) }
  /\ hist' = IF rows[id].status = "invalidated" THEN [ hist EXCEPT !.acknowledged = @ \cup {id} ] ELSE hist
  /\ UNCHANGED << dispatcher, rows, directory, onChain, owedInvalidation, op, budget >>

(* The store's administrators edit the directory; the process may die.     *)
EditDirectory ==
  /\ Spends("edits", MaxEdits)
  /\ \E s \in Suppliers, new \in { Nil } \cup [ serves : BOOLEAN, profile : Profiles ] :
       new # directory[s] /\ directory' = [ directory EXCEPT ![s] = new ]
  /\ UNCHANGED << dispatcher, rows, onChain, owedInvalidation, op, readStates, hist >>

Crash ==
  /\ Spends("crashes", MaxCrashes) /\ \E a \in Actors : op[a] # Idle
  /\ op' = [ a \in Actors |-> Idle ]
  /\ UNCHANGED << dispatcher, rows, directory, onChain, owedInvalidation, readStates, hist >>

Next ==
  \/ \E e \in Events, gap \in Missing \cup {Nil} : processSignalSubmittedEvents(e, gap)
  \/ saveSkippedSignalDelivery \/ dispatchSignalTransportDelivery
  \/ \E a \in Actors : Send(a) \/ dispatchPreparedDelivery(a)
  \/ \E a \in Operators, id \in Ids : retryDelivery(a, id) \/ reopenDelivery(a, id) \/ deadLetterDelivery(a, id)
  \/ \E a \in Operators : Reissue(a) \/ Bury(a)
  \/ Reorg \/ invalidateDeliveriesAboveBlock \/ InvalidateOne
  \/ \E s \in Suppliers, id \in Ids : markParticipantNotificationRead(s, id)
  \/ EditDirectory \/ Crash

Spec == Init /\ [][Next]_notifyVars

-----------------------------------------------------------------------------
(* A delivery only ever goes to the supplier it is addressed to: one whose *)
(* receiver is unknown or ambiguous is sent to nobody, whatever the        *)
(* directory says when it is retried.                                      *)
NoWrongRecipient == \A x \in hist.delivered : x[1][2] = x[2]

(* The indexer's own sends of a delivery are bounded by the attempt limit, *)
(* and once more by it for every crash: the row a crash leaves pending may *)
(* be skipped by the next round, which counts its attempts from 0 again.   *)
(* Only an overlapping operation writes a stale count back.                *)
AutomaticBudget ==
  \A id \in Ids : id \notin hist.raced \cup hist.revived =>
    hist.autoSends[id] <= MaxAutomatic * (1 + budget.crashes)

(* A delivery is accepted twice only if two operations on it overlapped,   *)
(* the process died after the send, or a person reopened it.               *)
DeliveredOnce ==
  \A id \in Ids : hist.receipts[id] > 1 =>
    id \in hist.raced \cup hist.reopened \cup hist.revived \/ budget.crashes > 0

(* What a reorg invalidated is not sent again, whoever retries or reopens  *)
(* it, while the row still says so: the payload points at a block that no  *)
(* longer exists.                                                          *)
NoGhostDelivery == hist.ghosts = {}

(* After the sweep of a rollback every delivery of a vanished event says   *)
(* so, except those that an overlapping operation wrote since.             *)
InvalidationComplete ==
  (\A a \in Actors : op[a] = Idle) /\ ~owedInvalidation /\ budget.crashes = 0 /\ budget.manual = 0 =>
    \A id \in Ids : Stored(id) /\ id[1] \notin onChain => rows[id].status = "invalidated"

(* Every event a round took up has left a row: a drop can be counted.      *)
EveryEventAccounted ==
  op["indexer"] = Idle /\ budget.crashes = 0 => \A e \in hist.takenUp : \E s \in Subjects : Stored(<< e, s >>)

(* Having read the notice of a failure does not hide the later notice that *)
(* the same delivery was invalidated.                                      *)
InvalidationIsNews ==
  \A id \in Ids : Stored(id) /\ rows[id].status = "invalidated"
                  /\ participantNotificationId(id, "invalidated") \in readStates => id \in hist.acknowledged

(* A delivery reaches its own receiver, once and within its budget; one    *)
(* whose event is gone says so, is not sent, and is news to whoever read   *)
(* it before; no event is dropped in silence.                              *)
DeliveriesSound ==
  /\ NoWrongRecipient /\ AutomaticBudget /\ DeliveredOnce
  /\ NoGhostDelivery /\ InvalidationComplete /\ InvalidationIsNews
  /\ EveryEventAccounted

-----------------------------------------------------------------------------
(* The invariant behind it.                                                *)

Work == [ kind : { "dispatch", "skip", "retry", "reopen", "bury" }, id : Ids, row : Row \cup {Nil}, type : Transports,
          at : { "read", "send", "accepted", "refused" }, to : Subjects, void : BOOLEAN ]
Sweep == [ kind : { "invalidate" }, listing : [ Ids -> Row \cup {Nil} ], left : SUBSET Ids ]
Budgets == [ rounds : Nat, manual : Nat, edits : Nat, crashes : Nat, reorgs : Nat ]
Histories == [ autoSends : [ Ids -> Nat ], receipts : [ Ids -> Nat ], delivered : SUBSET (Ids \X Subjects),
               ghosts : SUBSET Ids, revived : SUBSET Ids, raced : SUBSET Ids, reopened : SUBSET Ids,
               acknowledged : SUBSET Ids, takenUp : SUBSET Events ]

NotifyTypes ==
  /\ rows \in [ Ids -> Row \cup {Nil} ]
  /\ directory \in [ Suppliers -> { Nil } \cup [ serves : BOOLEAN, profile : Profiles ] ]
  /\ onChain \in SUBSET Events /\ owedInvalidation \in BOOLEAN
  /\ op \in [ Actors -> { Idle } \cup Work \cup Sweep ]
  /\ budget \in Budgets /\ hist \in Histories

Works(a, id) == op[a] \in Work /\ op[a].id = id
Fresh(id) == id \notin hist.raced \cup hist.revived

(* Who does what: the indexer dispatches or skips a delivery of an event   *)
(* on chain, or sweeps; operators retry, reopen or bury one they read.     *)
ActorInv(a) ==
  /\ op[a] \in Work =>
       /\ op[a].row # Nil => Stored(op[a].id)
       /\ op[a].kind \in { "skip", "bury" } => op[a].at = "read"
       /\ op[a].at # "read" => op[a].row # Nil /\ op[a].row.status = "pending" /\ op[a].to = op[a].id[2]
       /\ op[a].void => op[a].kind = "bury"
       /\ a = "indexer" => op[a].kind \in { "dispatch", "skip" } /\ op[a].to = op[a].id[2] /\ op[a].id[1] \in onChain
       /\ a # "indexer" => op[a].kind \in { "retry", "reopen", "bury" } /\ op[a].row # Nil /\ budget.manual > 0
       /\ op[a].kind = "reopen" => op[a].id \in hist.reopened
  /\ op[a] \in Sweep => a = "indexer" /\ op[a].left \subseteq Invalidated(op[a].listing)

(* Two operations on one delivery are on record as such.                   *)
AloneInv(id) == id \in hist.raced \/ \A a, b \in Actors : Works(a, id) /\ Works(b, id) => a = b

(* Otherwise the copy an operation works on is current, or swept over.     *)
CopyInv(id) ==
  Fresh(id) => \A a \in Actors : Works(a, id) =>
    \/ rows[id] = op[a].row
    \/ a # "indexer" /\ Stored(id) /\ rows[id].status = "invalidated"

Recorded(id) == IF Stored(id) THEN rows[id].attempts ELSE 0
Capped(n) == IF n < MaxAutomatic THEN n ELSE MaxAutomatic
Spare == MaxAutomatic * budget.crashes
Answering(id) == Works("indexer", id) /\ op["indexer"].at \in { "accepted", "refused" }
Reading(id) == \A a \in Actors : Works(a, id) => op[a].at = "read"
Swept(id) == op["indexer"] \in Sweep /\ id \in op["indexer"].left

(* What the indexer sent is recorded in the row, up to a full series of    *)
(* attempts for every crash. A row nobody is at work on is pending only    *)
(* after a crash, and then that series is not spent yet.                   *)
BudgetInv(id) ==
  Fresh(id) =>
    /\ ~Answering(id) => hist.autoSends[id] <= Capped(Recorded(id)) + Spare
    /\ Answering(id) => hist.autoSends[id] <= Capped(op["indexer"].row.attempts + 1) + Spare
    /\ Works("indexer", id) /\ op["indexer"].at = "send" =>
         hist.autoSends[id] + 1 <= Capped(op["indexer"].row.attempts + 1) + Spare
    /\ Stored(id) /\ rows[id].status = "pending" /\ Reading(id) => hist.autoSends[id] <= Spare
    /\ Swept(id) => hist.autoSends[id] <= Capped(op["indexer"].listing[id].attempts) + Spare

(* An accepted delivery is marked as such, or about to be, and no further  *)
(* attempt is on its way.                                                  *)
ReceiptInv(id) ==
  budget.crashes = 0 /\ Fresh(id) /\ id \notin hist.reopened =>
    /\ \/ hist.receipts[id] = 0
       \/ /\ hist.receipts[id] = 1
          /\ \/ Stored(id) /\ rows[id].status \in { "sent", "dead_letter", "invalidated" }
             \/ \E a \in Actors : Works(a, id) /\ op[a].at = "accepted"
    /\ \A a \in Actors : Works(a, id) /\ op[a].kind = "retry" /\ op[a].at # "accepted" => hist.receipts[id] = 0

DeliveryInv(id) == AloneInv(id) /\ CopyInv(id) /\ BudgetInv(id) /\ ReceiptInv(id)

(* What is left to invalidate is in the sweep.                             *)
SweepInv ==
  /\ op["indexer"] # Idle => ~owedInvalidation
  /\ budget.crashes = 0 /\ budget.manual = 0 /\ ~owedInvalidation =>
       \A id \in Ids : Stored(id) /\ id[1] \notin onChain /\ rows[id].status # "invalidated" => Swept(id)

NoticeInv == \A id \in Ids : << id, "notification_invalidated" >> \in readStates => id \in hist.acknowledged

EventInv ==
  budget.crashes = 0 => \A e \in hist.takenUp :
    \/ \E s \in Subjects : Stored(<< e, s >>)
    \/ op["indexer"] \in Work /\ op["indexer"].id[1] = e

IndInv ==
  /\ NotifyTypes
  /\ \A a \in Actors : ActorInv(a)
  /\ \A id \in Ids : DeliveryInv(id)
  /\ SweepInv /\ NoticeInv /\ EventInv /\ NoWrongRecipient /\ NoGhostDelivery
=============================================================================
