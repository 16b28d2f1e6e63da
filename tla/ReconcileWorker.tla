-------------------------- MODULE ReconcileWorker --------------------------
(***************************************************************************)
(* A pass of the reconcile worker over the submission ledger.  Passes are  *)
(* started by the poll timer, by an operator, and by a submission retry;   *)
(* one runs at a time.  A pass first sweeps the ledger for submissions     *)
(* whose evidence was not bound, then checks the open submissions against  *)
(* the node and the projections.  Both scans read the ledger in pages by   *)
(* key and work on the copies in the page, while submits go on adding      *)
(* records.                                                                *)
(*                                                                         *)
(* A key is the position of a record in the order of (createdAt,           *)
(* submissionId).  A record is stored after its createdAt was taken, so    *)
(* keys may appear in any order.  Every record has a transaction of its    *)
(* own: hashes are owned by one prepare (Submissions).                     *)
(***************************************************************************)
EXTENDS Integers, FiniteSets, ReconcileOutcome

CONSTANTS
  Callers,            \* timer and operators calling runOnce
  MaxKey,             \* number of submissions
  PageSize,           \* scanPageSize
  Evidence,           \* whether submissions may carry evidence references
  TxTimeout,          \* RECONCILE_TX_TIMEOUT_MS
  MaxClock, MaxFaults \* bounds: time, and crashes and failing calls

ASSUME WorkerConstants ==
  /\ MaxKey \in Nat
  /\ PageSize \in Nat \ {0}
  /\ Evidence \subseteq BOOLEAN
  /\ TxTimeout \in Nat \ {0}
  /\ MaxClock \in Nat /\ MaxFaults \in Nat

VARIABLES
  clock, faults,
  ledger,      \* submission records by key
  bound,       \* keys whose evidence is bound
  fate,        \* what happened to the transaction of each record
  projected,   \* keys whose signal the indexer has projected
  checking,    \* the worker's re-entry guard
  pc, pass     \* step and local variables of each caller's pass

vars == << clock, faults, ledger, bound, fate, projected, checking, pc, pass >>
worldVars == << clock, fate, projected >>

Keys == 1 .. MaxKey
Status == { "none", "submitted", "indexing", "confirmed", "failed", "expired" }
Open == { "submitted", "indexing", "failed" }

(* checked is the last conclusion of the worker about the record.          *)
Record == [ status : Status, hasTx : BOOLEAN, evidence : BOOLEAN, deadLetter : BOOLEAN,
            createdAt : Nat, checked : Kinds \cup {"none"} ]
NoRecord == [ status |-> "none", hasTx |-> FALSE, evidence |-> FALSE, deadLetter |-> FALSE,
              createdAt |-> 0, checked |-> "none" ]

CheckSteps == { "check", "receipt", "projection", "store" }
ItemSteps  == { "proof", "bind" } \cup CheckSteps
Steps      == { "idle", "fetch", "item" } \cup ItemSteps

(* page holds the keys of the current page not yet passed, copies the      *)
(* records read with them; due and visited are history: the records to     *)
(* check when the second scan began, and the records checked or passed     *)
(* over.                                                                   *)
Pass == [ scan : { "sweep", "check" }, page : SUBSET Keys, copies : [ Keys -> Record ],
          item : Keys \cup {0}, cursor : Nat, last : BOOLEAN, kind : Kinds,
          due : SUBSET Keys, visited : SUBSET Keys ]
NoPass == [ scan |-> "sweep", page |-> {}, copies |-> [ k \in Keys |-> NoRecord ],
            item |-> 0, cursor |-> 0, last |-> FALSE, kind |-> "pending",
            due |-> {}, visited |-> {} ]

(* Records and page copies are what a submit stores or the worker writes.  *)
TypeOK ==
  /\ clock \in Nat /\ faults \in Nat
  /\ ledger \in [ Keys -> Record ]
  /\ bound \in SUBSET Keys /\ projected \in SUBSET Keys
  /\ fate \in [ Keys -> { "pending", "success", "reverted" } ]
  /\ checking \in BOOLEAN
  /\ pc \in [ Callers -> Steps ] /\ pass \in [ Callers -> Pass ]

Init ==
  /\ clock = 0 /\ faults = 0
  /\ ledger = [ k \in Keys |-> NoRecord ]
  /\ bound = {} /\ projected = {}
  /\ fate = [ k \in Keys |-> "pending" ]
  /\ checking = FALSE
  /\ pc = [ c \in Callers |-> "idle" ]
  /\ pass = [ c \in Callers |-> NoPass ]

-----------------------------------------------------------------------------
(* The submit lane, as module Submissions leaves its records.              *)
Stored(k) ==
  { r \in [ status : { "submitted", "confirmed", "failed", "expired" }, hasTx : BOOLEAN,
            evidence : Evidence, deadLetter : BOOLEAN, createdAt : {clock},
            checked : {"none"} ] :
      /\ r.status \in { "submitted", "confirmed" } => r.hasTx /\ fate[k] = "success"
      /\ r.status = "expired" => ~r.hasTx
      /\ ~r.hasTx => fate[k] = "pending"
      /\ r.deadLetter => r.status = "failed" }

(* Fault: a submission takes the id of its prepare, and a second submit of  *)
(* the prepare replaces the record.                                        *)
SubmitUnderPrepareId(k) ==
  /\ \E r \in Stored(k) : ledger' = [ ledger EXCEPT ![k] = r ]
  /\ UNCHANGED << worldVars, faults, bound, checking, pc, pass >>

Submit(k) ==
  /\ ledger[k] = NoRecord
  /\ \E r \in Stored(k) : ledger' = [ ledger EXCEPT ![k] = r ]
  /\ UNCHANGED << worldVars, faults, bound, checking, pc, pass >>

(* A successful submit binds its evidence after the record is stored; the  *)
(* binding may fail, which is only audited.                                *)
SubmitBinds(k) ==
  /\ ledger[k].evidence /\ ledger[k].status \in { "submitted", "confirmed" }
  /\ ledger[k].checked = "none"
  /\ k \notin bound
  /\ bound' = bound \cup {k}
  /\ UNCHANGED << worldVars, faults, ledger, checking, pc, pass >>

-----------------------------------------------------------------------------
At(c, step) == pc[c] = step
Goto(c, step, locals) ==
  /\ pc'   = [ pc   EXCEPT ![c] = step ]
  /\ pass' = [ pass EXCEPT ![c] = locals ]

(* Fault: failed records are never looked at again.                        *)
ReconcileableInFlight(r) == r.status \in { "submitted", "indexing" }

isReconcileableSubmission(r) ==
  IF r.status = "failed" THEN r.hasTx ELSE r.status \in { "submitted", "indexing" }

isEvidenceBindSweepable(r) ==
  r.hasTx /\ r.evidence /\ r.status \in { "submitted", "indexing" }

(* A call during a pass returns an empty summary.                          *)
runOnce(c) ==
  /\ At(c, "idle")
  /\ ~checking
  /\ checking' = TRUE
  /\ Goto(c, "fetch", NoPass)
  /\ UNCHANGED << worldVars, faults, ledger, bound >>

OpenRows == { k \in Keys : ledger[k].status \in Open }
OpenAfter(cursor) == { k \in OpenRows : k > cursor }

(* The first rows of a set, as many as LIMIT allows.                       *)
Limited(page, rows) ==
  /\ page \subseteq rows
  /\ \A k \in page, m \in rows : m < k => m \in page
  /\ Cardinality(page) <= PageSize
  /\ page # rows => Cardinality(page) = PageSize

(* Fault: a page is an offset into the open rows, which shrink as records  *)
(* are confirmed.                                                          *)
PageByOffset(page, cursor) ==
  Limited(page, { k \in OpenRows : Cardinality({ m \in OpenRows : m < k }) >= cursor })

listOpenSubmissionsPage(page, cursor) == Limited(page, OpenAfter(cursor))

Greatest(k, keys) == k \in keys /\ \A m \in keys : m <= k
Least(k, keys)    == k \in keys /\ \A m \in keys : k <= m

(* Reads the next page; a pass remembers what it has to check.             *)
FetchPage(c) ==
  /\ At(c, "fetch")
  /\ \E page \in SUBSET Keys, cursor \in Keys \cup {0} :
       /\ listOpenSubmissionsPage(page, pass[c].cursor)
       /\ IF page = {} THEN cursor = pass[c].cursor ELSE Greatest(cursor, page)
       /\ Goto(c, "item",
            [ pass[c] EXCEPT
                !.page = page,
                !.copies = [ k \in Keys |-> IF k \in page THEN ledger[k] ELSE NoRecord ],
                !.last = Cardinality(page) < PageSize,
                !.cursor = cursor,
                !.due = IF pass[c].scan = "check" /\ pass[c].cursor = 0
                          THEN { k \in Keys : isReconcileableSubmission(ledger[k]) }
                          ELSE @ ])
  /\ UNCHANGED << worldVars, faults, ledger, bound, checking >>

(* The next item, the next page, the second scan, or the end of the pass.  *)
Item(c) == pass[c].item
Copy(c) == pass[c].copies[Item(c)]
Passed(locals, k) ==
  [ locals EXCEPT !.page = @ \ {k}, !.copies[k] = NoRecord, !.item = 0,
                  !.visited = @ \cup {k} ]
Advance(c) == Passed(pass[c], Item(c))

NextPage(c) ==
  /\ At(c, "item")
  /\ pass[c].page = {}
  /\ ~pass[c].last
  /\ Goto(c, "fetch", pass[c])
  /\ UNCHANGED << worldVars, faults, ledger, bound, checking >>

SweepEnds(c) ==
  /\ At(c, "item")
  /\ pass[c].page = {} /\ pass[c].last
  /\ pass[c].scan = "sweep"
  /\ Goto(c, "fetch", [ NoPass EXCEPT !.scan = "check" ])
  /\ UNCHANGED << worldVars, faults, ledger, bound, checking >>

PassEnds(c) ==
  /\ At(c, "item")
  /\ pass[c].page = {} /\ pass[c].last
  /\ pass[c].scan = "check"
  /\ checking' = FALSE
  /\ Goto(c, "idle", NoPass)
  /\ UNCHANGED << worldVars, faults, ledger, bound >>

(* A record of the page that the scan passes over.                         *)
SkipItem(c, k) ==
  /\ At(c, "item")
  /\ Least(k, pass[c].page)
  /\ IF pass[c].scan = "sweep" THEN ~isEvidenceBindSweepable(pass[c].copies[k])
                               ELSE ~isReconcileableSubmission(pass[c].copies[k])
  /\ Goto(c, "item", Passed(pass[c], k))
  /\ UNCHANGED << worldVars, faults, ledger, bound, checking >>

-----------------------------------------------------------------------------
(* The evidence sweep: evidence whose proof reads unbound is bound.        *)
SweepItem(c, k) ==
  /\ At(c, "item")
  /\ Least(k, pass[c].page)
  /\ pass[c].scan = "sweep"
  /\ isEvidenceBindSweepable(pass[c].copies[k])
  /\ Goto(c, "proof", [ pass[c] EXCEPT !.item = k ])
  /\ UNCHANGED << worldVars, faults, ledger, bound, checking >>

GetProof(c) ==
  /\ At(c, "proof")
  /\ IF Item(c) \in bound THEN Goto(c, "item", Advance(c)) ELSE Goto(c, "bind", pass[c])
  /\ UNCHANGED << worldVars, faults, ledger, bound, checking >>

bindEvidence(c) ==
  /\ At(c, "bind")
  /\ bound' = bound \cup { Item(c) }
  /\ Goto(c, "item", Advance(c))
  /\ UNCHANGED << worldVars, faults, ledger, checking >>

-----------------------------------------------------------------------------
(* The check of one submission.                                            *)
timedOut(r) == clock - r.createdAt >= TxTimeout

submissionProjectionConfirmation(k) == k \in projected

CheckItem(c, k) ==
  /\ At(c, "item")
  /\ Least(k, pass[c].page)
  /\ pass[c].scan = "check"
  /\ isReconcileableSubmission(pass[c].copies[k])
  /\ Goto(c, "check", [ pass[c] EXCEPT !.item = k ])
  /\ UNCHANGED << worldVars, faults, ledger, bound, checking >>

Concluded(c, kind) == Goto(c, "store", [ pass[c] EXCEPT !.kind = kind ])

ProjectionBeforeReceipt(c) ==
  /\ At(c, "check")
  /\ IF submissionProjectionConfirmation(Item(c)) THEN Concluded(c, "confirmed")
                                                      ELSE Goto(c, "receipt", pass[c])
  /\ UNCHANGED << worldVars, faults, ledger, bound, checking >>

ReceiptOf(k) ==
  CASE fate[k] = "success"  -> { "success", "unknown" }
    [] fate[k] = "reverted" -> { "reverted", "unknown" }
    [] OTHER                -> { "missing" }

GetReceipt(c) ==
  /\ At(c, "receipt")
  /\ \E receipt \in ReceiptOf(Item(c)) :
       IF receipt = "success" THEN Goto(c, "projection", pass[c])
       ELSE Concluded(c, FromReceipt(receipt, timedOut(Copy(c))))
  /\ UNCHANGED << worldVars, faults, ledger, bound, checking >>

ProjectionAfterReceipt(c) ==
  /\ At(c, "projection")
  /\ Concluded(c, FromProjection(submissionProjectionConfirmation(Item(c))))
  /\ UNCHANGED << worldVars, faults, ledger, bound, checking >>

Reconciled(r, kind) ==
  LET status == SubmissionStatus(kind, r.status, r.hasTx) IN
  [ r EXCEPT !.status = status, !.deadLetter = DeadLetter(kind, status), !.checked = kind ]

(* The copy is written back whole.                                         *)
StoreSubmission(c) ==
  /\ At(c, "store")
  /\ ledger' = [ ledger EXCEPT ![Item(c)] = Reconciled(Copy(c), pass[c].kind) ]
  /\ Goto(c, "item", Advance(c))
  /\ UNCHANGED << worldVars, faults, bound, checking >>

-----------------------------------------------------------------------------
(* A call about one record throws: the pass goes on with the next.         *)
ItemFails(c) ==
  /\ pc[c] \in ItemSteps
  /\ faults < MaxFaults
  /\ faults' = faults + 1
  /\ Goto(c, "item", Advance(c))
  /\ UNCHANGED << worldVars, ledger, bound, checking >>

(* Reading a page throws: the pass ends, and finally clears the guard.     *)
PageFails(c) ==
  /\ At(c, "fetch")
  /\ faults < MaxFaults
  /\ faults' = faults + 1
  /\ checking' = FALSE
  /\ Goto(c, "idle", NoPass)
  /\ UNCHANGED << worldVars, ledger, bound >>

Crash ==
  /\ faults < MaxFaults
  /\ faults' = faults + 1
  /\ checking' = FALSE
  /\ pc' = [ c \in Callers |-> "idle" ] /\ pass' = [ c \in Callers |-> NoPass ]
  /\ UNCHANGED << worldVars, ledger, bound >>

Tick ==
  /\ clock < MaxClock
  /\ clock' = clock + 1
  /\ UNCHANGED << faults, ledger, bound, fate, projected, checking, pc, pass >>

Mine(k) ==
  /\ fate[k] = "pending"
  /\ ledger[k] = NoRecord \/ ledger[k].hasTx
  /\ \E f \in { "success", "reverted" } : fate' = [ fate EXCEPT ![k] = f ]
  /\ UNCHANGED << clock, faults, ledger, bound, projected, checking, pc, pass >>

Index(k) ==
  /\ fate[k] = "success" /\ k \notin projected
  /\ projected' = projected \cup {k}
  /\ UNCHANGED << clock, faults, ledger, bound, fate, checking, pc, pass >>

PassStep(c) ==
  \/ FetchPage(c) \/ NextPage(c) \/ SweepEnds(c) \/ PassEnds(c)
  \/ \E k \in Keys : SkipItem(c, k) \/ SweepItem(c, k) \/ CheckItem(c, k)
  \/ GetProof(c) \/ bindEvidence(c)
  \/ ProjectionBeforeReceipt(c) \/ GetReceipt(c)
  \/ ProjectionAfterReceipt(c) \/ StoreSubmission(c)

Next ==
  \/ \E k \in Keys : Submit(k) \/ SubmitBinds(k) \/ Mine(k) \/ Index(k)
  \/ \E c \in Callers : runOnce(c) \/ PassStep(c) \/ ItemFails(c) \/ PageFails(c)
  \/ Crash \/ Tick

Spec == Init /\ [][Next]_vars

(* The timer starts a pass whenever none is running, sooner or later, and  *)
(* every call of a pass returns or throws.                                 *)
FairSpec ==
  /\ Spec
  /\ WF_vars(\E c \in Callers : runOnce(c))
  /\ \A c \in Callers : WF_vars(PassStep(c))

-----------------------------------------------------------------------------
(* A pass covers the backlog: when it ends, every submission that was to   *)
(* be checked when its second scan began has been checked, or skipped by   *)
(* an error of its own, however many pages it took and whatever was        *)
(* confirmed or inserted meanwhile.                                        *)
PassCoversBacklog ==
  [][ \A c \in Callers : PassEnds(c) => pass[c].due \subseteq pass[c].visited ]_vars

(* Confirmed is final: no pass working on an older copy takes it back.     *)
ConfirmedIsFinal ==
  [][ \A k \in Keys : ledger[k].status = "confirmed" => ledger'[k].status = "confirmed" ]_vars

(* The worker gives a submission up for good only if its transaction       *)
(* reverted, and confirms only what the indexer projected.                 *)
VerdictIsChainFact ==
  \A k \in Keys : ledger[k].checked # "none" =>
    /\ ledger[k].deadLetter => fate[k] = "reverted"
    /\ ledger[k].status = "confirmed" => k \in projected

(* A stored submission whose signal is projected is eventually confirmed,  *)
(* whatever failure was recorded first.                                    *)
SubmissionHeals ==
  \A k \in Keys : (ledger[k].hasTx /\ k \in projected) ~> ledger[k].status = "confirmed"

-----------------------------------------------------------------------------
(* The inductive invariant.  What is true of each caller's pass:           *)

(* nothing is left of a pass that ended, and of a page before the next is  *)
(* read;                                                                   *)
NothingLeft(c) ==
  /\ pc[c] = "idle"  => pass[c] = NoPass
  /\ pc[c] = "fetch" => pass[c].page = {}

(* the copies of a page stay current, for nobody but the pass rewrites a   *)
(* stored record;                                                          *)
CopiesCurrent(c) ==
  \A k \in pass[c].page : pass[c].copies[k] = ledger[k] /\ ledger[k].status \in Open

(* the record being worked on is one of the page;                          *)
ItemOfPage(c) ==
  pc[c] \in ItemSteps =>
    /\ Item(c) \in pass[c].page
    /\ pc[c] \in CheckSteps => isReconcileableSubmission(Copy(c))

(* the conclusion about to be stored is still a fact of the chain;         *)
ConclusionIsChainFact(c) ==
  pc[c] = "store" =>
    /\ pass[c].kind = "failed" => fate[Item(c)] = "reverted"
    /\ pass[c].kind = "confirmed" => Item(c) \in projected

(* a record still to be checked is in the page or ahead of the cursor, and *)
(* then the page is not the last one.                                      *)
BacklogAhead(c) ==
  pass[c].scan = "check" =>
    \A k \in pass[c].due :
      \/ k \in pass[c].visited \/ k \in pass[c].page
      \/ k > pass[c].cursor /\ ledger[k].status \in Open /\ ~pass[c].last

PassInv(c) == /\ NothingLeft(c) /\ CopiesCurrent(c) /\ ItemOfPage(c)
              /\ ConclusionIsChainFact(c) /\ BacklogAhead(c)

(* One pass at a time.                                                     *)
OnePass ==
  /\ \A c \in Callers : pc[c] # "idle" => checking
  /\ \A c, d \in Callers : pc[c] # "idle" /\ pc[d] # "idle" => c = d

IndInv == TypeOK /\ OnePass /\ (\A c \in Callers : PassInv(c)) /\ VerdictIsChainFact
=============================================================================
