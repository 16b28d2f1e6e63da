----------------------- MODULE ReconcileWorkerProofs -----------------------
(***************************************************************************)
(* Theorems about the passes of the reconcile worker, for any number of    *)
(* callers, submissions and faults and any page size: IndInv of            *)
(* ReconcileWorker is inductive, and the safety properties follow from it. *)
(***************************************************************************)
EXTENDS ReconcileWorker, FiniteSetTheorems, TLAPS

-----------------------------------------------------------------------------
(* Types of what the passes work on.                                       *)
LEMMA NoRecordType == NoRecord \in Record
BY DEF NoRecord, Record, Status, Kinds

LEMMA NoPassType == NoPass \in Pass
BY NoRecordType DEF NoPass, Pass, Kinds, Keys

LEMMA KeysType == Keys \subseteq Nat /\ 0 \notin Keys
BY WorkerConstants DEF Keys

(* Passing a record keeps the locals of a pass well formed.                *)
LEMMA PassedType ==
  ASSUME NEW l \in Pass, NEW k \in Keys
  PROVE  /\ Passed(l, k) \in Pass
         /\ Passed(l, k).page = l.page \ {k}
         /\ Passed(l, k).visited = l.visited \cup {k}
         /\ \A m \in Keys \ {k} : Passed(l, k).copies[m] = l.copies[m]
         /\ Passed(l, k).scan = l.scan /\ Passed(l, k).due = l.due
         /\ Passed(l, k).cursor = l.cursor /\ Passed(l, k).last = l.last
BY NoRecordType DEF Passed, Pass

(* What a worker stores for a conclusion is a record.                      *)
LEMMA ReconciledType ==
  ASSUME NEW r \in Record, NEW kind \in Kinds
  PROVE  Reconciled(r, kind) \in Record
BY DEF Reconciled, Record, SubmissionStatus, DeadLetter, Retryable, Status, Kinds

(* A step of one caller leaves the locals of the others alone.             *)
LEMMA GotoUpdates ==
  ASSUME pc \in [ Callers -> Steps ], pass \in [ Callers -> Pass ],
         NEW c \in Callers, NEW s \in Steps, NEW l \in Pass, Goto(c, s, l)
  PROVE  /\ pc' \in [ Callers -> Steps ] /\ pass' \in [ Callers -> Pass ]
         /\ pc'[c] = s /\ pass'[c] = l
         /\ \A d \in Callers : d # c => pc'[d] = pc[d] /\ pass'[d] = pass[d]
BY DEF Goto

(* An idle caller has nothing to keep.                                     *)
LEMMA IdlePassInv ==
  ASSUME NEW c \in Callers, pc[c] = "idle", pass[c] = NoPass
  PROVE  PassInv(c)
BY DEF PassInv, NothingLeft, CopiesCurrent, ItemOfPage, ConclusionIsChainFact,
       BacklogAhead, NoPass, ItemSteps, CheckSteps

LEMMA IdlePassInvNext ==
  ASSUME NEW c \in Callers, pc'[c] = "idle", pass'[c] = NoPass
  PROVE  PassInv(c)'
BY DEF PassInv, NothingLeft, CopiesCurrent, ItemOfPage, ConclusionIsChainFact,
       BacklogAhead, NoPass, ItemSteps, CheckSteps

(* A step of the running pass: what remains to be shown is its own part.   *)
LEMMA RunningPassStep ==
  ASSUME IndInv, NEW c \in Callers, pc[c] # "idle",
         \A d \in Callers : d # c => pc'[d] = pc[d] /\ pass'[d] = pass[d],
         pc'[c] # "idle" => checking' = checking,
         TypeOK', PassInv(c)', VerdictIsChainFact'
  PROVE  IndInv'
<1>1. \A d \in Callers : d # c => pc'[d] = "idle" /\ pass'[d] = NoPass
  BY DEF IndInv, OnePass, PassInv, NothingLeft
<1>2. \A d \in Callers : PassInv(d)'
  BY <1>1, IdlePassInvNext
<1>3. OnePass'
  BY <1>1 DEF IndInv, OnePass
<1> QED BY <1>2, <1>3 DEF IndInv

-----------------------------------------------------------------------------
LEMMA InitInv == Init => IndInv
<1> SUFFICES ASSUME Init PROVE IndInv
  OBVIOUS
<1>1. TypeOK
  BY NoRecordType, NoPassType DEF Init, TypeOK, Steps
<1>2. \A c \in Callers : PassInv(c)
  BY IdlePassInv DEF Init
<1>3. VerdictIsChainFact
  BY DEF Init, VerdictIsChainFact, NoRecord
<1> QED BY <1>1, <1>2, <1>3 DEF IndInv, OnePass, Init

(* Steps that leave the ledger, the chain and the projections alone keep   *)
(* the verdicts.                                                           *)
LEMMA VerdictsKept ==
  ASSUME VerdictIsChainFact, UNCHANGED << ledger, fate, projected >>
  PROVE  VerdictIsChainFact'
BY DEF VerdictIsChainFact

(* Nobody's pass is disturbed by the steps of the submit lane and of the   *)
(* world.                                                                  *)
LEMMA SubmitKeeps ==
  ASSUME IndInv, NEW k \in Keys, Submit(k)
  PROVE  IndInv'
<1> USE DEF IndInv
<1>1. PICK r \in Stored(k) : ledger' = [ ledger EXCEPT ![k] = r ]
  BY DEF Submit
<1>2. r \in Record
  BY WorkerConstants DEF Stored, Record, Status, TypeOK
<1>3. r.checked = "none"
  BY DEF Stored
<1>4. TypeOK'
  BY <1>1, <1>2 DEF Submit, worldVars, TypeOK
<1>5. ledger[k].status \notin Open /\ \A m \in Keys \ {k} : ledger'[m] = ledger[m]
  BY <1>1 DEF Submit, NoRecord, Open, TypeOK
<1>6. VerdictIsChainFact'
  BY <1>1, <1>3, <1>5 DEF Submit, worldVars, VerdictIsChainFact, TypeOK
<1>7. ASSUME NEW c \in Callers PROVE PassInv(c)'
  <2>1. PassInv(c) /\ pass[c] \in Pass /\ pass' = pass /\ pc' = pc /\ fate' = fate
          /\ projected' = projected
    BY DEF Submit, worldVars, TypeOK
  <2>2. pass[c].page \subseteq Keys /\ pass[c].due \subseteq Keys
    BY <2>1 DEF Pass
  <2>3. CopiesCurrent(c)'
    BY <2>1, <2>2, <1>5 DEF PassInv, CopiesCurrent
  <2>4. BacklogAhead(c)'
    BY <2>1, <2>2, <1>5 DEF PassInv, BacklogAhead
  <2> QED BY <2>1, <2>3, <2>4 DEF PassInv, NothingLeft, ItemOfPage, ConclusionIsChainFact,
             Item, Copy
<1>8. OnePass'
  BY DEF Submit, OnePass
<1> QED BY <1>4, <1>6, <1>7, <1>8

LEMMA SubmitBindsKeeps ==
  ASSUME IndInv, NEW k \in Keys, SubmitBinds(k)
  PROVE  IndInv'
BY DEF SubmitBinds, worldVars, IndInv, TypeOK, OnePass, PassInv, NothingLeft, CopiesCurrent,
       ItemOfPage, ConclusionIsChainFact, BacklogAhead, Item, Copy, VerdictIsChainFact

LEMMA MineKeeps ==
  ASSUME IndInv, NEW k \in Keys, Mine(k)
  PROVE  IndInv'
<1> USE DEF IndInv
<1>1. PICK f \in { "success", "reverted" } : fate' = [ fate EXCEPT ![k] = f ]
  BY DEF Mine
<1>2. TypeOK'
  BY <1>1 DEF Mine, TypeOK
<1>3. \A m \in Keys : fate[m] = "reverted" => fate'[m] = "reverted"
  BY <1>1 DEF Mine, TypeOK
<1>4. VerdictIsChainFact'
  BY <1>3 DEF Mine, VerdictIsChainFact
<1>5. ASSUME NEW c \in Callers PROVE PassInv(c)'
  <2>1. PassInv(c) /\ pass[c] \in Pass /\ UNCHANGED << pass, pc, ledger, projected >>
    BY DEF Mine, TypeOK
  <2>2. pc[c] = "store" => Item(c) \in Keys
    BY <2>1 DEF PassInv, ItemOfPage, Item, Pass, ItemSteps, CheckSteps
  <2>3. ConclusionIsChainFact(c)'
    BY <2>1, <2>2, <1>3 DEF PassInv, ConclusionIsChainFact, Item
  <2> QED BY <2>1, <2>3 DEF PassInv, NothingLeft, CopiesCurrent, ItemOfPage, BacklogAhead,
             Item, Copy
<1>6. OnePass'
  BY DEF Mine, OnePass
<1> QED BY <1>2, <1>4, <1>5, <1>6

LEMMA IndexKeeps ==
  ASSUME IndInv, NEW k \in Keys, Index(k)
  PROVE  IndInv'
<1> USE DEF IndInv
<1>1. TypeOK'
  BY DEF Index, TypeOK
<1>2. VerdictIsChainFact'
  BY DEF Index, VerdictIsChainFact
<1>3. ASSUME NEW c \in Callers PROVE PassInv(c)'
  BY <1>3 DEF Index, PassInv, NothingLeft, CopiesCurrent, ItemOfPage, ConclusionIsChainFact,
              BacklogAhead, Item, Copy
<1>4. OnePass'
  BY DEF Index, OnePass
<1> QED BY <1>1, <1>2, <1>3, <1>4

LEMMA TickKeeps ==
  ASSUME IndInv, Tick
  PROVE  IndInv'
BY DEF Tick, IndInv, TypeOK, OnePass, PassInv, NothingLeft, CopiesCurrent,
       ItemOfPage, ConclusionIsChainFact, BacklogAhead, Item, Copy, VerdictIsChainFact

LEMMA CrashKeeps ==
  ASSUME IndInv, Crash
  PROVE  IndInv'
<1>1. TypeOK'
  <2>1. pc' \in [ Callers -> Steps ] /\ pass' \in [ Callers -> Pass ]
    BY NoPassType DEF Crash, Steps
  <2>2. checking' \in BOOLEAN /\ UNCHANGED << clock, fate, projected, ledger, bound >>
    BY DEF Crash, worldVars
  <2>3. faults' \in Nat
    BY DEF Crash, IndInv, TypeOK
  <2> QED BY <2>1, <2>2, <2>3 DEF IndInv, TypeOK
<1>2. \A c \in Callers : PassInv(c)'
  BY IdlePassInvNext DEF Crash
<1>3. VerdictIsChainFact'
  BY VerdictsKept DEF Crash, worldVars, IndInv
<1> QED BY <1>1, <1>2, <1>3 DEF IndInv, OnePass, Crash

-----------------------------------------------------------------------------
(* The steps of a pass.                                                    *)
LEMMA RunOnceKeeps ==
  ASSUME IndInv, NEW c \in Callers, runOnce(c)
  PROVE  IndInv'
<1> USE DEF IndInv
<1>1. /\ pc' \in [ Callers -> Steps ] /\ pass' \in [ Callers -> Pass ]
      /\ pc'[c] = "fetch" /\ pass'[c] = NoPass
      /\ \A d \in Callers : d # c => pc'[d] = pc[d] /\ pass'[d] = pass[d]
  BY NoPassType, GotoUpdates DEF runOnce, TypeOK, Steps
<1>2. \A d \in Callers : pc[d] = "idle" /\ pass[d] = NoPass
  BY DEF runOnce, OnePass, PassInv, NothingLeft
<1>3. TypeOK'
  BY <1>1 DEF runOnce, worldVars, TypeOK
<1>4. ASSUME NEW d \in Callers PROVE PassInv(d)'
  <2>1. CASE d = c
    BY <1>1, <2>1 DEF PassInv, NothingLeft, CopiesCurrent, ItemOfPage,
       ConclusionIsChainFact, BacklogAhead, NoPass, ItemSteps, CheckSteps
  <2>2. CASE d # c
    BY <1>1, <1>2, <2>2, IdlePassInvNext
  <2> QED BY <2>1, <2>2
<1>5. OnePass'
  BY <1>1, <1>2 DEF runOnce, OnePass
<1>6. VerdictIsChainFact'
  BY VerdictsKept DEF runOnce, worldVars
<1> QED BY <1>3, <1>4, <1>5, <1>6

(* A page is a closed part of the open rows ahead of the cursor: a row     *)
(* that is not in it lies ahead of the new cursor, and another page        *)
(* follows.                                                                *)
LEMMA PageSplitsRows ==
  ASSUME NEW page \in SUBSET Keys, NEW old \in Nat, NEW cursor \in Nat,
         Limited(page, OpenAfter(old)),
         IF page = {} THEN cursor = old ELSE Greatest(cursor, page),
         NEW k \in OpenAfter(old), k \notin page
  PROVE  k > cursor /\ ~(Cardinality(page) < PageSize)
<1>1. page # OpenAfter(old)
  OBVIOUS
<1>2. Cardinality(page) = PageSize
  BY <1>1 DEF Limited
<1>3. page # {}
  BY <1>2, FS_EmptySet, WorkerConstants
<1>4. cursor \in page /\ cursor \in OpenAfter(old)
  BY <1>3 DEF Greatest, Limited
<1>5. k \in Nat /\ ~(k < cursor) /\ k # cursor
  BY <1>4, KeysType DEF Limited, OpenAfter, OpenRows
<1> QED BY <1>2, <1>5, WorkerConstants

LEMMA FetchPageKeeps ==
  ASSUME IndInv, NEW c \in Callers, FetchPage(c)
  PROVE  IndInv'
<1> USE DEF IndInv
<1> DEFINE old == pass[c]
<1>1. old \in Pass /\ pc[c] = "fetch" /\ PassInv(c) /\ old.page = {}
  BY DEF FetchPage, At, TypeOK, PassInv, NothingLeft
<1>2. PICK page \in SUBSET Keys, cursor \in Keys \cup {0} :
        /\ listOpenSubmissionsPage(page, old.cursor)
        /\ IF page = {} THEN cursor = old.cursor ELSE Greatest(cursor, page)
        /\ Goto(c, "item",
             [ old EXCEPT
                 !.page = page,
                 !.copies = [ k \in Keys |-> IF k \in page THEN ledger[k] ELSE NoRecord ],
                 !.last = Cardinality(page) < PageSize,
                 !.cursor = cursor,
                 !.due = IF old.scan = "check" /\ old.cursor = 0
                           THEN { k \in Keys : isReconcileableSubmission(ledger[k]) }
                           ELSE @ ])
  BY DEF FetchPage
<1> DEFINE copies == [ k \in Keys |-> IF k \in page THEN ledger[k] ELSE NoRecord ]
           due == IF old.scan = "check" /\ old.cursor = 0
                    THEN { k \in Keys : isReconcileableSubmission(ledger[k]) }
                    ELSE old.due
           last == Cardinality(page) < PageSize
           new == [ old EXCEPT !.page = page, !.copies = copies, !.last = last,
                               !.cursor = cursor, !.due = due ]
<1>3. copies \in [ Keys -> Record ] /\ \A k \in page : copies[k] = ledger[k]
  BY NoRecordType DEF TypeOK
<1>4. due \subseteq Keys
  BY <1>1 DEF Pass
<1>5. cursor \in Nat
  BY KeysType
<1>l. last \in BOOLEAN
  OBVIOUS
<1> HIDE DEF copies, due, last
<1>6. new \in Pass /\ new.page = page /\ new.copies = copies /\ new.due = due
        /\ new.cursor = cursor /\ new.last = last
        /\ new.scan = old.scan /\ new.visited = old.visited
  BY <1>1, <1>3, <1>4, <1>5, <1>l DEF Pass
<1>7. Goto(c, "item", new)
  BY <1>2 DEF copies, due, last
<1> HIDE DEF new
<1>8. /\ pc' \in [ Callers -> Steps ] /\ pass' \in [ Callers -> Pass ]
      /\ pc'[c] = "item" /\ pass'[c] = new
      /\ \A d \in Callers : d # c => pc'[d] = pc[d] /\ pass'[d] = pass[d]
  BY <1>6, <1>7, GotoUpdates DEF TypeOK, Steps
<1>9. UNCHANGED << clock, fate, projected, faults, ledger, bound, checking >>
  BY DEF FetchPage, worldVars
<1>10. TypeOK'
  BY <1>8, <1>9 DEF TypeOK
<1>11. CopiesCurrent(c)'
  <2>1. page \subseteq OpenRows
    BY <1>2 DEF listOpenSubmissionsPage, Limited, OpenAfter
  <2> QED BY <2>1, <1>3, <1>6, <1>8, <1>9 DEF CopiesCurrent, OpenRows
<1>12. BacklogAhead(c)'
  <2> SUFFICES ASSUME old.scan = "check", NEW k \in due, k \notin page, k \notin old.visited
               PROVE  /\ k > cursor /\ ledger[k].status \in Open
                      /\ ~last
    BY <1>6, <1>8, <1>9 DEF BacklogAhead
  <2>1. old.cursor \in Nat /\ k \in Keys
    BY <1>1, <1>4 DEF Pass
  <2>2. k \in OpenAfter(old.cursor)
    <3>1. CASE old.cursor = 0
      BY <2>1, <3>1, KeysType DEF due, OpenAfter, OpenRows, isReconcileableSubmission, Open
    <3>2. CASE old.cursor # 0
      BY <1>1, <2>1, <3>2 DEF due, PassInv, BacklogAhead, OpenAfter, OpenRows
    <3> QED BY <3>1, <3>2
  <2>3. k > cursor /\ ~last
    BY <1>2, <1>5, <2>1, <2>2, PageSplitsRows DEF listOpenSubmissionsPage, last
  <2> QED BY <2>2, <2>3 DEF OpenAfter, OpenRows
<1>13. PassInv(c)'
  BY <1>8, <1>11, <1>12 DEF PassInv, NothingLeft, ItemOfPage, ConclusionIsChainFact,
     ItemSteps, CheckSteps
<1>14. VerdictIsChainFact'
  BY <1>9, VerdictsKept
<1> QED BY <1>1, <1>8, <1>9, <1>10, <1>13, <1>14, RunningPassStep

(* Steps of the running pass that leave the ledger and the world alone and *)
(* pass over some records of the page, if any.                             *)
LEMMA PassMoves ==
  ASSUME IndInv, NEW c \in Callers, pc[c] # "idle",
         NEW s \in Steps \ {"idle"}, NEW l \in Pass, Goto(c, s, l),
         UNCHANGED << clock, fate, projected, ledger, checking >>,
         faults' \in Nat, bound' \in SUBSET Keys,
         l.page \subseteq pass[c].page, l.page \cup l.visited = pass[c].page \cup pass[c].visited,
         \A k \in l.page : l.copies[k] = pass[c].copies[k],
         l.scan = pass[c].scan, l.due = pass[c].due, l.cursor = pass[c].cursor,
         l.last = pass[c].last,
         s = "fetch" => l.page = {},
         s \in ItemSteps => l.item \in l.page,
         s \in CheckSteps => isReconcileableSubmission(l.copies[l.item]),
         s = "store" => /\ l.kind = "failed" => fate[l.item] = "reverted"
                        /\ l.kind = "confirmed" => l.item \in projected
  PROVE  IndInv'
<1> USE DEF IndInv
<1>1. /\ pc' \in [ Callers -> Steps ] /\ pass' \in [ Callers -> Pass ]
      /\ pc'[c] = s /\ pass'[c] = l
      /\ \A d \in Callers : d # c => pc'[d] = pc[d] /\ pass'[d] = pass[d]
  BY GotoUpdates DEF TypeOK
<1>2. TypeOK'
  BY <1>1 DEF TypeOK
<1>3. PassInv(c)'
  <2>1. CopiesCurrent(c) /\ BacklogAhead(c)
    BY DEF PassInv
  <2>2. CopiesCurrent(c)'
    BY <1>1, <2>1 DEF CopiesCurrent
  <2>3. BacklogAhead(c)'
    BY <1>1, <2>1 DEF BacklogAhead
  <2>4. NothingLeft(c)'
    BY <1>1 DEF NothingLeft
  <2>5. ItemOfPage(c)'
    BY <1>1 DEF ItemOfPage, Item, Copy
  <2>6. ConclusionIsChainFact(c)'
    BY <1>1 DEF ConclusionIsChainFact, Item
  <2> QED BY <2>2, <2>3, <2>4, <2>5, <2>6 DEF PassInv
<1>4. VerdictIsChainFact'
  BY VerdictsKept
<1> QED BY <1>1, <1>2, <1>3, <1>4, RunningPassStep

(* Passing a record of the page is such a step.                            *)
LEMMA PassedMoves ==
  ASSUME IndInv, NEW c \in Callers, pc[c] # "idle",
         NEW k \in pass[c].page, Goto(c, "item", Passed(pass[c], k)),
         UNCHANGED << clock, fate, projected, ledger, checking >>,
         faults' \in Nat, bound' \in SUBSET Keys
  PROVE  IndInv'
<1> DEFINE l == Passed(pass[c], k)
<1>1. pass[c] \in Pass /\ pass[c].page \subseteq Keys /\ k \in Keys
  BY DEF IndInv, TypeOK, Pass
<1>2. /\ l \in Pass /\ l.page = pass[c].page \ {k} /\ l.visited = pass[c].visited \cup {k}
      /\ \A m \in l.page : l.copies[m] = pass[c].copies[m]
      /\ l.scan = pass[c].scan /\ l.due = pass[c].due
      /\ l.cursor = pass[c].cursor /\ l.last = pass[c].last
  BY <1>1, PassedType
<1>3. "item" \in Steps \ {"idle"} /\ "item" \notin ItemSteps /\ "item" \notin CheckSteps
  BY DEF Steps, ItemSteps, CheckSteps
<1>4. l.page \subseteq pass[c].page /\ l.page \cup l.visited = pass[c].page \cup pass[c].visited
  BY <1>2
<1>5. Goto(c, "item", l)
  OBVIOUS
<1> HIDE DEF l
<1> QED BY <1>2, <1>3, <1>4, <1>5, PassMoves

(* At the steps about one record, the record is one of the page.           *)
LEMMA ItemFacts ==
  ASSUME IndInv, NEW c \in Callers, pc[c] \in ItemSteps
  PROVE  /\ pc[c] # "idle" /\ pass[c] \in Pass /\ Item(c) \in pass[c].page /\ Item(c) \in Keys
         /\ Copy(c) = ledger[Item(c)] /\ Copy(c) \in Record /\ Copy(c).status \in Open
         /\ pc[c] \in CheckSteps => isReconcileableSubmission(Copy(c))
BY DEF IndInv, TypeOK, PassInv, ItemOfPage, CopiesCurrent, Item, Copy, Pass, ItemSteps,
       CheckSteps

LEMMA PagingKeeps ==
  ASSUME IndInv, NEW c \in Callers,
         NextPage(c) \/ \E k \in Keys : SkipItem(c, k) \/ SweepItem(c, k) \/ CheckItem(c, k)
  PROVE  IndInv'
<1>a. /\ pass[c] \in Pass /\ bound \in SUBSET Keys /\ faults \in Nat /\ pc[c] = "item"
      /\ pass[c].page \subseteq Keys
  BY DEF IndInv, TypeOK, Pass, NextPage, SkipItem, SweepItem, CheckItem, At
<1>b. UNCHANGED << clock, fate, projected, ledger, checking, faults, bound >>
  BY DEF NextPage, SkipItem, SweepItem, CheckItem, worldVars
<1>c. { "fetch", "proof", "check" } \subseteq Steps \ {"idle"}
  BY DEF Steps, ItemSteps, CheckSteps
<1>1. CASE NextPage(c)
  <2>1. Goto(c, "fetch", pass[c]) /\ pass[c].page = {}
    BY <1>1 DEF NextPage
  <2>2. "fetch" \notin ItemSteps /\ "fetch" \notin CheckSteps
    BY DEF ItemSteps, CheckSteps
  <2> QED BY <1>a, <1>b, <1>c, <2>1, <2>2, PassMoves
<1>2. ASSUME NEW k \in Keys, SkipItem(c, k) PROVE IndInv'
  BY <1>2, <1>a, <1>b, PassedMoves DEF SkipItem, Least
<1>3. ASSUME NEW k \in Keys, SweepItem(c, k) PROVE IndInv'
  <2> DEFINE l == [ pass[c] EXCEPT !.item = k ]
  <2>1. /\ l \in Pass /\ l.page = pass[c].page /\ l.visited = pass[c].visited
        /\ l.copies = pass[c].copies /\ l.scan = pass[c].scan /\ l.due = pass[c].due
        /\ l.cursor = pass[c].cursor /\ l.last = pass[c].last /\ l.item = k
    BY <1>a DEF Pass
  <2>2. Goto(c, "proof", l) /\ k \in pass[c].page /\ "proof" \notin CheckSteps
    BY <1>3 DEF SweepItem, Least, CheckSteps
  <2> HIDE DEF l
  <2> QED BY <1>a, <1>b, <1>c, <2>1, <2>2, PassMoves
<1>4. ASSUME NEW k \in Keys, CheckItem(c, k) PROVE IndInv'
  <2> DEFINE l == [ pass[c] EXCEPT !.item = k ]
  <2>1. /\ l \in Pass /\ l.page = pass[c].page /\ l.visited = pass[c].visited
        /\ l.copies = pass[c].copies /\ l.scan = pass[c].scan /\ l.due = pass[c].due
        /\ l.cursor = pass[c].cursor /\ l.last = pass[c].last /\ l.item = k
    BY <1>a DEF Pass
  <2>2. Goto(c, "check", l) /\ k \in pass[c].page
          /\ isReconcileableSubmission(pass[c].copies[k])
    BY <1>4 DEF CheckItem, Least
  <2> HIDE DEF l
  <2> QED BY <1>a, <1>b, <1>c, <2>1, <2>2, PassMoves
<1> QED BY <1>1, <1>2, <1>3, <1>4

(* A pass that ends, by itself or because a page could not be read.        *)
LEMMA EndKeeps ==
  ASSUME IndInv, NEW c \in Callers, PassEnds(c) \/ PageFails(c)
  PROVE  IndInv'
<1>0. checking' \in BOOLEAN
  BY DEF PassEnds, PageFails
<1>1. /\ pc[c] # "idle" /\ Goto(c, "idle", NoPass) /\ faults' \in Nat
      /\ UNCHANGED << clock, fate, projected, ledger, bound >>
  BY DEF PassEnds, PageFails, At, worldVars, IndInv, TypeOK
<1>2. /\ pc' \in [ Callers -> Steps ] /\ pass' \in [ Callers -> Pass ]
      /\ pc'[c] = "idle" /\ pass'[c] = NoPass
      /\ \A d \in Callers : d # c => pc'[d] = pc[d] /\ pass'[d] = pass[d]
  BY <1>1, NoPassType, GotoUpdates DEF IndInv, TypeOK, Steps
<1>3. TypeOK'
  BY <1>0, <1>1, <1>2 DEF IndInv, TypeOK
<1>4. PassInv(c)'
  BY <1>2, IdlePassInvNext
<1>5. VerdictIsChainFact'
  BY <1>1, VerdictsKept DEF IndInv
<1> QED BY <1>1, <1>2, <1>3, <1>4, <1>5, RunningPassStep

LEMMA SweepEndsKeeps ==
  ASSUME IndInv, NEW c \in Callers, SweepEnds(c)
  PROVE  IndInv'
<1> DEFINE l == [ NoPass EXCEPT !.scan = "check" ]
<1>1. l \in Pass /\ l.page = {} /\ l.due = {}
  BY NoPassType DEF NoPass, Pass
<1>2. /\ pc[c] # "idle" /\ Goto(c, "fetch", l)
      /\ UNCHANGED << clock, fate, projected, faults, ledger, bound, checking >>
  BY DEF SweepEnds, At, worldVars
<1> HIDE DEF l
<1>3. /\ pc' \in [ Callers -> Steps ] /\ pass' \in [ Callers -> Pass ]
      /\ pc'[c] = "fetch" /\ pass'[c] = l
      /\ \A d \in Callers : d # c => pc'[d] = pc[d] /\ pass'[d] = pass[d]
  BY <1>1, <1>2, GotoUpdates DEF IndInv, TypeOK, Steps
<1>4. TypeOK'
  BY <1>2, <1>3 DEF IndInv, TypeOK
<1>5. PassInv(c)'
  BY <1>1, <1>3 DEF PassInv, NothingLeft, CopiesCurrent, ItemOfPage, ConclusionIsChainFact,
     BacklogAhead, ItemSteps, CheckSteps
<1>6. VerdictIsChainFact'
  BY <1>2, VerdictsKept DEF IndInv
<1> QED BY <1>2, <1>3, <1>4, <1>5, <1>6, RunningPassStep

(* The evidence sweep, and a failing call about one record.                *)
LEMMA SweepKeeps ==
  ASSUME IndInv, NEW c \in Callers, GetProof(c) \/ bindEvidence(c) \/ ItemFails(c)
  PROVE  IndInv'
<1>1. /\ pc[c] \in ItemSteps /\ faults' \in Nat
      /\ UNCHANGED << clock, fate, projected, ledger, checking >>
  BY DEF GetProof, bindEvidence, ItemFails, At, ItemSteps, worldVars, IndInv, TypeOK
<1>2. /\ pc[c] # "idle" /\ pass[c] \in Pass /\ Item(c) \in pass[c].page /\ Item(c) \in Keys
  BY <1>1, ItemFacts
<1>3. bound' \in SUBSET Keys
  BY <1>2 DEF GetProof, bindEvidence, ItemFails, IndInv, TypeOK
<1>4. CASE Goto(c, "item", Advance(c))
  BY <1>1, <1>2, <1>3, <1>4, PassedMoves DEF Advance
<1>5. CASE At(c, "proof") /\ Goto(c, "bind", pass[c])
  <2>1. "bind" \in Steps \ {"idle"} /\ "bind" \notin CheckSteps
    BY DEF Steps, ItemSteps, CheckSteps
  <2> QED BY <1>1, <1>2, <1>3, <1>5, <2>1, PassMoves DEF Item
<1> QED BY <1>4, <1>5 DEF GetProof, bindEvidence, ItemFails

(* The check of one submission, up to its conclusion.                      *)
LEMMA CheckKeeps ==
  ASSUME IndInv, NEW c \in Callers,
         ProjectionBeforeReceipt(c) \/ GetReceipt(c) \/ ProjectionAfterReceipt(c)
  PROVE  IndInv'
<1>1. /\ pc[c] \in CheckSteps /\ pc[c] \in ItemSteps
      /\ UNCHANGED << clock, fate, projected, faults, ledger, bound, checking >>
  BY DEF ProjectionBeforeReceipt, GetReceipt, ProjectionAfterReceipt, At, ItemSteps, CheckSteps,
         worldVars
<1>2. /\ pc[c] # "idle" /\ pass[c] \in Pass /\ Item(c) \in pass[c].page /\ Item(c) \in Keys
      /\ isReconcileableSubmission(Copy(c))
  BY <1>1, ItemFacts
<1>3. bound \in SUBSET Keys /\ faults \in Nat
  BY DEF IndInv, TypeOK
<1>4. ASSUME NEW s \in { "receipt", "projection" }, Goto(c, s, pass[c]) PROVE IndInv'
  <2>1. s \in Steps \ {"idle"} /\ s # "fetch" /\ s # "store"
    BY DEF Steps, ItemSteps, CheckSteps
  <2> QED BY <1>1, <1>2, <1>3, <1>4, <2>1, PassMoves DEF Item, Copy
<1>5. ASSUME NEW kind \in Kinds, Concluded(c, kind),
             kind = "failed" => fate[Item(c)] = "reverted",
             kind = "confirmed" => Item(c) \in projected
      PROVE  IndInv'
  <2> DEFINE l == [ pass[c] EXCEPT !.kind = kind ]
  <2>1. /\ l \in Pass /\ l.page = pass[c].page /\ l.visited = pass[c].visited
        /\ l.copies = pass[c].copies /\ l.scan = pass[c].scan /\ l.due = pass[c].due
        /\ l.cursor = pass[c].cursor /\ l.last = pass[c].last /\ l.item = Item(c)
        /\ l.kind = kind
    BY <1>2 DEF Pass, Item
  <2>2. Goto(c, "store", l)
    BY <1>5 DEF Concluded
  <2>3. "store" \in Steps \ {"idle"}
    BY DEF Steps, ItemSteps, CheckSteps
  <2> HIDE DEF l
  <2> QED BY <1>1, <1>2, <1>3, <1>5, <2>1, <2>2, <2>3, PassMoves DEF Copy
<1>6. CASE ProjectionBeforeReceipt(c)
  BY <1>4, <1>5, <1>6 DEF ProjectionBeforeReceipt, submissionProjectionConfirmation, Kinds
<1>7. CASE GetReceipt(c)
  <2>1. PICK receipt \in ReceiptOf(Item(c)) :
          IF receipt = "success" THEN Goto(c, "projection", pass[c])
          ELSE Concluded(c, FromReceipt(receipt, timedOut(Copy(c))))
    BY <1>7 DEF GetReceipt
  <2> DEFINE kind == FromReceipt(receipt, timedOut(Copy(c)))
  <2>2. kind \in Kinds /\ kind # "confirmed" /\ (kind = "failed" => receipt = "reverted")
    BY DEF FromReceipt, Unseen, Kinds
  <2>3. receipt = "reverted" => fate[Item(c)] = "reverted"
    BY <2>1 DEF ReceiptOf
  <2>4. receipt # "success" => Concluded(c, kind)
    BY <2>1
  <2> HIDE DEF kind
  <2> QED BY <1>4, <1>5, <2>1, <2>2, <2>3, <2>4
<1>8. CASE ProjectionAfterReceipt(c)
  BY <1>5, <1>8 DEF ProjectionAfterReceipt, FromProjection, submissionProjectionConfirmation, Kinds
<1> QED BY <1>6, <1>7, <1>8

(* The copy is written back: it was current, so nothing else is undone,    *)
(* and the verdict rests on the conclusion.                                *)
LEMMA StoreKeeps ==
  ASSUME IndInv, NEW c \in Callers, StoreSubmission(c)
  PROVE  IndInv' /\ ledger[Item(c)].status # "confirmed"
                 /\ \A k \in Keys \ {Item(c)} : ledger'[k] = ledger[k]
<1> DEFINE item == Item(c)
           l    == Passed(pass[c], item)
           r    == Reconciled(Copy(c), pass[c].kind)
<1>1. /\ pc[c] \in ItemSteps /\ pc[c] = "store"
      /\ UNCHANGED << clock, fate, projected, faults, bound, checking >>
      /\ ledger' = [ ledger EXCEPT ![item] = r ]
      /\ Goto(c, "item", l)
  BY DEF StoreSubmission, At, ItemSteps, CheckSteps, worldVars, Advance
<1>2. /\ pc[c] # "idle" /\ pass[c] \in Pass /\ item \in pass[c].page /\ item \in Keys
      /\ Copy(c) = ledger[item] /\ Copy(c) \in Record /\ Copy(c).status \in Open
  BY <1>1, ItemFacts
<1>3. pass[c].kind \in Kinds /\ pass[c].page \subseteq Keys /\ pass[c].due \subseteq Keys
  BY <1>2 DEF Pass
<1>4. r \in Record
  BY <1>2, <1>3, ReconciledType
<1>5. /\ r.deadLetter => pass[c].kind = "failed"
      /\ r.status = "confirmed" => pass[c].kind = "confirmed"
  BY <1>2, <1>3 DEF Reconciled, Record, SubmissionStatus, DeadLetter, Retryable, Open, Kinds
<1>6. /\ pass[c].kind = "failed" => fate[item] = "reverted"
      /\ pass[c].kind = "confirmed" => item \in projected
  BY <1>1 DEF IndInv, PassInv, ConclusionIsChainFact
<1>7. /\ l \in Pass /\ l.page = pass[c].page \ {item} /\ l.visited = pass[c].visited \cup {item}
      /\ \A m \in l.page : l.copies[m] = pass[c].copies[m]
      /\ l.scan = pass[c].scan /\ l.due = pass[c].due
      /\ l.cursor = pass[c].cursor /\ l.last = pass[c].last
  BY <1>2, <1>3, PassedType
<1> HIDE DEF item, l, r
<1>8. ledger' \in [ Keys -> Record ] /\ ledger'[item] = r
        /\ \A k \in Keys \ {item} : ledger'[k] = ledger[k]
  BY <1>1, <1>2, <1>4 DEF IndInv, TypeOK
<1>9. /\ pc' \in [ Callers -> Steps ] /\ pass' \in [ Callers -> Pass ]
      /\ pc'[c] = "item" /\ pass'[c] = l
      /\ \A d \in Callers : d # c => pc'[d] = pc[d] /\ pass'[d] = pass[d]
  BY <1>1, <1>7, GotoUpdates DEF IndInv, TypeOK, Steps
<1>10. TypeOK'
  BY <1>1, <1>8, <1>9 DEF IndInv, TypeOK
<1>11. VerdictIsChainFact'
  BY <1>1, <1>5, <1>6, <1>8 DEF IndInv, VerdictIsChainFact
<1>12. CopiesCurrent(c)'
  BY <1>3, <1>7, <1>8, <1>9 DEF IndInv, PassInv, CopiesCurrent
<1>13. BacklogAhead(c)'
  BY <1>3, <1>7, <1>8, <1>9 DEF IndInv, PassInv, BacklogAhead
<1>14. PassInv(c)'
  BY <1>9, <1>12, <1>13 DEF PassInv, NothingLeft, ItemOfPage, ConclusionIsChainFact,
     ItemSteps, CheckSteps
<1>15. IndInv'
  BY <1>1, <1>2, <1>9, <1>10, <1>11, <1>14, RunningPassStep
<1> QED BY <1>2, <1>8, <1>15 DEF item, Open

-----------------------------------------------------------------------------
LEMMA PassStepKeeps ==
  ASSUME IndInv, NEW c \in Callers,
         runOnce(c) \/ PassStep(c) \/ ItemFails(c) \/ PageFails(c)
  PROVE  IndInv'
BY RunOnceKeeps, FetchPageKeeps, PagingKeeps, EndKeeps, SweepEndsKeeps, SweepKeeps, CheckKeeps,
   StoreKeeps DEF PassStep

LEMMA NextInv == IndInv /\ [Next]_vars => IndInv'
<1> SUFFICES ASSUME IndInv, [Next]_vars PROVE IndInv'
  OBVIOUS
<1>1. CASE UNCHANGED vars
  BY <1>1 DEF vars, IndInv, TypeOK, OnePass, PassInv, NothingLeft, CopiesCurrent, ItemOfPage,
     ConclusionIsChainFact, BacklogAhead, Item, Copy, VerdictIsChainFact
<1>2. ASSUME NEW k \in Keys, Submit(k) \/ SubmitBinds(k) \/ Mine(k) \/ Index(k) PROVE IndInv'
  BY <1>2, SubmitKeeps, SubmitBindsKeeps, MineKeeps, IndexKeeps
<1>3. ASSUME NEW c \in Callers, runOnce(c) \/ PassStep(c) \/ ItemFails(c) \/ PageFails(c)
      PROVE  IndInv'
  BY <1>3, PassStepKeeps
<1>4. CASE Crash \/ Tick
  BY <1>4, CrashKeeps, TickKeeps
<1> QED BY <1>1, <1>2, <1>3, <1>4 DEF Next

(* The inductive invariant holds in every reachable state of the worker:   *)
(* one pass runs at a time, its copies are current, and what it still has  *)
(* to check lies in its page or ahead of its cursor.                       *)
THEOREM Inductive == Spec => []IndInv
BY InitInv, NextInv, PTL DEF Spec

(* Records and page copies are what a submit stores or the worker writes,  *)
(* in every reachable state.                                               *)
THEOREM TypeCorrect == Spec => []TypeOK
<1>1. IndInv => TypeOK
  BY DEF IndInv
<1> QED BY <1>1, Inductive, PTL

(* The worker gives a submission up for good only if its transaction       *)
(* reverted, and confirms only what the indexer projected, whatever        *)
(* timeouts, failures, crashes and concurrent callers did.                 *)
THEOREM VerdictsAreChainFacts == Spec => []VerdictIsChainFact
<1>1. IndInv => VerdictIsChainFact
  BY DEF IndInv
<1> QED BY <1>1, Inductive, PTL

(* A pass that ends has checked or passed over every submission that was   *)
(* to be checked when its second scan began, for any number of records and *)
(* any page size.                                                          *)
THEOREM PassesCoverBacklog == Spec => PassCoversBacklog
<1>1. ASSUME IndInv, NEW c \in Callers, PassEnds(c)
      PROVE  pass[c].due \subseteq pass[c].visited
  BY <1>1 DEF PassEnds, At, IndInv, PassInv, BacklogAhead
<1>2. IndInv => [ \A c \in Callers : PassEnds(c) => pass[c].due \subseteq pass[c].visited ]_vars
  BY <1>1
<1> QED BY <1>2, Inductive, PTL DEF PassCoversBacklog

(* No pass takes a confirmed submission back, whoever starts passes and    *)
(* however old the copies they work on.                                    *)
THEOREM ConfirmedStaysConfirmed == Spec => ConfirmedIsFinal
<1> DEFINE Kept == \A k \in Keys : ledger[k].status = "confirmed" => ledger'[k].status = "confirmed"
<1>1. ASSUME IndInv, Next PROVE Kept
  <2>1. CASE UNCHANGED ledger
    BY <2>1
  <2>2. ASSUME NEW k \in Keys, Submit(k) PROVE Kept
    <3>1. PICK r : ledger' = [ ledger EXCEPT ![k] = r ]
      BY <2>2 DEF Submit
    <3>2. ledger[k].status # "confirmed"
      BY <2>2 DEF Submit, NoRecord
    <3> QED BY <3>1, <3>2, <1>1 DEF IndInv, TypeOK
  <2>3. ASSUME NEW c \in Callers, StoreSubmission(c) PROVE Kept
    BY <1>1, <2>3, StoreKeeps
  <2>4. ASSUME NEW c \in Callers, PassStep(c), ~StoreSubmission(c) PROVE UNCHANGED ledger
    BY <2>4 DEF PassStep, FetchPage, NextPage, SweepEnds, PassEnds, SkipItem, SweepItem,
       CheckItem, GetProof, bindEvidence, ProjectionBeforeReceipt, GetReceipt,
       ProjectionAfterReceipt
  <2>5. ASSUME NEW k \in Keys, SubmitBinds(k) \/ Mine(k) \/ Index(k) PROVE UNCHANGED ledger
    BY <2>5 DEF SubmitBinds, Mine, Index
  <2>6. ASSUME NEW c \in Callers, runOnce(c) \/ ItemFails(c) \/ PageFails(c)
        PROVE UNCHANGED ledger
    BY <2>6 DEF runOnce, ItemFails, PageFails
  <2>7. Crash \/ Tick => UNCHANGED ledger
    BY DEF Crash, Tick
  <2> QED BY <1>1, <2>1, <2>2, <2>3, <2>4, <2>5, <2>6, <2>7 DEF Next
<1>2. IndInv /\ [Next]_vars => [Kept]_vars
  BY <1>1
<1> QED BY <1>2, Inductive, PTL DEF ConfirmedIsFinal, Spec
=============================================================================
