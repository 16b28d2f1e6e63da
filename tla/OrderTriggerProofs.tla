------------------------ MODULE OrderTriggerProofs -------------------------
(***************************************************************************)
(* Theorems about the trigger of an order draft and the registration lane, *)
(* for any number of concurrent requests, authorizations, transactions,    *)
(* crashes and failing calls: IndInv of OrderTrigger is inductive, and the *)
(* safety properties follow from it.                                       *)
(***************************************************************************)
EXTENDS OrderTrigger, FiniteSetTheorems, TLAPS

-----------------------------------------------------------------------------
(* Types.                                                                  *)
Fates == { "none", "pending", "success", "reverted" }
Tx == [ prep : Preps \cup {NoPrep}, fate : Fates ]
Results == [ status : RegStatus, tx : TxIds \cup {NoTx}, retryable : BOOLEAN ]

LEMMA EmptyTypes ==
  /\ NoReg \in Registration /\ NoDraft \in Draft /\ NoJob \in Job /\ NoWorkerJob \in WorkerJob
  /\ NoReg.status = "none" /\ NoDraft.status # "triggered"
  /\ NoJob.draft = NoDraft /\ NoJob.reg = NoReg
  /\ NoWorkerJob.reg = NoReg /\ NoWorkerJob.draft = NoDraft
<1>1. NoReg \in Registration /\ NoDraft \in Draft /\ NoReg.status = "none"
      /\ NoDraft.status # "triggered"
  BY DEF NoReg, Registration, RegStatus, NoDraft, Draft, DraftStatus
<1>2. NoResult \in Results
  BY DEF NoResult, Result, Results, RegStatus
<1> QED BY <1>1, <1>2 DEF NoJob, Job, NoWorkerJob, WorkerJob, Kinds, Results

(* What the request and the worker store is a registration of the same     *)
(* authorization, and neither stores a prepared one.                       *)
LEMMA StoredTypes ==
  /\ \A j \in Job :
       LET g == BroadcastedRegistration(j)
       IN  /\ g \in Registration /\ g.prep = j.reg.prep /\ g.status = j.result.status
           /\ j.result.tx # NoTx => g.tx = j.result.tx
  /\ \A j \in WorkerJob :
       LET g == ReconciledRegistration(j)
       IN  /\ g \in Registration /\ g.prep = j.reg.prep /\ g.tx = j.reg.tx
           /\ j.reg.status \in { "submitted", "indexing", "failed" } =>
                /\ g.status \notin { "none", "prepared" }
                /\ g.status = "confirmed" => j.kind = "confirmed"
  /\ \A d \in Draft, g \in Registration :
       /\ draftFrom(d, g) \in Draft
       /\ draftFrom(d, g).status = "triggered" =>
            g.status = "confirmed" /\ draftFrom(d, g).order = g.prep
<1>1. \A j \in Job :
       LET g == BroadcastedRegistration(j)
       IN  /\ g \in Registration /\ g.prep = j.reg.prep /\ g.status = j.result.status
           /\ j.result.tx # NoTx => g.tx = j.result.tx
  BY DEF BroadcastedRegistration, Job, Registration
<1>2. ASSUME NEW j \in WorkerJob
      PROVE  LET g == ReconciledRegistration(j)
             IN  /\ g \in Registration /\ g.prep = j.reg.prep /\ g.tx = j.reg.tx
                 /\ j.reg.status \in { "submitted", "indexing", "failed" } =>
                     /\ g.status \notin { "none", "prepared" }
                     /\ g.status = "confirmed" => j.kind = "confirmed"
  <2>1. j.reg \in Registration /\ j.kind \in Kinds
    BY DEF WorkerJob
  <2>2. Retryable(j.kind) \in BOOLEAN
    BY DEF Retryable
  <2>3. RegistrationStatus(j.kind, j.reg.status) \in RegStatus
    BY <2>1 DEF RegistrationStatus, RegStatus, Kinds, Registration
  <2>4. j.reg.status \in { "submitted", "indexing", "failed" } =>
          /\ RegistrationStatus(j.kind, j.reg.status) \notin { "none", "prepared" }
          /\ RegistrationStatus(j.kind, j.reg.status) = "confirmed" => j.kind = "confirmed"
    BY <2>1 DEF RegistrationStatus, Kinds
  <2> QED BY <2>1, <2>2, <2>3, <2>4 DEF ReconciledRegistration, Registration
<1>3. \A d \in Draft, g \in Registration :
       /\ draftFrom(d, g) \in Draft
       /\ draftFrom(d, g).status = "triggered" =>
            g.status = "confirmed" /\ draftFrom(d, g).order = g.prep
  BY DEF draftFrom, Draft, DraftStatus, Registration
<1> QED BY <1>1, <1>2, <1>3

LEMMA GotoUpdates ==
  ASSUME pc \in [ Requests -> Steps ], job \in [ Requests -> Job ],
         NEW r \in Requests, NEW s \in Steps, NEW j \in Job, Goto(r, s, j)
  PROVE  /\ pc' \in [ Requests -> Steps ] /\ job' \in [ Requests -> Job ]
         /\ pc'[r] = s /\ job'[r] = j
         /\ \A q \in Requests : q # r => pc'[q] = pc[q] /\ job'[q] = job[q]
BY DEF Goto

-----------------------------------------------------------------------------
(* What every step keeps.                                                  *)

(* A transaction that entered the pool keeps its authorization, a          *)
(* successful one its fate.                                                *)
ChainKept ==
  /\ chain' \in [ TxIds -> Tx ]
  /\ \A t \in TxIds :
       /\ chain[t].fate # "none" => chain'[t].prep = chain[t].prep /\ chain'[t].fate # "none"
       /\ chain[t].fate = "success" => chain'[t] = chain[t]

(* An issued authorization keeps its deadline, and time does not go back.  *)
IssuedKept ==
  /\ deadline' \in [ Preps -> Nat \cup {NotIssued} ]
  /\ \A p \in Issued : deadline'[p] = deadline[p]
  /\ clock' \in Nat /\ clock <= clock'

(* The record becomes prepared only for a newly issued authorization.      *)
PreparedIsNew ==
  reg'.status = "prepared" => reg' = reg \/ reg'.prep \in Issued' \ Issued

Frame == ChainKept /\ IssuedKept /\ PreparedIsNew

LEMMA FrameTruth ==
  ASSUME Frame
  PROVE  /\ Issued \subseteq Issued'
         /\ \A t, p : Created(t, p) => Created(t, p)'
         /\ \A p : OrderExists(p) => OrderExists(p)'
         /\ \A g : RegTrue(g) => (g.status = "confirmed" => Created(g.tx, g.prep)')
         /\ \A d : DraftTrue(d) => (d.status = "triggered" => OrderExists(d.order)')
<1>1. Issued \subseteq Issued'
  BY DEF Frame, IssuedKept, Issued
<1>2. \A t, p : Created(t, p) => Created(t, p)'
  BY DEF Frame, ChainKept, Created
<1>3. \A p : OrderExists(p) => OrderExists(p)'
  BY DEF Frame, ChainKept, OrderExists
<1> QED BY <1>1, <1>2, <1>3 DEF RegTrue, DraftTrue

(* A step that changes nothing of the chain, the deadlines and the record. *)
LEMMA QuietFrame ==
  ASSUME TypeOK, UNCHANGED << clock, deadline, chain, reg >>
  PROVE  Frame
BY DEF TypeOK, Frame, ChainKept, IssuedKept, PreparedIsNew, Tx, Fates, Issued

(* A request that does not move keeps its part of the invariant.           *)
LEMMA OthersKept ==
  ASSUME IndInv, Frame, NEW q \in Requests, pc'[q] = pc[q], job'[q] = job[q],
         pc[q] \in TriggerSteps => \A t \in TxIds : chain'[t].prep = chain[t].prep
  PROVE  RequestInv(q)'
<1>0. /\ TypeOK /\ StoreInv /\ DraftTrue(job[q].draft) /\ PrepareInv(q) /\ TriggerInv(q)
      /\ job[q] \in Job
  BY DEF IndInv, RequestInv, TypeOK
<1>1. DraftTrue(job[q].draft)'
  BY <1>0, FrameTruth DEF DraftTrue
<1>2. PrepareInv(q)'
  <2> SUFFICES ASSUME pc[q] = "prepared", job[q].reg.status # "none"
               PROVE  /\ Issued' # {}
                      /\ (\E p \in Preps : Issued' = {p}) => ~GoodPrepared'
    BY DEF PrepareInv
  <2>1. Issued # {} /\ Issued' # {} /\ Issued \subseteq Issued'
    BY <1>0, FrameTruth DEF PrepareInv
  <2>2. SUFFICES ASSUME NEW p \in Preps, Issued' = {p}, GoodPrepared'
                 PROVE  FALSE
    BY <2>1
  <2>3. Issued = {p}
    BY <2>1, <2>2
  <2>4. reg' = reg /\ reg.prep = p
    BY <1>0, <2>1, <2>2, <2>3 DEF Frame, PreparedIsNew, GoodPrepared, StoreInv
  <2>5. deadline'[p] = deadline[p] /\ clock <= clock' /\ deadline[p] \in Nat /\ clock \in Nat /\ clock' \in Nat
    BY <1>0, <2>3 DEF Frame, IssuedKept, TypeOK, Issued
  <2>6. GoodPrepared
    BY <2>2, <2>4, <2>5 DEF GoodPrepared, isPrepareExpired
  <2> QED BY <1>0, <2>3, <2>6 DEF PrepareInv
<1>3. TriggerInv(q)'
  <2>1. Issued \subseteq Issued'
    BY FrameTruth
  <2>2. /\ (pc[q] \in TriggerSteps => job[q].prep \in Issued)'
        /\ (pc[q] \in TriggerSteps \ {"trigger"} =>
              job[q].reg.prep \in Issued /\ job[q].reg.status = "submitted")'
    BY <1>0, <2>1 DEF TriggerInv
  <2>3. ((pc[q] \in { "submitting", "broadcast" } /\ Sent(job[q].reg.prep) # {}) => job[q].again)'
    BY <1>0 DEF TriggerInv, Sent, TriggerSteps
  <2>4. (pc[q] \in { "broadcast", "receipt", "broadcasted" } =>
           ~(reg.status = "prepared" /\ reg.prep = job[q].reg.prep))'
    BY <1>0 DEF TriggerInv, TriggerSteps, Frame, PreparedIsNew
  <2>5. (pc[q] = "receipt" =>
           job[q].result.tx \in TxIds /\ chain[job[q].result.tx].prep = job[q].reg.prep)'
    BY <1>0 DEF TriggerInv, TriggerSteps
  <2>6. (pc[q] = "broadcasted" =>
           /\ job[q].result.status \notin { "none", "prepared" }
           /\ job[q].result.status = "confirmed" => Created(job[q].result.tx, job[q].reg.prep))'
    BY <1>0 DEF TriggerInv, Created, Frame, ChainKept
  <2> QED BY <2>2, <2>3, <2>4, <2>5, <2>6 DEF TriggerInv
<1> QED BY <1>1, <1>2, <1>3 DEF RequestInv

LEMMA WorkerKept ==
  ASSUME IndInv, Frame, UNCHANGED << wpc, wjob >>
  PROVE  WorkerInv'
<1>1. WorkerInv /\ Issued \subseteq Issued'
  BY FrameTruth DEF IndInv
<1>2. RegTrue(wjob.reg)' /\ DraftTrue(wjob.draft)'
  BY <1>1, FrameTruth DEF WorkerInv, RegTrue, DraftTrue
<1> QED BY <1>1, <1>2 DEF WorkerInv, Created, Frame, ChainKept

LEMMA StoreKept ==
  ASSUME IndInv, Frame, UNCHANGED << reg, reopened >>, DraftTrue(draft)',
         reg.status = "prepared" =>
           \A t \in TxIds : chain'[t].prep = reg.prep => chain[t].prep = reg.prep
  PROVE  StoreInv'
<1>1. StoreInv /\ Issued \subseteq Issued'
  BY FrameTruth DEF IndInv
<1>2. RegTrue(reg)'
  BY <1>1, FrameTruth DEF StoreInv, RegTrue
<1> QED BY <1>1, <1>2 DEF StoreInv, Sent, RetryingFailedTrigger

LEMMA ChainInvKept ==
  ASSUME IndInv, Frame, UNCHANGED << chain, projected >>
  PROVE  ChainInv'
BY FrameTruth DEF IndInv, ChainInv

-----------------------------------------------------------------------------
(* A request enters, keeps or leaves the critical section of the draft.    *)
LEMMA LockMoves ==
  ASSUME IndInv, NEW r \in Requests, NEW s \in Steps, NEW j \in Job, Goto(r, s, j),
         \/ lock' = lock /\ (s \in TriggerSteps => pc[r] \in TriggerSteps)
         \/ lock = NoRequest /\ lock' = r
         \/ s \notin TriggerSteps /\ pc[r] \in TriggerSteps /\ lock' = NoRequest
         \/ s \notin TriggerSteps /\ lock' = IF lock = r THEN NoRequest ELSE lock
  PROVE  LockInv' /\ lock' \in Requests \cup {NoRequest}
<1>1. /\ LockInv /\ lock \in Requests \cup {NoRequest} /\ pc'[r] = s
      /\ \A q \in Requests : q # r => pc'[q] = pc[q]
  BY GotoUpdates DEF IndInv, TypeOK
<1> QED BY <1>1 DEF IndInv, LockInv, TriggerConstants

(* Steps that change nothing but the request, the lock and the faults.     *)
LEMMA LocalStep ==
  ASSUME IndInv, NEW r \in Requests, NEW s \in Steps, NEW j \in Job, Goto(r, s, j),
         UNCHANGED << clock, onChain, deadline, draft, reg, chain, projected, wpc, wjob, reopened >>,
         faults' = faults \/ faults' = faults + 1,
         \/ lock' = lock /\ (s \in TriggerSteps => pc[r] \in TriggerSteps)
         \/ lock = NoRequest /\ lock' = r
         \/ s \notin TriggerSteps /\ pc[r] \in TriggerSteps /\ lock' = NoRequest
         \/ s \notin TriggerSteps /\ lock' = IF lock = r THEN NoRequest ELSE lock,
         DraftTrue(j.draft),
         (s = "prepared" /\ j.reg.status # "none") =>
            Issued # {} /\ ((\E p \in Preps : Issued = {p}) => ~GoodPrepared),
         s \in TriggerSteps => j.prep \in Issued,
         s \in TriggerSteps \ {"trigger"} => j.reg.prep \in Issued /\ j.reg.status = "submitted",
         (s \in { "submitting", "broadcast" } /\ Sent(j.reg.prep) # {}) => j.again,
         s \in { "broadcast", "receipt", "broadcasted" } =>
            ~(reg.status = "prepared" /\ reg.prep = j.reg.prep),
         s = "receipt" => j.result.tx \in TxIds /\ chain[j.result.tx].prep = j.reg.prep,
         s = "broadcasted" =>
            /\ j.result.status \notin { "none", "prepared" }
            /\ j.result.status = "confirmed" => Created(j.result.tx, j.reg.prep)
  PROVE  IndInv'
<1>0. TypeOK /\ Frame
  BY QuietFrame DEF IndInv
<1>1. /\ pc' \in [ Requests -> Steps ] /\ job' \in [ Requests -> Job ]
      /\ pc'[r] = s /\ job'[r] = j
      /\ \A q \in Requests : q # r => pc'[q] = pc[q] /\ job'[q] = job[q]
  BY <1>0, GotoUpdates DEF TypeOK
<1>2. LockInv' /\ lock' \in Requests \cup {NoRequest}
  BY LockMoves
<1>3. TypeOK'
  BY <1>0, <1>1, <1>2 DEF TypeOK
<1>4. RequestInv(r)'
  <2>1. DraftTrue(job[r].draft)'
    BY <1>1 DEF DraftTrue, OrderExists
  <2>2. PrepareInv(r)'
    BY <1>1 DEF PrepareInv, GoodPrepared, Issued, isPrepareExpired
  <2>3. TriggerInv(r)'
    <3>1. Issued' = Issued
      BY DEF Issued
    <3> QED BY <1>1, <3>1 DEF TriggerInv, Sent, Created
  <2> QED BY <2>1, <2>2, <2>3 DEF RequestInv
<1>5. \A q \in Requests : RequestInv(q)'
  BY <1>0, <1>1, <1>4, OthersKept
<1>6. StoreInv' /\ WorkerInv' /\ ChainInv'
  <2>1. DraftTrue(draft)'
    BY DEF IndInv, StoreInv, DraftTrue, OrderExists
  <2> QED BY <1>0, <2>1, StoreKept, WorkerKept, ChainInvKept
<1> QED BY <1>2, <1>3, <1>5, <1>6 DEF IndInv

LEMMA IdleJob == DraftTrue(NoJob.draft) /\ "idle" \in Steps /\ NoJob \in Job /\ "idle" \notin TriggerSteps
BY EmptyTypes DEF DraftTrue, Steps, TriggerSteps

(* The reading and refusing steps of edits and prepares.                   *)
LEMMA PrepareSteps ==
  ASSUME IndInv, NEW r \in Requests,
         EditRead(r) \/ PrepareRead(r) \/ PrepareChecked(r) \/ PrepareRefused(r)
  PROVE  IndInv'
<1>0. /\ TypeOK /\ StoreInv /\ RequestInv(r) /\ job[r] \in Job /\ draft \in Draft /\ reg \in Registration
      /\ job[r].draft \in Draft /\ clock \in Nat
      /\ UNCHANGED << clock, onChain, deadline, draft, reg, chain, projected, wpc, wjob, reopened, faults, lock >>
  BY DEF IndInv, TypeOK, EditRead, PrepareRead, PrepareChecked, PrepareRefused, envVars, chainVars,
         workerVars, Job
<1>1. CASE EditRead(r) \/ PrepareRead(r)
  <2>1. PICK s \in { "edit", "prepare" } : Goto(r, s, [ NoJob EXCEPT !.draft = draft ])
    BY <1>1 DEF EditRead, PrepareRead
  <2>2. PICK j \in Job : j = [ NoJob EXCEPT !.draft = draft ] /\ j.draft = draft
    <3>1. [ NoJob EXCEPT !.draft = draft ] \in Job
      BY <1>0, EmptyTypes DEF Job
    <3> QED BY <3>1 DEF NoJob
  <2>3. DraftTrue(j.draft)
    BY <1>0, <2>2 DEF StoreInv
  <2>4. Goto(r, s, j) /\ s \in Steps /\ s \notin TriggerSteps
    BY <2>1, <2>2 DEF Steps, TriggerSteps
  <2> QED BY <1>0, <2>1, <2>3, <2>4, LocalStep DEF TriggerSteps
<1>2. CASE PrepareChecked(r)
  <2> DEFINE g == [ NoReg EXCEPT !.status = reg.status, !.createdAt = reg.createdAt ]
             j == [ job[r] EXCEPT !.draft.status = "ready_to_trigger", !.at = clock, !.reg = g ]
  <2>1. g \in Registration /\ g.status = reg.status
    BY <1>0, EmptyTypes DEF Registration
  <2>2. [ job[r].draft EXCEPT !.status = "ready_to_trigger" ] \in Draft
    BY <1>0 DEF Draft, DraftStatus
  <2>3. j \in Job /\ j.draft.status = "ready_to_trigger" /\ j.reg = g
    BY <1>0, <2>1, <2>2 DEF Job, Draft
  <2>4. Goto(r, "prepared", j) /\ CanPrepare(job[r].draft, reg)
    BY <1>2 DEF PrepareChecked
  <2> HIDE DEF j, g
  <2>5. reg.status # "none" => Issued # {} /\ ~GoodPrepared
    BY <1>0, <2>4 DEF StoreInv, CanPrepare, GoodPrepared, RetryingFailedTrigger, ExpiredPreparedTrigger
  <2>6. DraftTrue(j.draft) /\ "prepared" \in Steps /\ "prepared" \notin TriggerSteps
    BY <2>3 DEF DraftTrue, Steps, TriggerSteps
  <2> QED BY <1>0, <2>1, <2>3, <2>4, <2>5, <2>6, LocalStep DEF TriggerSteps
<1>3. CASE PrepareRefused(r)
  BY <1>0, <1>3, IdleJob, LocalStep DEF PrepareRefused, Return, TriggerSteps
<1> QED BY <1>1, <1>2, <1>3

(* The steps of triggerOrder that read, and a failing store.               *)
LEMMA TriggerReads ==
  ASSUME IndInv, NEW r \in Requests,
         \/ \E p \in Preps : Trigger(r, p)
         \/ TriggerChecked(r) \/ TriggerRefused(r) \/ RequestFails(r)
  PROVE  IndInv'
<1>0. /\ TypeOK /\ StoreInv /\ RequestInv(r) /\ job[r] \in Job /\ draft \in Draft /\ reg \in Registration
      /\ UNCHANGED << clock, onChain, deadline, draft, reg, chain, projected, wpc, wjob, reopened >>
  BY DEF IndInv, TypeOK, Trigger, TriggerChecked, TriggerRefused, RequestFails, envVars, chainVars,
         workerVars
<1>1. ASSUME NEW p \in Preps, Trigger(r, p) PROVE IndInv'
  <2>1. PICK j \in Job : Goto(r, "trigger", j) /\ j.draft.status = "triggering" /\ j.prep = p
    <3>1. [ draft EXCEPT !.status = "triggering" ] \in Draft
      BY <1>0 DEF Draft, DraftStatus
    <3>2. [ NoJob EXCEPT !.draft = [ draft EXCEPT !.status = "triggering" ], !.prep = p ] \in Job
      BY <3>1, EmptyTypes DEF Job
    <3> QED BY <1>0, <1>1, <3>1, <3>2 DEF Trigger, NoJob, Draft
  <2>2. /\ p \in Issued /\ DraftTrue(j.draft) /\ "trigger" \in Steps
        /\ lock = NoRequest /\ lock' = r /\ faults' = faults
    BY <1>1, <2>1 DEF Trigger, Issued, DraftTrue, Steps, TriggerSteps
  <2> QED BY <1>0, <2>1, <2>2, LocalStep
<1>2. CASE TriggerChecked(r)
  <2>0. PICK b \in BOOLEAN : b = (job[r].prep \in reopened)
    <3>1. (job[r].prep \in reopened) \in BOOLEAN
      OBVIOUS
    <3> QED BY <3>1, Zenon
  <2> DEFINE g == [ reg EXCEPT !.status = "submitted", !.retryable = FALSE ]
             j == [ job[r] EXCEPT !.reg = g, !.again = b ]
  <2>1. g \in Registration /\ g.status = "submitted" /\ g.prep = reg.prep
    BY <1>0 DEF Registration, RegStatus
  <2>2. /\ j \in Job /\ j.reg = g /\ j.again = b
        /\ j.prep = job[r].prep /\ j.draft = job[r].draft
    BY <1>0, <2>1 DEF Job
  <2>3. /\ Goto(r, "submitting", j) /\ CanTrigger(job[r].prep)
        /\ pc[r] = "trigger" /\ lock' = lock /\ faults' = faults
    BY <1>2, <2>0 DEF TriggerChecked, At
  <2> HIDE DEF j, g
  <2>4. job[r].prep \in Issued /\ DraftTrue(job[r].draft) /\ reg.prep = job[r].prep
    BY <1>0, <2>3 DEF RequestInv, TriggerInv, TriggerSteps, CanTrigger
  <2>5. Sent(reg.prep) # {} => reg.prep \in reopened
    BY <1>0, <2>3 DEF StoreInv, CanTrigger
  <2>6. /\ "submitting" \in Steps /\ pc[r] \in TriggerSteps
        /\ Sent(j.reg.prep) # {} => j.again
    BY <2>0, <2>1, <2>2, <2>3, <2>4, <2>5 DEF Steps, TriggerSteps
  <2>7. j.reg.prep \in Issued /\ j.reg.status = "submitted" /\ j.prep \in Issued /\ DraftTrue(j.draft)
    BY <2>1, <2>2, <2>4
  <2> QED BY <1>0, <2>2, <2>3, <2>6, <2>7, LocalStep
<1>3. CASE TriggerRefused(r)
  <2>1. pc[r] \in TriggerSteps /\ lock' = NoRequest /\ faults' = faults /\ Goto(r, "idle", NoJob)
    BY <1>3 DEF TriggerRefused, At, TriggerSteps, Return
  <2> QED BY <1>0, <2>1, IdleJob, LocalStep DEF TriggerSteps
<1>4. CASE RequestFails(r)
  <2>1. /\ lock' = IF lock = r THEN NoRequest ELSE lock
        /\ faults' = faults + 1 /\ Goto(r, "idle", NoJob)
    BY <1>4 DEF RequestFails, Return
  <2> QED BY <1>0, <2>1, IdleJob, LocalStep DEF TriggerSteps
<1> QED BY <1>1, <1>2, <1>3, <1>4

(* What the adapters report without a new transaction.                     *)
LEMMA AdapterReports ==
  ASSUME IndInv, NEW r \in Requests,
         BroadcastRecorded(r) \/ BroadcastRefused(r) \/ ReceiptAwaited(r)
  PROVE  IndInv'
<1>0. /\ TypeOK /\ RequestInv(r) /\ TriggerInv(r) /\ job[r] \in Job
      /\ UNCHANGED << clock, onChain, deadline, draft, reg, chain, projected, wpc, wjob, reopened, faults, lock >>
      /\ pc[r] \in { "broadcast", "receipt" } /\ chain \in [ TxIds -> Tx ]
  BY DEF IndInv, TypeOK, BroadcastRecorded, BroadcastRefused, ReceiptAwaited, envVars, chainVars,
         workerVars, RequestInv, At, Tx, Fates
<1>1. PICK result \in Results :
        /\ Broadcasted(r, result)
        /\ result.status \notin { "none", "prepared" }
        /\ result.status = "confirmed" => Created(result.tx, job[r].reg.prep)
  <2>1. CASE BroadcastRecorded(r) \/ BroadcastRefused(r)
    <3>1. PICK status \in { "pending", "failed" }, retryable \in BOOLEAN :
            Broadcasted(r, Result(status, NoTx, retryable))
      BY <2>1 DEF BroadcastRecorded, BroadcastRefused
    <3>2. /\ Result(status, NoTx, retryable) \in Results
          /\ Result(status, NoTx, retryable).status = status
      BY DEF Result, Results, RegStatus
    <3> QED BY <3>1, <3>2
  <2>2. CASE ReceiptAwaited(r)
    <3>1. PICK result \in ReceiptResults(job[r].result.tx) : Broadcasted(r, result)
      BY <2>2 DEF ReceiptAwaited
    <3>2. job[r].result.tx \in TxIds /\ chain[job[r].result.tx].prep = job[r].reg.prep
      BY <1>0, <2>2 DEF ReceiptAwaited, At, TriggerInv
    <3>3. /\ result \in Results
          /\ result.status \notin { "none", "prepared" }
          /\ result.status = "confirmed" =>
               result.tx = job[r].result.tx /\ chain[job[r].result.tx].fate = "success"
      <4>1. \E status \in { "confirmed", "indexing", "failed" }, retryable \in BOOLEAN :
              /\ result = Result(status, job[r].result.tx, retryable)
              /\ status = "confirmed" => chain[job[r].result.tx].fate = "success"
        BY <3>1 DEF ReceiptResults
      <4> QED BY <3>2, <4>1 DEF Result, Results, RegStatus
    <3> QED BY <3>1, <3>2, <3>3 DEF Created
  <2> QED BY <2>1, <2>2
<1>2. PICK j \in Job : /\ Goto(r, "broadcasted", j) /\ j.result = result
                       /\ j.reg = job[r].reg /\ j.prep = job[r].prep /\ j.draft = job[r].draft
  <2>1. [ job[r] EXCEPT !.result = result ] \in Job
    BY <1>0 DEF Job, Results
  <2> QED BY <1>0, <1>1, <2>1 DEF Broadcasted, Job
<1>3. /\ job[r].prep \in Issued /\ DraftTrue(job[r].draft)
      /\ job[r].reg.prep \in Issued /\ job[r].reg.status = "submitted"
      /\ ~(reg.status = "prepared" /\ reg.prep = job[r].reg.prep)
      /\ "broadcasted" \in Steps /\ pc[r] \in TriggerSteps
  BY <1>0 DEF RequestInv, TriggerInv, TriggerSteps, Steps
<1>4. j.result.status = "confirmed" => Created(j.result.tx, j.reg.prep)
  BY <1>1, <1>2
<1> QED BY <1>0, <1>1, <1>2, <1>3, <1>4, LocalStep

-----------------------------------------------------------------------------
(* Steps that write the record or the draft.                               *)
LEMMA Stored ==
  ASSUME NEW g \in Registration, g.prep \in Preps, reopened \in SUBSET Preps, StoreRegistration(g)
  PROVE  /\ reg' = g /\ reopened' \in SUBSET Preps
         /\ RetryingFailedTrigger(g) => g.prep \in reopened'
BY DEF StoreRegistration, RetryingFailedTrigger

(* A writer that is not a prepare stores a record that is neither missing  *)
(* nor prepared, of an issued authorization.                               *)
LEMMA RecordWritten ==
  ASSUME IndInv, NEW g \in Registration, StoreRegistration(g),
         UNCHANGED << clock, deadline, chain >>,
         g.prep \in Issued, g.status \notin { "none", "prepared" }, RegTrue(g), DraftTrue(draft)'
  PROVE  Frame /\ StoreInv' /\ reopened' \in SUBSET Preps
<1>1. /\ reg' = g /\ reopened' \in SUBSET Preps /\ TypeOK
      /\ RetryingFailedTrigger(g) => g.prep \in reopened'
  BY Stored DEF IndInv, TypeOK, Issued
<1>2. Frame
  BY <1>1 DEF TypeOK, Frame, ChainKept, IssuedKept, PreparedIsNew, Tx, Fates, Issued
<1>3. RegTrue(reg)'
  BY <1>1 DEF RegTrue, Created
<1>4. Issued' = Issued
  BY DEF Issued
<1> QED BY <1>1, <1>2, <1>3, <1>4 DEF StoreInv, RetryingFailedTrigger

LEMMA EditStoreStep ==
  ASSUME IndInv, NEW r \in Requests, EditStore(r)
  PROVE  IndInv'
<1>0. /\ TypeOK /\ RequestInv(r) /\ job[r] \in Job /\ job[r].draft \in Draft /\ draft' = job[r].draft
      /\ UNCHANGED << clock, onChain, deadline, reg, chain, projected, wpc, wjob, reopened, faults, lock >>
      /\ Goto(r, "idle", NoJob)
  BY DEF IndInv, TypeOK, EditStore, envVars, chainVars, workerVars, Job, Return
<1>1. Frame
  BY <1>0, QuietFrame
<1>2. /\ pc' \in [ Requests -> Steps ] /\ job' \in [ Requests -> Job ]
      /\ pc'[r] = "idle" /\ job'[r] = NoJob
      /\ \A q \in Requests : q # r => pc'[q] = pc[q] /\ job'[q] = job[q]
  BY <1>0, IdleJob, GotoUpdates DEF TypeOK
<1>3. LockInv'
  BY <1>0, IdleJob, LockMoves
<1>4. TypeOK'
  BY <1>0, <1>2 DEF TypeOK
<1>5. DraftTrue(draft)'
  BY <1>0 DEF RequestInv, DraftTrue, OrderExists
<1>6. StoreInv' /\ WorkerInv' /\ ChainInv'
  BY <1>0, <1>1, <1>5, StoreKept, WorkerKept, ChainInvKept
<1>7. RequestInv(r)'
  BY <1>2, EmptyTypes DEF RequestInv, PrepareInv, TriggerInv, TriggerSteps, DraftTrue
<1>8. \A q \in Requests : RequestInv(q)'
  BY <1>0, <1>1, <1>2, <1>7, OthersKept
<1> QED BY <1>3, <1>4, <1>6, <1>8 DEF IndInv

(* A new authorization is issued and its record stored as prepared.        *)
LEMMA PrepareStoreStep ==
  ASSUME IndInv, NEW r \in Requests, NEW p \in Preps, PrepareStore(r, p)
  PROVE  IndInv'
<1>0. /\ TypeOK /\ StoreInv /\ ChainInv /\ RequestInv(r) /\ job[r] \in Job /\ job[r].draft \in Draft
      /\ job[r].at \in Nat /\ job[r].reg \in Registration
      /\ draft' = job[r].draft /\ deadline[p] = NotIssued
      /\ deadline' = [ deadline EXCEPT ![p] = job[r].at + PrepareTtl ]
      /\ StoreRegistration(PreparedRegistration(p, job[r]))
      /\ UNCHANGED << clock, onChain, chain, projected, wpc, wjob, faults, lock >>
      /\ Goto(r, "idle", NoJob)
  BY DEF IndInv, TypeOK, PrepareStore, envVars, chainVars, workerVars, Job, Return
<1>1. PICK g \in Registration :
        /\ g = PreparedRegistration(p, job[r]) /\ g.prep = p /\ g.status = "prepared"
        /\ g.retryable = FALSE
  <2>1. job[r].reg.createdAt \in Nat
    BY <1>0 DEF Registration
  <2>2. PreparedRegistration(p, job[r]) \in Registration
    BY <1>0, <2>1 DEF PreparedRegistration, Registration, RegStatus
  <2> QED BY <2>2 DEF PreparedRegistration
<1>2. reg' = g /\ reopened' \in SUBSET Preps
  BY <1>0, <1>1, Stored DEF TypeOK
<1>3. /\ deadline' \in [ Preps -> Nat \cup {NotIssued} ] /\ deadline'[p] \in Nat
      /\ \A x \in Preps : x # p => deadline'[x] = deadline[x]
      /\ p \notin Issued /\ p \in Issued'
  <2>1. job[r].at + PrepareTtl \in Nat
    BY <1>0 DEF IndInv, TriggerConstants
  <2>2. NotIssued \notin Nat
    BY DEF NotIssued
  <2> QED BY <1>0, <2>1, <2>2 DEF TypeOK, Issued
<1>4. Frame
  <2>1. ChainKept
    BY <1>0 DEF TypeOK, ChainKept, Tx, Fates
  <2>2. IssuedKept
    BY <1>0, <1>3 DEF TypeOK, IssuedKept, Issued
  <2> QED BY <1>1, <1>2, <1>3, <2>1, <2>2 DEF Frame, PreparedIsNew
<1>5. /\ pc' \in [ Requests -> Steps ] /\ job' \in [ Requests -> Job ]
      /\ pc'[r] = "idle" /\ job'[r] = NoJob
      /\ \A q \in Requests : q # r => pc'[q] = pc[q] /\ job'[q] = job[q]
  BY <1>0, IdleJob, GotoUpdates DEF TypeOK
<1>6. LockInv'
  BY <1>0, IdleJob, LockMoves
<1>7. TypeOK'
  BY <1>0, <1>2, <1>3, <1>5 DEF TypeOK
<1>8. StoreInv'
  <2>1. DraftTrue(draft)'
    BY <1>0 DEF RequestInv, DraftTrue, OrderExists
  <2>2. RegTrue(reg)' /\ ~RetryingFailedTrigger(reg)'
    BY <1>1, <1>2 DEF RegTrue, RetryingFailedTrigger
  <2>3. Sent(reg.prep)' = {}
    BY <1>0, <1>1, <1>2, <1>3 DEF IndInv, TriggerConstants, Sent, ChainInv
  <2>4. reg'.prep \in Issued'
    BY <1>1, <1>2, <1>3
  <2> QED BY <2>1, <2>2, <2>3, <2>4 DEF StoreInv
<1>9. WorkerInv' /\ ChainInv'
  BY <1>0, <1>4, WorkerKept, ChainInvKept
<1>10. RequestInv(r)'
  BY <1>5, EmptyTypes DEF RequestInv, PrepareInv, TriggerInv, TriggerSteps, DraftTrue
<1>11. \A q \in Requests : RequestInv(q)'
  BY <1>0, <1>4, <1>5, <1>10, OthersKept
<1> QED BY <1>6, <1>7, <1>8, <1>9, <1>11 DEF IndInv

LEMMA StoreSubmittingStep ==
  ASSUME IndInv, NEW r \in Requests, StoreSubmitting(r)
  PROVE  IndInv'
<1>0. /\ TypeOK /\ RequestInv(r) /\ job[r] \in Job /\ job[r].draft \in Draft
      /\ job[r].reg \in Registration /\ draft' = job[r].draft /\ pc[r] = "submitting"
      /\ StoreRegistration(job[r].reg)
      /\ UNCHANGED << clock, onChain, deadline, chain, projected, wpc, wjob, faults, lock >>
      /\ Goto(r, "broadcast", job[r])
  BY DEF IndInv, TypeOK, StoreSubmitting, envVars, chainVars, workerVars, Job, At
<1>1. PICK g \in Registration : /\ g = job[r].reg /\ g.prep \in Issued /\ g.status = "submitted"
                                /\ RegTrue(g)
  BY <1>0 DEF RequestInv, TriggerInv, TriggerSteps, RegTrue
<1>2. DraftTrue(draft)'
  BY <1>0 DEF RequestInv, DraftTrue, OrderExists
<1>3. Frame /\ StoreInv' /\ reopened' \in SUBSET Preps /\ reg' = g
  BY <1>0, <1>1, <1>2, RecordWritten DEF StoreRegistration
<1>4. /\ pc' \in [ Requests -> Steps ] /\ job' \in [ Requests -> Job ]
      /\ pc'[r] = "broadcast" /\ job'[r] = job[r]
      /\ \A q \in Requests : q # r => pc'[q] = pc[q] /\ job'[q] = job[q]
  <2>1. "broadcast" \in Steps
    BY DEF Steps, TriggerSteps
  <2> QED BY <1>0, <2>1, GotoUpdates DEF TypeOK
<1>5. LockInv'
  <2>1. "broadcast" \in Steps /\ pc[r] \in TriggerSteps
    BY <1>0 DEF Steps, TriggerSteps
  <2> QED BY <1>0, <2>1, LockMoves
<1>6. TypeOK'
  BY <1>0, <1>3, <1>4 DEF TypeOK
<1>7. WorkerInv' /\ ChainInv'
  BY <1>0, <1>3, WorkerKept, ChainInvKept
<1>8. RequestInv(r)'
  <2>1. Issued' = Issued
    BY <1>0 DEF Issued
  <2>2. DraftTrue(job[r].draft)'
    BY <1>0, <1>4 DEF RequestInv, DraftTrue, OrderExists
  <2>3. TriggerInv(r)'
    BY <1>0, <1>1, <1>3, <1>4, <2>1 DEF RequestInv, TriggerInv, TriggerSteps, Sent
  <2> QED BY <1>4, <2>2, <2>3 DEF RequestInv, PrepareInv
<1>9. \A q \in Requests : RequestInv(q)'
  BY <1>0, <1>3, <1>4, <1>8, OthersKept
<1> QED BY <1>3, <1>5, <1>6, <1>7, <1>9 DEF IndInv

LEMMA StoreBroadcastStep ==
  ASSUME IndInv, NEW r \in Requests, StoreBroadcast(r)
  PROVE  IndInv'
<1>0. /\ TypeOK /\ RequestInv(r) /\ TriggerInv(r) /\ job[r] \in Job /\ job[r].draft \in Draft
      /\ pc[r] = "broadcasted" /\ lock' = NoRequest
      /\ UNCHANGED << clock, onChain, deadline, chain, projected, wpc, wjob, faults >>
      /\ Goto(r, "idle", NoJob)
  BY DEF IndInv, TypeOK, StoreBroadcast, envVars, chainVars, workerVars, Job, Return, RequestInv, At
<1>1. PICK g \in Registration :
        /\ StoreRegistration(g) /\ draft' = draftFrom(job[r].draft, g)
        /\ g.prep = job[r].reg.prep /\ g.status = job[r].result.status
        /\ job[r].result.tx # NoTx => g.tx = job[r].result.tx
  BY <1>0, StoredTypes DEF StoreBroadcast
<1>2. g.prep \in Issued /\ g.status \notin { "none", "prepared" } /\ RegTrue(g)
  BY <1>0, <1>1 DEF IndInv, TriggerConstants, TriggerInv, TriggerSteps, RegTrue, Created
<1>3. DraftTrue(draft)' /\ draft' \in Draft
  <2>1. /\ draft' \in Draft
        /\ draft'.status = "triggered" => g.status = "confirmed" /\ draft'.order = g.prep
    BY <1>0, <1>1, StoredTypes
  <2> QED BY <1>0, <1>2, <2>1 DEF DraftTrue, RegTrue, Created, OrderExists
<1>4. Frame /\ StoreInv' /\ reopened' \in SUBSET Preps /\ reg' = g
  BY <1>0, <1>1, <1>2, <1>3, RecordWritten DEF StoreRegistration
<1>5. /\ pc' \in [ Requests -> Steps ] /\ job' \in [ Requests -> Job ]
      /\ pc'[r] = "idle" /\ job'[r] = NoJob
      /\ \A q \in Requests : q # r => pc'[q] = pc[q] /\ job'[q] = job[q]
  BY <1>0, IdleJob, GotoUpdates DEF TypeOK
<1>6. LockInv'
  <2>1. pc[r] \in TriggerSteps
    BY <1>0 DEF TriggerSteps
  <2> QED BY <1>0, <2>1, IdleJob, LockMoves
<1>7. TypeOK'
  BY <1>0, <1>3, <1>4, <1>5 DEF TypeOK
<1>8. WorkerInv' /\ ChainInv'
  BY <1>0, <1>4, WorkerKept, ChainInvKept
<1>9. RequestInv(r)'
  BY <1>5, EmptyTypes DEF RequestInv, PrepareInv, TriggerInv, TriggerSteps, DraftTrue
<1>10. \A q \in Requests : RequestInv(q)'
  BY <1>0, <1>4, <1>5, <1>9, OthersKept
<1> QED BY <1>4, <1>6, <1>7, <1>8, <1>10 DEF IndInv

-----------------------------------------------------------------------------
(* A transaction enters the pool: no other request is inside triggerOrder, *)
(* so none is deprived of its claim that nothing was sent.                 *)
LEMMA BroadcastStep ==
  ASSUME IndInv, NEW r \in Requests, NEW t \in TxIds, BroadcastSent(r, t) \/ BroadcastUnseen(r, t)
  PROVE  IndInv'
<1>0. /\ TypeOK /\ RequestInv(r) /\ TriggerInv(r) /\ StoreInv /\ job[r] \in Job
      /\ pc[r] = "broadcast" /\ EnterPool(t, job[r].reg.prep) /\ (faults' = faults \/ faults' = faults + 1)
      /\ UNCHANGED << clock, onChain, deadline, draft, reg, projected, wpc, wjob, reopened, lock >>
  BY DEF IndInv, TypeOK, BroadcastSent, BroadcastUnseen, envVars, workerVars, RequestInv, At
<1>1. PICK s \in Steps, j \in Job :
        /\ Goto(r, s, j)
        /\ j.reg = job[r].reg /\ j.prep = job[r].prep /\ j.draft = job[r].draft
        /\ \/ s = "receipt" /\ j.result.tx = t
           \/ s = "broadcasted" /\ j.result.status \in { "submitted", "failed" }
  <2>1. PICK s \in { "receipt", "broadcasted" }, result \in Results :
          /\ Goto(r, s, [ job[r] EXCEPT !.result = result ])
          /\ \/ s = "receipt" /\ result.tx = t
             \/ s = "broadcasted" /\ result.status \in { "submitted", "failed" }
    <3>1. /\ Result("none", t, FALSE) \in Results /\ Result("submitted", t, FALSE) \in Results
          /\ Result("failed", NoTx, TRUE) \in Results
          /\ Result("none", t, FALSE).tx = t
          /\ Result("submitted", t, FALSE).status = "submitted"
          /\ Result("failed", NoTx, TRUE).status = "failed"
      BY DEF Result, Results, RegStatus
    <3> QED BY <3>1 DEF BroadcastSent, BroadcastUnseen, Broadcasted
  <2>2. [ job[r] EXCEPT !.result = result ] \in Job
    BY <1>0 DEF Job, Results
  <2>3. s \in Steps
    BY DEF Steps, TriggerSteps
  <2> QED BY <1>0, <2>1, <2>2, <2>3 DEF Job
<1>2. PICK p \in Preps : /\ p = job[r].reg.prep /\ p \in Issued /\ job[r].prep \in Issued
                         /\ job[r].reg.status = "submitted"
                         /\ ~(reg.status = "prepared" /\ reg.prep = p)
  BY <1>0 DEF TriggerInv, TriggerSteps, Issued
<1>3. /\ chain \in [ TxIds -> Tx ] /\ chain[t].fate = "none"
      /\ chain' = [ chain EXCEPT ![t] = [ prep |-> p, fate |-> "pending" ] ]
  BY <1>0, <1>2 DEF EnterPool, TypeOK, Tx, Fates
<1>4. /\ chain' \in [ TxIds -> Tx ] /\ chain'[t].prep = p /\ chain'[t].fate = "pending"
      /\ \A u \in TxIds : u # t => chain'[u] = chain[u]
  BY <1>3 DEF Tx, Fates
<1>5. Frame
  BY <1>0, <1>3, <1>4 DEF TypeOK, Frame, ChainKept, IssuedKept, PreparedIsNew, Issued
<1>6. /\ pc' \in [ Requests -> Steps ] /\ job' \in [ Requests -> Job ]
      /\ pc'[r] = s /\ job'[r] = j
      /\ \A q \in Requests : q # r => pc'[q] = pc[q] /\ job'[q] = job[q]
  BY <1>0, <1>1, GotoUpdates DEF TypeOK
<1>7. LockInv'
  <2>1. pc[r] \in TriggerSteps
    BY <1>0 DEF TriggerSteps
  <2> QED BY <1>0, <1>1, <2>1, LockMoves
<1>8. TypeOK'
  BY <1>0, <1>4, <1>6 DEF TypeOK, Tx, Fates
<1>9. StoreInv'
  <2>1. DraftTrue(draft)'
    BY <1>0, <1>5, FrameTruth DEF StoreInv, DraftTrue
  <2>2. reg.status = "prepared" =>
           \A u \in TxIds : chain'[u].prep = reg.prep => chain[u].prep = reg.prep
    BY <1>2, <1>4
  <2> QED BY <1>0, <1>5, <2>1, <2>2, StoreKept
<1>10. WorkerInv'
  BY <1>0, <1>5, WorkerKept
<1>11. ChainInv'
  <2>1. Issued' = Issued
    BY <1>0 DEF Issued
  <2> QED BY <1>0, <1>2, <1>3, <1>4, <2>1 DEF IndInv, ChainInv, TypeOK
<1>12. RequestInv(r)'
  <2>1. Issued' = Issued
    BY <1>0 DEF Issued
  <2>2. DraftTrue(job[r].draft)'
    BY <1>0, <1>1, <1>5, <1>6, FrameTruth DEF RequestInv, DraftTrue
  <2>3. TriggerInv(r)'
    BY <1>0, <1>1, <1>2, <1>4, <1>6, <2>1 DEF TriggerInv, TriggerSteps
  <2> QED BY <1>1, <1>6, <2>2, <2>3 DEF RequestInv, PrepareInv
<1>13. \A q \in Requests : q # r => pc[q] \notin TriggerSteps
  BY <1>0 DEF IndInv, LockInv, TriggerSteps
<1>14. \A q \in Requests : RequestInv(q)'
  BY <1>5, <1>6, <1>12, <1>13, OthersKept
<1> QED BY <1>7, <1>8, <1>9, <1>10, <1>11, <1>14 DEF IndInv

-----------------------------------------------------------------------------
(* Steps of the worker.                                                    *)
LEMMA WorkerOnly ==
  ASSUME IndInv, faults' = faults \/ faults' = faults + 1,
         UNCHANGED << clock, onChain, deadline, draft, reg, chain, projected, lock, pc, job, reopened >>,
         NEW s \in WorkerSteps, NEW j \in WorkerJob, WorkerGoto(s, j),
         RegTrue(j.reg), DraftTrue(j.draft),
         s \in { "check", "receipt", "projection", "store" } =>
           j.reg.prep \in Issued /\ j.reg.status \in { "submitted", "indexing", "failed" },
         (s = "store" /\ j.kind = "confirmed") => Created(j.reg.tx, j.reg.prep)
  PROVE  IndInv'
<1>0. TypeOK /\ Frame /\ wpc' = s /\ wjob' = j /\ Issued' = Issued
  BY QuietFrame DEF IndInv, WorkerGoto, Issued
<1>1. TypeOK' /\ LockInv'
  BY <1>0 DEF IndInv, TypeOK, LockInv
<1>2. StoreInv' /\ ChainInv'
  <2>1. DraftTrue(draft)'
    BY DEF IndInv, StoreInv, DraftTrue, OrderExists
  <2> QED BY <1>0, <2>1, StoreKept, ChainInvKept
<1>3. \A q \in Requests : RequestInv(q)'
  BY <1>0, OthersKept
<1>4. WorkerInv'
  BY <1>0 DEF WorkerInv, RegTrue, DraftTrue, Created, OrderExists
<1> QED BY <1>1, <1>2, <1>3, <1>4 DEF IndInv

LEMMA IdleWorker ==
  /\ "idle" \in WorkerSteps /\ NoWorkerJob \in WorkerJob
  /\ RegTrue(NoWorkerJob.reg) /\ DraftTrue(NoWorkerJob.draft)
BY EmptyTypes DEF WorkerSteps, RegTrue, DraftTrue

LEMMA WorkerReads ==
  ASSUME IndInv,
         \/ WorkerList \/ WorkerCheck \/ WorkerReceipt \/ WorkerProjection \/ WorkerGetDraft
         \/ WorkerFails
  PROVE  IndInv'
<1>0. /\ TypeOK /\ StoreInv /\ WorkerInv /\ wjob \in WorkerJob /\ reg \in Registration /\ draft \in Draft
      /\ wjob.reg \in Registration /\ chain \in [ TxIds -> Tx ]
      /\ UNCHANGED << clock, onChain, deadline, draft, reg, chain, projected, lock, pc, job, reopened >>
  BY DEF IndInv, TypeOK, WorkerList, WorkerCheck, WorkerReceipt, WorkerProjection, WorkerGetDraft,
         WorkerFails, envVars, chainVars, WorkerJob, Tx, Fates
<1>s. /\ "check" \in WorkerSteps /\ "receipt" \in WorkerSteps /\ "projection" \in WorkerSteps
      /\ "store" \in WorkerSteps /\ "updateDraft" \in WorkerSteps
  BY DEF WorkerSteps
<1>c. ASSUME NEW kind \in Kinds, Concluded(kind), wpc \in { "check", "receipt", "projection" },
             kind = "confirmed" => Created(wjob.reg.tx, wjob.reg.prep), faults' = faults
      PROVE  IndInv'
  <2>1. PICK j \in WorkerJob : /\ WorkerGoto("store", j) /\ j.kind = kind
                               /\ j.reg = wjob.reg /\ j.draft = wjob.draft
    <3>1. [ wjob EXCEPT !.kind = kind ] \in WorkerJob
      BY <1>0 DEF WorkerJob
    <3> QED BY <1>0, <1>c, <3>1 DEF Concluded, WorkerJob
  <2>2. /\ RegTrue(j.reg) /\ DraftTrue(j.draft)
        /\ j.reg.prep \in Issued /\ j.reg.status \in { "submitted", "indexing", "failed" }
        /\ j.kind = "confirmed" => Created(j.reg.tx, j.reg.prep)
    BY <1>0, <1>c, <2>1 DEF WorkerInv
  <2> QED BY <1>0, <1>s, <1>c, <2>1, <2>2, WorkerOnly
<1>p. registrationProjectionConfirmation(wjob.reg) => Created(wjob.reg.tx, wjob.reg.prep)
  BY DEF registrationProjectionConfirmation, Created, IndInv, ChainInv, TypeOK
<1>1. CASE WorkerList
  <2>1. PICK j \in WorkerJob : WorkerGoto("check", j) /\ j.reg = reg /\ j.draft = NoDraft
    <3>1. [ NoWorkerJob EXCEPT !.reg = reg ] \in WorkerJob
      BY <1>0, EmptyTypes DEF WorkerJob
    <3> QED BY <1>1, <3>1 DEF WorkerList, NoWorkerJob
  <2>2. /\ RegTrue(j.reg) /\ DraftTrue(j.draft) /\ faults' = faults
        /\ j.reg.prep \in Issued /\ j.reg.status \in { "submitted", "indexing", "failed" }
    BY <1>0, <1>1, <2>1, EmptyTypes DEF StoreInv, WorkerList, isReconcileableRegistration, DraftTrue
  <2> QED BY <1>0, <1>s, <2>1, <2>2, WorkerOnly
<1>2. CASE WorkerCheck
  <2>0. wpc = "check" /\ faults' = faults
    BY <1>2 DEF WorkerCheck
  <2>1. CASE wjob.reg.tx = NoTx
    <3>1. PICK kind \in Kinds : Concluded(kind) /\ kind # "confirmed"
      BY <1>2, <2>1 DEF WorkerCheck, Unseen, Kinds
    <3> QED BY <1>c, <2>0, <3>1
  <2>2. CASE wjob.reg.tx # NoTx /\ registrationProjectionConfirmation(wjob.reg)
    BY <1>c, <1>p, <1>2, <2>0, <2>2 DEF WorkerCheck, Kinds
  <2>3. CASE wjob.reg.tx # NoTx /\ ~registrationProjectionConfirmation(wjob.reg)
    <3>1. WorkerGoto("receipt", wjob)
      BY <1>2, <2>3 DEF WorkerCheck
    <3> QED BY <1>0, <1>s, <2>0, <3>1, WorkerOnly DEF WorkerInv
  <2> QED BY <2>1, <2>2, <2>3
<1>3. CASE WorkerReceipt
  <2>0. wpc = "receipt" /\ faults' = faults
    BY <1>3 DEF WorkerReceipt
  <2>1. PICK receipt \in ReceiptOf(wjob.reg.tx) :
          IF receipt = "success" THEN WorkerGoto("projection", wjob)
                                 ELSE Concluded(FromReceipt(receipt, timedOut(wjob.reg)))
    BY <1>3 DEF WorkerReceipt
  <2>2. CASE receipt = "success"
    BY <1>0, <1>s, <2>0, <2>1, <2>2, WorkerOnly DEF WorkerInv
  <2>3. CASE receipt # "success"
    <3>1. PICK kind \in Kinds : Concluded(kind) /\ kind # "confirmed"
      <4>1. /\ FromReceipt(receipt, timedOut(wjob.reg)) \in Kinds
            /\ FromReceipt(receipt, timedOut(wjob.reg)) # "confirmed"
        BY DEF FromReceipt, Unseen, Kinds
      <4> QED BY <2>1, <2>3, <4>1
    <3> QED BY <1>c, <2>0, <3>1
  <2> QED BY <2>2, <2>3
<1>4. CASE WorkerProjection
  <2>0. wpc = "projection" /\ faults' = faults
    BY <1>4 DEF WorkerProjection
  <2>1. PICK kind \in Kinds : /\ Concluded(kind)
                              /\ kind = "confirmed" => registrationProjectionConfirmation(wjob.reg)
    BY <1>4 DEF WorkerProjection, FromProjection, Kinds
  <2> QED BY <1>c, <1>p, <2>0, <2>1
<1>5. CASE WorkerGetDraft
  <2>1. PICK d \in Draft : /\ d = draftFrom(draft, wjob.reg)
                           /\ d.status = "triggered" =>
                                wjob.reg.status = "confirmed" /\ d.order = wjob.reg.prep
    BY <1>0, StoredTypes
  <2>2. PICK j \in WorkerJob : WorkerGoto("updateDraft", j) /\ j.reg = NoReg /\ j.draft = d
    <3>1. [ NoWorkerJob EXCEPT !.draft = d ] \in WorkerJob
      BY EmptyTypes DEF WorkerJob
    <3> QED BY <1>5, <2>1, <3>1 DEF WorkerGetDraft, NoWorkerJob
  <2>3. RegTrue(j.reg) /\ DraftTrue(j.draft) /\ faults' = faults
    BY <1>0, <1>5, <2>1, <2>2, EmptyTypes DEF WorkerInv, RegTrue, DraftTrue, Created, OrderExists,
       WorkerGetDraft
  <2> QED BY <1>0, <1>s, <2>2, <2>3, WorkerOnly
<1>6. CASE WorkerFails
  BY <1>0, <1>6, IdleWorker, WorkerOnly DEF WorkerFails
<1> QED BY <1>1, <1>2, <1>3, <1>4, <1>5, <1>6

LEMMA WorkerWrites ==
  ASSUME IndInv, WorkerStore \/ WorkerUpdateDraft
  PROVE  IndInv'
<1>0. /\ TypeOK /\ WorkerInv /\ wjob \in WorkerJob
      /\ UNCHANGED << clock, onChain, deadline, chain, projected, lock, pc, job, faults >>
  BY DEF IndInv, TypeOK, WorkerStore, WorkerUpdateDraft, envVars, chainVars
<1>1. CASE WorkerStore
  <2>1. PICK g \in Registration :
          /\ StoreRegistration(g) /\ WorkerGoto("getDraft", [ NoWorkerJob EXCEPT !.reg = g ])
          /\ g.prep = wjob.reg.prep /\ g.tx = wjob.reg.tx
          /\ wjob.reg.status \in { "submitted", "indexing", "failed" } =>
               /\ g.status \notin { "none", "prepared" }
               /\ g.status = "confirmed" => wjob.kind = "confirmed"
    BY <1>0, <1>1, StoredTypes DEF WorkerStore
  <2>2. wpc = "store" /\ draft' = draft
    BY <1>1 DEF WorkerStore
  <2>3. g.prep \in Issued /\ g.status \notin { "none", "prepared" } /\ RegTrue(g)
    BY <1>0, <2>1, <2>2 DEF WorkerInv, RegTrue
  <2>4. DraftTrue(draft)'
    BY <1>0, <2>2 DEF IndInv, StoreInv, DraftTrue, OrderExists
  <2>5. Frame /\ StoreInv' /\ reopened' \in SUBSET Preps /\ reg' = g
    BY <1>0, <2>1, <2>3, <2>4, RecordWritten DEF StoreRegistration
  <2>6. wpc' = "getDraft" /\ wjob' \in WorkerJob /\ wjob'.reg = g /\ wjob'.draft = NoDraft
    <3>1. [ NoWorkerJob EXCEPT !.reg = g ] \in WorkerJob
      BY EmptyTypes DEF WorkerJob
    <3> QED BY <2>1, <3>1 DEF WorkerGoto, NoWorkerJob
  <2>7. WorkerInv'
    BY <1>0, <2>3, <2>6, EmptyTypes DEF WorkerInv, RegTrue, DraftTrue, Created
  <2>8. TypeOK' /\ LockInv'
    BY <1>0, <2>2, <2>5, <2>6 DEF IndInv, TypeOK, LockInv, WorkerSteps
  <2>9. ChainInv' /\ \A q \in Requests : RequestInv(q)'
    BY <1>0, <2>5, ChainInvKept, OthersKept
  <2> QED BY <2>5, <2>7, <2>8, <2>9 DEF IndInv
<1>2. CASE WorkerUpdateDraft
  <2>1. /\ draft' = wjob.draft /\ draft' \in Draft /\ UNCHANGED << reg, reopened >>
        /\ wpc' = "idle" /\ wjob' = NoWorkerJob
    BY <1>0, <1>2 DEF WorkerUpdateDraft, WorkerGoto, WorkerJob
  <2>2. DraftTrue(draft)' /\ Frame
    BY <1>0, <2>1, QuietFrame DEF WorkerInv, DraftTrue, OrderExists
  <2>3. StoreInv' /\ ChainInv' /\ \A q \in Requests : RequestInv(q)'
    BY <1>0, <2>1, <2>2, StoreKept, ChainInvKept, OthersKept
  <2>4. WorkerInv'
    BY <2>1, EmptyTypes DEF WorkerInv, RegTrue, DraftTrue
  <2>5. TypeOK' /\ LockInv'
    BY <1>0, <2>1, EmptyTypes DEF IndInv, TypeOK, LockInv, WorkerSteps
  <2> QED BY <2>3, <2>4, <2>5 DEF IndInv
<1> QED BY <1>1, <1>2

-----------------------------------------------------------------------------
(* Crashes, time, the chain and the indexer.                               *)
LEMMA CrashStep ==
  ASSUME IndInv, Crash
  PROVE  IndInv'
<1>0. /\ TypeOK /\ UNCHANGED << clock, onChain, deadline, draft, reg, chain, projected, reopened >>
      /\ pc' = [ r \in Requests |-> "idle" ] /\ job' = [ r \in Requests |-> NoJob ]
      /\ lock' = NoRequest /\ wpc' = "idle" /\ wjob' = NoWorkerJob /\ faults' = faults + 1
  BY DEF IndInv, Crash, WorkerGoto, envVars, chainVars
<1>1. TypeOK'
  <2>1. "idle" \in Steps /\ "idle" \in WorkerSteps
    BY DEF Steps, WorkerSteps
  <2> QED BY <1>0, <2>1, EmptyTypes DEF TypeOK
<1>2. LockInv'
  BY <1>0 DEF LockInv, TriggerSteps
<1>3. StoreInv' /\ ChainInv'
  <2>1. DraftTrue(draft)' /\ Frame
    BY <1>0, QuietFrame DEF IndInv, StoreInv, DraftTrue, OrderExists
  <2> QED BY <1>0, <2>1, StoreKept, ChainInvKept
<1>4. WorkerInv'
  BY <1>0, EmptyTypes DEF WorkerInv, RegTrue, DraftTrue
<1>5. \A q \in Requests : RequestInv(q)'
  BY <1>0, EmptyTypes DEF RequestInv, PrepareInv, TriggerInv, TriggerSteps, DraftTrue
<1> QED BY <1>1, <1>2, <1>3, <1>4, <1>5 DEF IndInv

LEMMA EnvironmentStep ==
  ASSUME IndInv, Tick \/ \E t \in TxIds : Mine(t) \/ Index(t)
  PROVE  IndInv'
<1>0. /\ TypeOK /\ chain \in [ TxIds -> Tx ]
      /\ UNCHANGED << onChain, deadline, faults, draft, reg, lock, pc, job, wpc, wjob, reopened >>
  BY DEF IndInv, TypeOK, Tick, Mine, Index, envVars, chainVars, workerVars, Tx, Fates
<1>1. /\ ChainKept /\ projected' \in SUBSET TxIds
      /\ \A u \in TxIds : /\ chain'[u].prep = chain[u].prep
                          /\ chain'[u].fate = "none" <=> chain[u].fate = "none"
      /\ \A u \in projected' : chain'[u].fate = "success"
  <2>0. projected \subseteq TxIds /\ \A u \in projected : chain[u].fate = "success"
    BY <1>0 DEF IndInv, ChainInv, TypeOK
  <2>1. CASE Tick \/ \E t \in TxIds : Index(t)
    BY <1>0, <2>0, <2>1 DEF Tick, Index, chainVars, ChainKept
  <2>2. ASSUME NEW t \in TxIds, Mine(t)
        PROVE  /\ ChainKept /\ projected' \in SUBSET TxIds
               /\ \A u \in TxIds : /\ chain'[u].prep = chain[u].prep
                                   /\ chain'[u].fate = "none" <=> chain[u].fate = "none"
               /\ \A u \in projected' : chain'[u].fate = "success"
    <3>1. PICK f \in { "success", "reverted" } : chain' = [ chain EXCEPT ![t].fate = f ]
      BY <2>2 DEF Mine
    <3>2. chain[t] \in Tx /\ chain[t].fate = "pending" /\ projected' = projected
      BY <1>0, <2>2 DEF Mine
    <3> QED BY <1>0, <2>0, <3>1, <3>2 DEF ChainKept, Tx, Fates
  <2> QED BY <2>1, <2>2
<1>2. clock' \in Nat /\ clock <= clock'
  BY <1>0 DEF TypeOK, Tick, Mine, Index, envVars
<1>3. Frame /\ Issued' = Issued
  BY <1>0, <1>1, <1>2 DEF TypeOK, Frame, IssuedKept, PreparedIsNew, Issued
<1>4. TypeOK' /\ LockInv'
  BY <1>0, <1>1, <1>2 DEF IndInv, TypeOK, LockInv, ChainKept, Tx, Fates
<1>5. StoreInv' /\ WorkerInv'
  <2>1. DraftTrue(draft)'
    BY <1>0, <1>3, FrameTruth DEF IndInv, StoreInv, DraftTrue
  <2> QED BY <1>0, <1>1, <1>3, <2>1, StoreKept, WorkerKept
<1>6. ChainInv'
  BY <1>1, <1>3 DEF IndInv, ChainInv
<1>7. \A q \in Requests : RequestInv(q)'
  BY <1>0, <1>1, <1>3, OthersKept
<1> QED BY <1>4, <1>5, <1>6, <1>7 DEF IndInv

LEMMA StutterStep ==
  ASSUME IndInv, UNCHANGED vars
  PROVE  IndInv'
<1>0. /\ TypeOK /\ UNCHANGED << clock, faults, onChain, draft, reg, deadline, chain, projected,
                                lock, pc, job, wpc, wjob, reopened >>
  BY DEF IndInv, vars
<1>1. Frame /\ DraftTrue(draft)'
  BY <1>0, QuietFrame DEF IndInv, StoreInv, DraftTrue, OrderExists
<1>2. TypeOK' /\ LockInv'
  BY <1>0 DEF IndInv, TypeOK, LockInv
<1> QED BY <1>0, <1>1, <1>2, StoreKept, WorkerKept, ChainInvKept, OthersKept DEF IndInv

LEMMA IndStep == IndInv /\ [Next]_vars => IndInv'
<1> SUFFICES ASSUME IndInv, [Next]_vars PROVE IndInv'
  OBVIOUS
<1>1. ASSUME NEW r \in Requests, Request(r) PROVE IndInv'
  BY <1>1, PrepareSteps, EditStoreStep, PrepareStoreStep, TriggerReads, StoreSubmittingStep,
     AdapterReports, BroadcastStep, StoreBroadcastStep DEF Request
<1>2. ASSUME Worker \/ WorkerFails PROVE IndInv'
  BY <1>2, WorkerReads, WorkerWrites DEF Worker
<1> QED BY <1>1, <1>2, CrashStep, EnvironmentStep, StutterStep DEF Next

LEMMA IndInit == TriggerConstants /\ Init => IndInv
<1> SUFFICES ASSUME TriggerConstants, Init PROVE IndInv
  OBVIOUS
<1>1. draft \in Draft /\ draft.status = "ready_to_trigger"
  BY EmptyTypes DEF Init, Draft, DraftStatus
<1>2. TypeOK
  <2>1. "idle" \in Steps /\ "idle" \in WorkerSteps
    BY DEF Steps, WorkerSteps
  <2> QED BY <1>1, <2>1, EmptyTypes DEF Init, TypeOK
<1>3. ChainInv /\ StoreInv /\ WorkerInv
  BY <1>1, EmptyTypes DEF Init, ChainInv, StoreInv, WorkerInv, RegTrue, DraftTrue, RetryingFailedTrigger
<1>4. LockInv /\ \A r \in Requests : RequestInv(r)
  BY EmptyTypes DEF Init, LockInv, RequestInv, DraftTrue, PrepareInv, TriggerInv, TriggerSteps
<1> QED BY <1>2, <1>3, <1>4 DEF IndInv

-----------------------------------------------------------------------------
(* Between any two steps: the lock belongs to the request inside           *)
(* triggerOrder, no copy in flight claims more than the chain did, and     *)
(* what is stored as prepared was never sent.                              *)
THEOREM Inductive == TriggerConstants /\ Spec => []IndInv
BY IndInit, IndStep, PTL DEF Spec

(* A registration is confirmed, and a draft triggered, only for an order   *)
(* that its transaction created, whatever stale copy is written back.      *)
LEMMA InvTruthful == IndInv => RegistrationTruthful
  BY DEF IndInv, StoreInv, RegTrue, DraftTrue, Created, RegistrationTruthful, ConfirmedIsOnChain

THEOREM Truthful == TriggerConstants /\ Spec => []RegistrationTruthful
  BY InvTruthful, Inductive, PTL

(* Only its own broadcast takes a request from "broadcast" to a state with *)
(* a new transaction in the pool.                                          *)
LEMMA WhoSends ==
  ASSUME IndInv, [Next]_vars, NEW r \in Requests, NEW t \in TxIds,
         pc[r] = "broadcast", pc'[r] # "broadcast",
         chain[t].fate = "none", chain'[t].fate # "none"
  PROVE  chain'[t].prep = job[r].reg.prep
<1>0. /\ chain \in [ TxIds -> Tx ] /\ pc \in [ Requests -> Steps ]
  BY DEF IndInv, TypeOK, Tx, Fates
<1>1. PICK q \in Requests, u \in TxIds : BroadcastSent(q, u) \/ BroadcastUnseen(q, u)
  <2>1. chain' # chain
    OBVIOUS
  <2>2. ASSUME NEW u \in TxIds, Mine(u) \/ Index(u) PROVE FALSE
    <3>1. /\ chain[u].fate # "none"
          /\ chain' = chain \/ \E f \in Fates : chain' = [ chain EXCEPT ![u].fate = f ]
      BY <2>2 DEF Mine, Index, Fates
    <3> QED BY <1>0, <3>1
  <2>3. ~(Worker \/ WorkerFails \/ Crash \/ Tick \/ UNCHANGED vars)
    BY <2>1 DEF Worker, WorkerList, WorkerCheck, WorkerReceipt, WorkerProjection, WorkerStore,
       WorkerGetDraft, WorkerUpdateDraft, WorkerFails, Crash, Tick, vars, chainVars
  <2>4. PICK q \in Requests : Request(q)
    BY <2>2, <2>3 DEF Next
  <2> QED BY <2>1, <2>4 DEF Request, EditRead, EditStore, PrepareRead, PrepareChecked, PrepareRefused,
        PrepareStore, Trigger, TriggerChecked, TriggerRefused, StoreSubmitting, BroadcastRecorded,
        BroadcastRefused, ReceiptAwaited, StoreBroadcast, RequestFails, chainVars
<1>2. EnterPool(u, job[q].reg.prep)
  BY <1>1 DEF BroadcastSent, BroadcastUnseen
<1>3. q = r
  BY <1>0, <1>1 DEF BroadcastSent, BroadcastUnseen, Broadcasted, Goto
<1>4. u = t
  BY <1>0, <1>2 DEF EnterPool
<1> QED BY <1>0, <1>2, <1>3, <1>4 DEF EnterPool

(* Issuing a second authorization beside a good one is what a prepare with *)
(* a stale reading would do.                                               *)
LEMMA WhoIssues ==
  ASSUME IndInv, [Next]_vars, Issued' # Issued
  PROVE  \E r \in Requests, p \in Preps : PrepareStore(r, p)
<1>1. deadline' # deadline
  BY DEF Issued
<1>2. ~(Worker \/ WorkerFails \/ Crash \/ Tick \/ UNCHANGED vars \/ \E t \in TxIds : Mine(t) \/ Index(t))
  BY <1>1 DEF Worker, WorkerList, WorkerCheck, WorkerReceipt, WorkerProjection, WorkerStore,
     WorkerGetDraft, WorkerUpdateDraft, WorkerFails, Crash, Tick, Mine, Index, vars, envVars
<1>3. PICK r \in Requests : Request(r)
  BY <1>2 DEF Next
<1> QED BY <1>1, <1>3 DEF Request, EditRead, EditStore, PrepareRead, PrepareChecked, PrepareRefused,
        Trigger, TriggerChecked, TriggerRefused, StoreSubmitting, BroadcastRecorded,
        BroadcastRefused, BroadcastSent, BroadcastUnseen, ReceiptAwaited, StoreBroadcast, RequestFails,
        envVars

(* A request that sends what was sent before had found it failed.          *)
LEMMA SendsOnce ==
  IndInv /\ [Next]_vars =>
    [ \A r \in Requests, t \in TxIds :
        (At(r, "broadcast") /\ ~At(r, "broadcast")' /\ chain[t].fate = "none"
           /\ chain'[t].fate # "none" /\ Sent(chain'[t].prep) # {})
        => job[r].again ]_vars
<1> SUFFICES ASSUME IndInv, [Next]_vars, NEW r \in Requests, NEW t \in TxIds,
                    pc[r] = "broadcast", pc'[r] # "broadcast", chain[t].fate = "none",
                    chain'[t].fate # "none", Sent(chain'[t].prep) # {}
             PROVE  job[r].again
  BY DEF At
<1>1. chain'[t].prep = job[r].reg.prep
  BY WhoSends
<1> QED BY <1>1 DEF IndInv, RequestInv, TriggerInv, Sent

(* Nothing is issued beside the one good authorization.                    *)
LEMMA IssuesOnce ==
  IndInv /\ [Next]_vars =>
    [ (Cardinality(Issued) = 1 /\ reg.status = "prepared" /\ ~isPrepareExpired(reg.prep))
        => Issued' = Issued ]_vars
<1> SUFFICES ASSUME IndInv, [Next]_vars, Cardinality(Issued) = 1, GoodPrepared, Issued' # Issued
             PROVE  FALSE
  BY DEF GoodPrepared
<1>1. PICK r \in Requests, p \in Preps : PrepareStore(r, p)
  BY WhoIssues
<1>2. pc[r] = "prepared" /\ job[r].reg.status # "none"
  BY <1>1 DEF PrepareStore, At, InsertLost, GoodPrepared
<1>3. IsFiniteSet(Issued) /\ Issued \subseteq Preps
  BY FS_Subset DEF IndInv, TriggerConstants, Issued
<1>4. PICK x : Issued = {x}
  BY <1>3, FS_Singleton
<1> QED BY <1>2, <1>3, <1>4 DEF IndInv, RequestInv, PrepareInv

(* No two requests that found the same record prepared both send it, and   *)
(* concurrent first prepares settle on one authorization.                  *)
THEOREM Once == TriggerConstants /\ Spec => TriggersOnce
  BY SendsOnce, IssuesOnce, Inductive, PTL
     DEF Spec, TriggersOnce, NoAccidentalRebroadcast, ConcurrentPreparesSettle
=============================================================================
