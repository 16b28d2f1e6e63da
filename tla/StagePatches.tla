---------------------------- MODULE StagePatches ----------------------------
(* Stage patches: a selector names the executor (or a resource) of another *)
(* stage. prepare checks the request against the projection and stores     *)
(* what is to be signed, with a nonce derived from the projected overlay;  *)
(* submit recovers the signature, checks the projection again, reserves    *)
(* the nonce, broadcasts and stores what came of it. One target stage;     *)
(* submits of several processes interleave at every await.                 *)
EXTENDS Integers, FiniteSets

CONSTANTS
  Prepares,        \* prepare ids
  Submits,         \* concurrent submit calls
  Executors,       \* wallets that act on the target stage
  Nobody,          \* no wallet
  Modes,           \* executor patch modes, of "assign", "handoff", "replacement"
  Ttl,             \* prepareTtlSeconds
  MaxTime,         \* bound on the clock
  MaxAttempts,     \* bound on the submits begun
  MaxSignals,      \* bound on the signals of the target stage before the first submit
  MaxLateSignals,  \* the same, once a submit has begun
  MaxStoreFailures, \* store writes that fail
  MaxKills         \* processes that die inside a submit

VARIABLES
  time,
  stageSignals, \* the target stage's signals on chain, projected
  overlay,      \* the projected overlay: [nonce of each kind, executor]
  preparedPatch, \* Prepares -> the stored prepare, or [state |-> "absent"]
  reserved,     \* nonce key -> the time it was reserved, or -1
  patchRows,    \* stored submissions
  transactions, \* transactions sent: [nonce, prepare, fate]
  submit,       \* Submits -> where the call is
  trouble       \* [storeFailures, kills, takeovers], and the submits begun

patchVars == << time, stageSignals, overlay, preparedPatch, reserved, patchRows, transactions, submit, trouble >>

Flows == { "capability", "fallback" }
Kinds == { "executor", "resource" }
KindOf(mode) == IF mode = "resource" THEN "resource" ELSE "executor"
NonceKeys == Kinds \X (1..2)
Absent == [ state |-> "absent" ]
IdleSubmit == [ at |-> "idle" ]

-----------------------------------------------------------------------------
(* Who acts on the stage now.                                              *)

(* The submitters of a flow's newest block, and the very last one.         *)
latestSubmitterByChainOrder(S) ==
  LET last == CHOOSE s \in S : \A t \in S : t.at <= s.at
  IN [ submitter |-> last.who,
       ambiguous |-> \E s \in S : s.block = last.block /\ s.who # last.who ]

(* Fault: a tie inside the capability flow goes to the later log.          *)
ProgressByLog(S) ==
  LET C == { s \in S : s.flow = "capability" }
      F == { s \in S : s.flow = "fallback" }
  IN IF C # {} /\ F # {}
     THEN [ submitter |-> latestSubmitterByChainOrder(C).submitter,
            ambiguous |-> latestSubmitterByChainOrder(C).submitter # latestSubmitterByChainOrder(F).submitter ]
     ELSE [ submitter |-> latestSubmitterByChainOrder(C \cup F).submitter, ambiguous |-> FALSE ]
(* The two flows of facts: the compiled capabilities and the source that   *)
(* is the stage itself. They cannot be ordered against each other, so they *)
(* must agree; the fallback flow alone is never ambiguous.                 *)
targetStageProgress(S) ==
  LET C == { s \in S : s.flow = "capability" }
      F == { s \in S : s.flow = "fallback" }
      c == latestSubmitterByChainOrder(C)
      f == latestSubmitterByChainOrder(F)
  IN CASE C # {} /\ F # {} -> [ submitter |-> c.submitter,
                                ambiguous |-> c.ambiguous \/ f.ambiguous \/ c.submitter # f.submitter ]
       [] C # {} /\ F = {} -> c
       [] C = {} -> [ submitter |-> f.submitter, ambiguous |-> FALSE ]

(* The overlay's executor is authoritative; without one the last submitter *)
(* is, when it is unique.                                                  *)
expectedPreviousExecutorForPatch(S, o) ==
  IF o.executor # Nobody THEN [ submitter |-> o.executor, ambiguous |-> FALSE ]
  ELSE targetStageProgress(S)

(* assign only before the stage has signals, and it names no previous      *)
(* executor; handoff and replacement only after, and they must name one.   *)
ModeFits(S, mode, previous) ==
  /\ S = {} <=> mode = "assign"
  /\ mode = "assign" <=> previous = Nobody

(* A handoff and a replacement are from the previous executor.             *)
resolveExecutorPatchGovernance(S, o, mode, previous) ==
  /\ ModeFits(S, mode, previous)
  /\ mode # "assign" =>
       LET expected == expectedPreviousExecutorForPatch(S, o)
       IN ~expected.ambiguous /\ previous = expected.submitter

nextStageExecutorPatchNonce(o, mode) == o.nonce[KindOf(mode)] + 1
stagePatchNonceKey(p) == << KindOf(p.mode), p.nonce >>

(* The second check, at submit: the same rules, and the nonce still ahead  *)
(* of the overlay.                                                         *)
ensureExecutorPreparedStillCurrent(S, o, p) ==
  /\ resolveExecutorPatchGovernance(S, o, p.mode, p.previous)
  /\ o.nonce["executor"] < p.nonce
ensureResourcePreparedStillCurrent(S, o, p) ==
  S = {} /\ o.nonce["resource"] < p.nonce
StillCurrent(S, o, p) ==
  IF p.mode = "resource" THEN ensureResourcePreparedStillCurrent(S, o, p)
  ELSE ensureExecutorPreparedStillCurrent(S, o, p)

-----------------------------------------------------------------------------
(* The store.                                                              *)

(* Insert, or take over a reservation older than one authorization window. *)
CanReserve(n) == reserved[n] = -1 \/ reserved[n] < time - Ttl
Reserve(n, at) == reserved' = [ reserved EXCEPT ![n] = at ]

(* A write of the store may fail, a bounded number of times.               *)
StoreFails ==
  /\ trouble.storeFailures < MaxStoreFailures
  /\ trouble' = [ trouble EXCEPT !.storeFailures = @ + 1 ]

(* A row is added for the answer a submit got.                             *)
Record(s, status, sent, retryable) ==
  patchRows' = patchRows \cup { [ prepare |-> submit[s].prepare, key |-> stagePatchNonceKey(submit[s].patch),
                                  status |-> status, sent |-> sent, retryable |-> retryable ] }

Used(p) == IF preparedPatch[p].state = "absent" THEN preparedPatch
           ELSE [ preparedPatch EXCEPT ![p].state = "used" ]

-----------------------------------------------------------------------------
(* prepare.                                                                *)

(* A prepare is stored and the expired ones are swept.                     *)
Prepare(p, mode, previous) ==
  /\ preparedPatch[p] = Absent
  /\ \A s \in Submits : submit[s].at # "idle" => submit[s].prepare # p
  /\ nextStageExecutorPatchNonce(overlay, mode) <= 2
  /\ preparedPatch' =
       [ q \in Prepares |->
           IF q = p THEN [ state |-> "prepared", mode |-> mode, previous |-> previous,
                           nonce |-> nextStageExecutorPatchNonce(overlay, mode), deadline |-> time + Ttl ]
           ELSE IF preparedPatch[q] # Absent /\ preparedPatch[q].state = "prepared" /\ preparedPatch[q].deadline < time
           THEN Absent ELSE preparedPatch[q] ]
  /\ UNCHANGED << time, stageSignals, overlay, reserved, patchRows, transactions, submit, trouble >>

prepareStageExecutorPatch(p, mode, previous) ==
  /\ resolveExecutorPatchGovernance(stageSignals, overlay, mode, previous)
  /\ Prepare(p, mode, previous)

(* A resource patch only before the stage has signals.                     *)
prepareStageResourcePatch(p) ==
  /\ stageSignals = {}
  /\ Prepare(p, "resource", Nobody)

-----------------------------------------------------------------------------
(* submit.                                                                 *)

(* The prepare is read and found unused, the envelope and the signature    *)
(* are checked.                                                            *)
SubmitBegin(s, p) ==
  /\ submit[s].at = "idle"
  /\ preparedPatch[p] # Absent /\ preparedPatch[p].state = "prepared"
  /\ trouble.attempts < MaxAttempts
  /\ trouble' = [ trouble EXCEPT !.attempts = @ + 1 ]
  /\ submit' = [ submit EXCEPT ![s] = [ at |-> "read", prepare |-> p, patch |-> preparedPatch[p] ] ]
  /\ UNCHANGED << time, stageSignals, overlay, preparedPatch, reserved, patchRows, transactions >>

(* An expired prepare is consumed: row and mark in one transaction.        *)
SubmitExpired(s) ==
  /\ submit[s].at = "read" /\ submit[s].patch.deadline < time
  /\ preparedPatch' = Used(submit[s].prepare)
  /\ Record(s, "expired", 0, FALSE)
  /\ submit' = [ submit EXCEPT ![s] = IdleSubmit ]
  /\ UNCHANGED << time, stageSignals, overlay, reserved, transactions, trouble >>

SubmitCheck(s) ==
  /\ submit[s].at = "read" /\ submit[s].patch.deadline >= time
  /\ submit' = [ submit EXCEPT ![s] =
       IF StillCurrent(stageSignals, overlay, submit[s].patch)
       THEN [ submit[s] EXCEPT !.at = "checked" ] ELSE IdleSubmit ]
  /\ UNCHANGED << time, stageSignals, overlay, preparedPatch, reserved, patchRows, transactions, trouble >>

SubmitReserve(s) ==
  /\ submit[s].at = "checked"
  /\ LET n == stagePatchNonceKey(submit[s].patch)
     IN \/ /\ CanReserve(n)
           /\ Reserve(n, time)
           /\ trouble' = [ trouble EXCEPT !.takeovers = @ \/ reserved[n] # -1 ]
           /\ submit' = [ submit EXCEPT ![s].at = "reserved" ]
        \/ /\ ~CanReserve(n)
           /\ submit' = [ submit EXCEPT ![s] = IdleSubmit ]
           /\ UNCHANGED << reserved, trouble >>
  /\ UNCHANGED << time, stageSignals, overlay, preparedPatch, patchRows, transactions >>

(* broadcast: a relayer that does not broadcast, a refusal without a       *)
(* transaction (some may be retried), or a transaction, whose receipt is   *)
(* seen, unknown (which may be retried) or reverted.                       *)
(* A refusal before there is a transaction: transient ones may be retried. *)
classifyStagePatchBroadcastError ==
  { [ status |-> "failed", hash |-> FALSE, retryable |-> b ] : b \in BOOLEAN }
Results ==
  classifyStagePatchBroadcastError \cup
  { [ status |-> "not_attempted", hash |-> FALSE, retryable |-> FALSE ],
    [ status |-> "submitted", hash |-> TRUE, retryable |-> FALSE ],
    [ status |-> "failed", hash |-> TRUE, retryable |-> TRUE ],
    [ status |-> "reverted", hash |-> TRUE, retryable |-> FALSE ] }

SubmitBroadcast(s) ==
  /\ submit[s].at = "reserved"
  /\ \E result \in IF submit[s].patch.deadline < time
                   THEN { [ status |-> "failed", hash |-> FALSE, retryable |-> FALSE ] } ELSE Results :
       LET id == Cardinality(transactions) + 1
       IN /\ transactions' = IF result.hash
                             THEN transactions \cup { [ id |-> id, key |-> stagePatchNonceKey(submit[s].patch),
                                                        prepare |-> submit[s].prepare,
                                                        fate |-> IF result.status = "reverted" THEN "failed" ELSE "open" ] }
                             ELSE transactions
          /\ submit' = [ submit EXCEPT ![s] =
                           [ at |-> "answered", prepare |-> submit[s].prepare, patch |-> submit[s].patch,
                             result |-> [ status |-> result.status, sent |-> IF result.hash THEN id ELSE 0,
                                          retryable |-> result.retryable ] ] ]
  /\ UNCHANGED << time, stageSignals, overlay, preparedPatch, reserved, patchRows, trouble >>

(* Fault: any retryable failure reopens the prepare.                       *)
ReopenAnyRetryable(result) ==
  result.status = "not_attempted" \/ (result.status = "failed" /\ result.retryable)
(* Only what left no transaction behind is opened again.                   *)
Reopened(result) ==
  result.status = "not_attempted" \/ (result.status = "failed" /\ result.retryable /\ result.sent = 0)

(* The row, and the nonce released or the prepare consumed, in one         *)
(* transaction.                                                            *)
SubmitPersist(s) ==
  /\ submit[s].at = "answered"
  /\ LET result == submit[s].result
         p == submit[s].prepare
     IN /\ Record(s, result.status, result.sent, result.retryable)
        /\ IF Reopened(result)
           THEN /\ Reserve(stagePatchNonceKey(submit[s].patch), -1)
                /\ UNCHANGED preparedPatch
           ELSE /\ preparedPatch' = Used(p)
                /\ UNCHANGED reserved
  /\ submit' = [ submit EXCEPT ![s] = IdleSubmit ]
  /\ UNCHANGED << time, stageSignals, overlay, transactions, trouble >>

(* That transaction fails: without a hash the nonce is released; with one  *)
(* a persist_failed row is still tried, and the nonce stays.               *)
SubmitPersistFails(s) ==
  /\ submit[s].at = "answered" /\ StoreFails
  /\ IF submit[s].result.sent = 0
     THEN /\ Reserve(stagePatchNonceKey(submit[s].patch), -1)
          /\ submit' = [ submit EXCEPT ![s] = IdleSubmit ]
     ELSE /\ submit' = [ submit EXCEPT ![s].at = "fallback" ]
          /\ UNCHANGED reserved
  /\ UNCHANGED << time, stageSignals, overlay, preparedPatch, patchRows, transactions >>
SubmitFallback(s) ==
  /\ submit[s].at = "fallback"
  /\ \/ Record(s, "failed", submit[s].result.sent, FALSE) /\ UNCHANGED trouble
     \/ StoreFails /\ UNCHANGED patchRows
  /\ submit' = [ submit EXCEPT ![s] = IdleSubmit ]
  /\ UNCHANGED << time, stageSignals, overlay, preparedPatch, reserved, transactions >>

SubmitSteps(s) ==
  \/ SubmitExpired(s) \/ SubmitCheck(s) \/ SubmitReserve(s) \/ SubmitBroadcast(s)
  \/ SubmitPersist(s) \/ SubmitPersistFails(s) \/ SubmitFallback(s)
(* The two services take the same steps, each in its own tables.           *)
submitStageExecutorPatch(s) == submit[s].at # "idle" /\ submit[s].patch.mode # "resource" /\ SubmitSteps(s)
submitStageResourcePatch(s) == submit[s].at # "idle" /\ submit[s].patch.mode = "resource" /\ SubmitSteps(s)

(* The process dies inside a submit.                                       *)
Kill(s) ==
  /\ submit[s].at # "idle" /\ trouble.kills < MaxKills
  /\ submit' = [ submit EXCEPT ![s] = IdleSubmit ]
  /\ trouble' = [ trouble EXCEPT !.kills = @ + 1 ]
  /\ UNCHANGED << time, stageSignals, overlay, preparedPatch, reserved, patchRows, transactions >>

-----------------------------------------------------------------------------
(* The chain, as the projection shows it.                                  *)

(* A pending patch is applied when its nonce is still ahead, or fails.     *)
Mine ==
  /\ \E t \in transactions :
       /\ t.fate = "open"
       /\ \/ /\ t.key[2] > overlay.nonce[t.key[1]]
             /\ transactions' = (transactions \ { t }) \cup { [ t EXCEPT !.fate = "applied" ] }
             /\ \E e \in Executors : overlay' =
                  [ nonce |-> [ overlay.nonce EXCEPT ![t.key[1]] = t.key[2] ],
                    executor |-> IF t.key[1] = "executor" THEN e ELSE overlay.executor ]
          \/ /\ transactions' = (transactions \ { t }) \cup { [ t EXCEPT !.fate = "failed" ] }
             /\ UNCHANGED overlay
  /\ UNCHANGED << time, stageSignals, preparedPatch, reserved, patchRows, submit, trouble >>

StageSignal ==
  /\ Cardinality(stageSignals) < IF trouble.attempts = 0 THEN MaxSignals ELSE MaxLateSignals
  /\ \E f \in Flows, w \in Executors, b \in 0..1 :
       /\ \A t \in stageSignals : t.block <= b
       /\ stageSignals' = stageSignals \cup
            { [ flow |-> f, who |-> w, block |-> b, at |-> Cardinality(stageSignals) ] }
  /\ UNCHANGED << time, overlay, preparedPatch, reserved, patchRows, transactions, submit, trouble >>

Tick ==
  /\ time < MaxTime
  /\ time' = time + 1
  /\ UNCHANGED << stageSignals, overlay, preparedPatch, reserved, patchRows, transactions, submit, trouble >>

-----------------------------------------------------------------------------
Init ==
  /\ time = 0 /\ stageSignals = {} /\ overlay = [ nonce |-> [ k \in Kinds |-> 0 ], executor |-> Nobody ]
  /\ preparedPatch = [ p \in Prepares |-> Absent ]
  /\ reserved = [ n \in NonceKeys |-> -1 ]
  /\ patchRows = {} /\ transactions = {}
  /\ submit = [ s \in Submits |-> IdleSubmit ]
  /\ trouble = [ storeFailures |-> 0, kills |-> 0, takeovers |-> FALSE, attempts |-> 0 ]

Next ==
  \/ \E p \in Prepares :
       \/ \E m \in Modes, w \in Executors \cup { Nobody } : prepareStageExecutorPatch(p, m, w)
       \/ prepareStageResourcePatch(p)
  \/ \E s \in Submits, p \in Prepares : SubmitBegin(s, p)
  \/ \E s \in Submits : submitStageExecutorPatch(s) \/ submitStageResourcePatch(s) \/ Kill(s)
  \/ Mine \/ StageSignal \/ Tick

Spec == Init /\ [][Next]_patchVars

-----------------------------------------------------------------------------
(* Safety.                                                                 *)

(* One nonce, one transaction: while nobody took over an old reservation,  *)
(* no two transactions that may still be applied carry the same nonce,     *)
(* whatever submits, retries and store failures there were (service.ts     *)
(* reopenForRetry and the catch of both submits).                          *)
OneTransactionPerNonce ==
  ~trouble.takeovers =>
    \A t, u \in transactions : t.key = u.key /\ t.fate # "failed" /\ u.fate # "failed" => t = u

(* A hash is never lost: a transaction the process got the hash of has a   *)
(* row that carries it once its submit is over, unless the process died or *)
(* the store failed twice.                                                 *)
HashRecorded ==
  \A t \in transactions :
    \/ \E r \in patchRows : r.sent = t.id
    \/ \E s \in Submits : submit[s].at \in { "answered", "fallback" } /\ submit[s].result.sent = t.id
    \/ trouble.kills > 0 \/ trouble.storeFailures > 1

(* No wedge: a nonce that stays reserved while no submit holds it has a    *)
(* final result on record or a transaction; what left nothing behind can   *)
(* be submitted again with the same prepare. Only a dead process leaks a   *)
(* reservation, until it is taken over.                                    *)
NoWedgedNonce ==
  trouble.kills = 0 /\ ~trouble.takeovers =>
    \A n \in NonceKeys : reserved[n] # -1 =>
      \/ \E s \in Submits : submit[s].at \in { "reserved", "answered", "fallback" } /\ stagePatchNonceKey(submit[s].patch) = n
      \/ \E t \in transactions : t.key = n
      \/ \E r \in patchRows : r.key = n /\ r.status = "failed" /\ ~r.retryable

(* A stage nonce carries one transaction, which is on record, or is free   *)
(* again.                                                                  *)
NonceDiscipline == OneTransactionPerNonce /\ HashRecorded /\ NoWedgedNonce

(* A handoff or replacement that is prepared names the one wallet that all *)
(* the evidence agrees on: the overlay's executor, or, without one, every  *)
(* submitter of the newest block of the capability flow and the last of    *)
(* the fallback flow.                                                      *)
PreviousExecutorUnique ==
  \A m \in { "handoff", "replacement" }, w \in Executors :
    resolveExecutorPatchGovernance(stageSignals, overlay, m, w) =>
      \/ overlay.executor = w
      \/ /\ overlay.executor = Nobody
         /\ \A s \in stageSignals :
              /\ s.flow = "capability" /\ (\A t \in stageSignals : t.flow = "capability" => t.block <= s.block)
                   => s.who = w
              /\ s.flow = "fallback" /\ (\A t \in stageSignals : t.flow = "fallback" => t.at <= s.at)
                   => s.who = w
-----------------------------------------------------------------------------
(* The invariant behind NonceDiscipline and PreviousExecutorUnique.        *)
Patch == [ state : { "prepared", "used" }, mode : Modes \cup {"resource"}, previous : Executors \cup {Nobody},
           nonce : 1..2, deadline : Int ]
Answer == [ status : { "failed", "not_attempted", "submitted", "reverted" }, sent : Nat, retryable : BOOLEAN ]
Signal == [ flow : Flows, who : Executors, block : 0..1, at : Nat ]

PatchTypes ==
  /\ time \in Nat
  /\ overlay \in [ nonce : [ Kinds -> 0..2 ], executor : Executors \cup {Nobody} ]
  /\ preparedPatch \in [ Prepares -> {Absent} \cup Patch ]
  /\ reserved \in [ NonceKeys -> Int ]
  /\ transactions \subseteq [ id : Nat \ {0}, key : NonceKeys, prepare : Prepares, fate : { "open", "applied", "failed" } ]
  /\ IsFiniteSet(transactions)
  /\ submit \in [ Submits ->
       {IdleSubmit} \cup [ at : { "read", "checked", "reserved" }, prepare : Prepares, patch : Patch ]
       \cup [ at : { "answered", "fallback" }, prepare : Prepares, patch : Patch, result : Answer ] ]
  /\ trouble \in [ storeFailures : Nat, kills : Nat, takeovers : BOOLEAN, attempts : Nat ]

HoldsNonce(s) == submit[s].at \in { "reserved", "answered", "fallback" }
Answered(s) == submit[s].at \in { "answered", "fallback" }
KeyOf(s) == stagePatchNonceKey(submit[s].patch)
Live(t) == t.fate # "failed"

(* A nonce has one holder, and none that could release it once there is a  *)
(* transaction that may still be applied.                                  *)
HolderInv(s) ==
  HoldsNonce(s) =>
    /\ reserved[KeyOf(s)] # -1
    /\ \A r \in Submits : (r # s /\ HoldsNonce(r)) => KeyOf(r) # KeyOf(s)

LiveInv(t) ==
  Live(t) =>
    /\ reserved[t.key] # -1
    /\ \A s \in Submits : (HoldsNonce(s) /\ KeyOf(s) = t.key) => Answered(s) /\ submit[s].result.sent # 0

AnswerInv(s) ==
  Answered(s) =>
    /\ submit[s].result.sent = 0 => submit[s].result.status \in { "failed", "not_attempted" }
    /\ submit[s].result.sent # 0 =>
         submit[s].result.status # "not_attempted" /\ \E t \in transactions : t.key = KeyOf(s)
    /\ submit[s].at = "fallback" => submit[s].result.sent # 0 /\ trouble.storeFailures >= 1

(* Signals are numbered in the order of the chain; a flow has a last one.  *)
SignalsInv ==
  /\ stageSignals \subseteq Signal /\ IsFiniteSet(stageSignals)
  /\ \A s \in stageSignals : s.at < Cardinality(stageSignals)
  /\ \A s, t \in stageSignals : (s.at <= t.at => s.block <= t.block) /\ (s.at = t.at => s = t)
  /\ \A f \in Flows : (\E s \in stageSignals : s.flow = f) =>
       \E s \in stageSignals : s.flow = f /\ \A t \in stageSignals : t.flow = f => t.at <= s.at

NonceInv ==
  ~trouble.takeovers =>
    /\ \A s \in Submits : HolderInv(s)
    /\ \A t \in transactions : LiveInv(t)

IndInv ==
  /\ PatchTypes /\ SignalsInv /\ NonceInv /\ NonceDiscipline
  /\ \A s \in Submits : AnswerInv(s)
=============================================================================
