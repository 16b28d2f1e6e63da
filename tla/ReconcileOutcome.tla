------------------------- MODULE ReconcileOutcome --------------------------
(***************************************************************************)
(* What one check of the reconcile worker concludes about a broadcast, as  *)
(* a function of what it observed, and the status each lane stores for the *)
(* conclusion.  The lanes share these operators; the order in which the    *)
(* observations are made is a matter of the lanes' own actions.            *)
(***************************************************************************)

Kinds == { "pending", "indexing", "confirmed", "failed", "stale_pending" }

(* What the node answers for a transaction hash; "unknown" is any status   *)
(* the RPC boundary delivers that is neither success nor a revert.         *)
Receipts == { "missing", "reverted", "unknown", "success" }

(* Without a receipt a record is stale once the timeout has passed.        *)
Unseen(late) == IF late THEN "stale_pending" ELSE "pending"

(* The conclusion from a receipt other than success.                       *)
FromReceipt(receipt, late) ==
  CASE receipt = "missing"  -> Unseen(late)
    [] receipt = "reverted" -> "failed"
    [] OTHER                -> "pending"

(* The conclusion from a successful receipt and the second projection read. *)
FromProjection(present) == IF present THEN "confirmed" ELSE "indexing"

Retryable(kind) == kind \in { "pending", "stale_pending" }

(* Status of a registration whose check started from the status current.   *)
RegistrationStatus(kind, current) ==
  CASE kind = "pending" -> current
    [] kind = "stale_pending" -> "failed"
    [] OTHER -> kind

SubmissionStatus(kind, current, hasTx) ==
  CASE kind = "pending" -> IF hasTx THEN "submitted" ELSE current
    [] kind = "stale_pending" -> "failed"
    [] OTHER -> kind

(* Fault: a timeout is final, too.                                         *)
DeadLetterOnFailure(kind, status) == status = "failed"

(* A submission is given up for good only on a reverted receipt.           *)
DeadLetter(kind, status) == status = "failed" /\ ~Retryable(kind)

GovernanceStatus(kind) == IF kind = "stale_pending" THEN "failed" ELSE kind
=============================================================================
