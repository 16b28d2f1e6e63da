------------------------- MODULE MCReconcileWorker -------------------------
(* Small instances of ReconcileWorker.                                     *)
EXTENDS ReconcileWorker, TLC

CONSTANTS timer, admin

CallerSymmetry == Permutations(Callers)
=============================================================================
