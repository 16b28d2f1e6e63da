---------------------------- MODULE MCGovernance ---------------------------
(* Small instances of Governance.                                          *)
EXTENDS Governance, TLC

CONSTANTS r1, r2, t1, t2

SafetySymmetry == Permutations(Requests) \cup Permutations(TxIds)
=============================================================================
