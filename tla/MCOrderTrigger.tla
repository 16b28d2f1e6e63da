--------------------------- MODULE MCOrderTrigger --------------------------
(* Small instances of OrderTrigger.                                        *)
EXTENDS OrderTrigger, TLC

CONSTANTS r1, r2, p1, p2, t1, t2

ASSUME ConstantsAssumption == TriggerConstants

SafetySymmetry == Permutations(Requests) \cup Permutations(TxIds) \cup Permutations(Preps)
=============================================================================
