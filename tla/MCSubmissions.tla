--------------------------- MODULE MCSubmissions ---------------------------
(* Instances of Submissions for TLC.  All prepares are of one order, so    *)
(* that they compete for the order's in-flight unit.                       *)
EXTENDS Submissions, TLC

CONSTANTS theOrder, theSubmitter

MCOrderOf(p) == theOrder
MCSubmitterOf(p) == theSubmitter
MCOrders == { theOrder }
MCSubmitters == { theSubmitter }
Symmetry == Permutations(Prepares) \cup Permutations(Requests) \cup Permutations(TxIds)
=============================================================================
