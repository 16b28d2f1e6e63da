----------------------------- MODULE ChainView -----------------------------
(* What the indexer promises of its durable state: seen through the        *)
(* cursor, the log of chain events only grows at its end, is cut back to a *)
(* block it already held, or is replaced as a whole by a rebuild. Nothing  *)
(* is ever slipped in, or lost, behind the cursor.                         *)
EXTENDS Integers

VARIABLES
  view,     \* the events of the blocks behind the cursor
  next,     \* the next block to index
  rebuilt   \* the number of complete rebuilds so far

vars == << view, next, rebuilt >>

Below(n) == { e \in view : e.h < n }

Init == view = {} /\ next = 0 /\ rebuilt = 0

Grow ==
  /\ next' >= next
  /\ view \subseteq view'
  /\ \A e \in view' \ view : e.h \in next..next' - 1
  /\ UNCHANGED rebuilt

Cut ==
  /\ next' < next
  /\ view' = Below(next')
  /\ UNCHANGED rebuilt

Rebuild ==
  /\ rebuilt' = rebuilt + 1
  /\ \A e \in view' : e.h < next'

Next == Grow \/ Cut \/ Rebuild

Spec == Init /\ [][Next]_vars
=============================================================================
