---------------------------- MODULE WebhookGuard ----------------------------
(* Signed webhooks and the receiver's replay guard                         *)
(* (notifications/webhook-dispatcher.ts). A message carries the time it    *)
(* was signed and a fresh nonce, both under the signature; the clocks of   *)
(* sender and receiver may differ.                                         *)
EXTENDS Integers, Sequences, FiniteSets

CONSTANTS Messages, Tolerance, MaxNonces, MaxClock, MaxSkew

VARIABLES
  clock,       \* the receiver's clock
  signed,      \* time a message was signed at, by the sender's clock; -1: not yet
  seen,        \* the guard's map in insertion order: nonces with their times
  accepted     \* how often the receiver has taken a message

webhookVars == << clock, signed, seen, accepted >>

Init == /\ clock = 0 /\ signed = [ m \in Messages |-> -1 ] /\ seen = << >>
        /\ accepted = [ m \in Messages |-> 0 ]

Distance(x, y) == IF x > y THEN x - y ELSE y - x

signWebhookBody(m) ==
  /\ signed[m] = -1
  /\ \E t \in 0..(MaxClock + MaxSkew) : Distance(t, clock) <= MaxSkew /\ signed' = [ signed EXCEPT ![m] = t ]
  /\ UNCHANGED << clock, seen, accepted >>

verifyWebhookSignature(m) == signed[m] # -1 /\ Distance(clock, signed[m]) <= Tolerance

Known(m) == \E i \in 1..Len(seen) : seen[i].nonce = m /\ Distance(clock, seen[i].at) <= Tolerance

(* A nonce has at most one entry; it is taken out.                         *)
Without(m) ==
  IF \E i \in 1..Len(seen) : seen[i].nonce = m
  THEN LET i == CHOOSE j \in 1..Len(seen) : seen[j].nonce = m
       IN SubSeq(seen, 1, i - 1) \o SubSeq(seen, i + 1, Len(seen))
  ELSE seen

(* Fault: the guard remembers when the message arrived, not its signed     *)
(* time, and forgets a message from a fast clock while it is still valid.  *)
RememberArrival(m) == [ nonce |-> m, at |-> clock ]

Remember(m) == [ nonce |-> m, at |-> signed[m] ]

(* observe: a known nonce is refused; else it is recorded and the oldest   *)
(* entry evicted beyond the capacity.                                      *)
observe(m) ==
  LET next == Append(Without(m), Remember(m))
  IN  /\ ~Known(m)
      /\ seen' = IF Len(next) > MaxNonces THEN Tail(next) ELSE next

Receive(m) ==
  /\ verifyWebhookSignature(m) /\ observe(m)
  /\ accepted' = [ accepted EXCEPT ![m] = @ + 1 ]
  /\ UNCHANGED << clock, signed >>

Tick == clock < MaxClock /\ clock' = clock + 1 /\ UNCHANGED << signed, seen, accepted >>

Next == Tick \/ \E m \in Messages : signWebhookBody(m) \/ Receive(m)
Spec == Init /\ [][Next]_webhookVars

(* No message is accepted twice while the guard's capacity is not reached: *)
(* an intercepted request expires together with its nonce, even when the   *)
(* sender's clock runs ahead of the receiver's.                            *)
AcceptedOnce == \A m \in Messages : accepted[m] <= 1
-----------------------------------------------------------------------------
(* The invariant behind AcceptedOnce: the guard remembers every accepted   *)
(* nonce, once, with the time under its signature.                         *)
Remembered == { seen[i].nonce : i \in 1..Len(seen) }

IndInv ==
  /\ clock \in Int
  /\ signed \in [ Messages -> Int ]
  /\ seen \in Seq([ nonce : Messages, at : Int ])
  /\ accepted \in [ Messages -> Nat ]
  /\ \A i \in 1..Len(seen) : seen[i].at = signed[seen[i].nonce] /\ seen[i].at # -1
  /\ Cardinality(Remembered) = Len(seen)
  /\ \A m \in Messages : accepted[m] <= 1 /\ (accepted[m] = 1 => m \in Remembered)
=============================================================================
