---------------------------- MODULE MCParticipants ----------------------------
(* What participants meet: invites, stage patches, evidence, notifications *)
(* and signed webhooks.  The components share no state; a behaviour is     *)
(* about the one in focus, whose variables are x1, x2, ... in the order of *)
(* its own list, so that one run checks each of them on its own.           *)
EXTENDS Integers, Sequences, FiniteSets, TLC

CONSTANTS
  Events, Suppliers, NoReceiver, Unresolved, Profiles, NoProfile, Operators, Nil,
  MaxAutomatic, MaxRounds, MaxManual, MaxEdits, MaxCrashes, MaxReorgs,
  Messages, Tolerance, MaxNonces, MaxClock, MaxSkew,
  Prepares, Submits, Executors, Nobody, Modes, Ttl, MaxTime, MaxAttempts,
  MaxSignals, MaxLateSignals, MaxStoreFailures, MaxKills,
  Roles, RequiredRoles, TriggerSchema, PermissionTable, PatchRows, InviteIds,
  InviteWallets, NoOne, InviteRequests, Lifetimes, MaxInviteTime,
  EvidenceIds, Participants, Admin, Payloads, Damaged, Uploads, MaxRot, MaxPutFailures,
  r1, r2

VARIABLES focus, x1, x2, x3, x4, x5, x6, x7, x8, x9

N == INSTANCE Notifications WITH
      rows <- x1, directory <- x2, onChain <- x3, owedInvalidation <-
      x4, dispatcher <- x5, op <- x6, readStates <- x7, budget <- x8,
      hist <- x9
W == INSTANCE WebhookGuard WITH
      clock <- x1, signed <- x2, seen <- x3, accepted <- x4
P == INSTANCE StagePatches WITH
      time <- x1, stageSignals <- x2, overlay <- x3, preparedPatch <-
      x4, reserved <- x5, patchRows <- x6, transactions <- x7, submit <-
      x8, trouble <- x9
I == INSTANCE Invites WITH
      inviteTime <- x1, draftStatus <- x2, participants <- x3, invites
      <- x4, requests <- x5, acceptances <- x6, authorized <- x7
E == INSTANCE Evidence WITH
      evidence <- x1, taken <- x2, primary <- x3, backup <- x4,
      evidenceWork <- x5, answered <- x6, rot <- x7, mishaps <- x8

ASSUME ParticipantsConstants ==
  /\ "none" \notin Payloads
  /\ \A row \in PermissionTable \cup PatchRows : row.role \in Roles
  /\ Lifetimes \subseteq Int /\ Ttl \in Nat
  /\ IsFiniteSet(Messages) /\ MaxNonces \in Nat /\ Cardinality(Messages) <= MaxNonces
  /\ MaxAutomatic \in Nat \ {0} /\ "indexer" \notin Operators /\ Nil \notin N!Row
  /\ \A p \in Profiles \ {NoProfile} : p \in Seq([ type : N!Transports, enabled : BOOLEAN, priority : Nat ])

(* A variable the component in focus does not use stays 0.                 *)
Init ==
  \/ focus = "notifications" /\ N!Init
  \/ focus = "webhooks" /\ W!Init /\ x5 = 0 /\ x6 = 0 /\ x7 = 0 /\ x8 = 0 /\ x9 = 0
  \/ focus = "patches" /\ P!Init
  \/ focus = "invites" /\ I!Init /\ x8 = 0 /\ x9 = 0
  \/ focus = "evidence" /\ E!Init /\ x9 = 0

Next ==
  \/ focus = "notifications" /\ N!Next /\ UNCHANGED << focus >>
  \/ focus = "webhooks" /\ W!Next /\ UNCHANGED << focus, x5, x6, x7, x8, x9 >>
  \/ focus = "patches" /\ P!Next /\ UNCHANGED << focus >>
  \/ focus = "invites" /\ I!Next /\ UNCHANGED << focus, x8, x9 >>
  \/ focus = "evidence" /\ E!Next /\ UNCHANGED << focus, x9 >>

Spec == Init /\ [][Next]_<< focus, x1, x2, x3, x4, x5, x6, x7, x8, x9 >>

(* Two profiles that reach a supplier, by different transports.            *)
Transport(type, enabled, priority) == [ type |-> type, enabled |-> enabled, priority |-> priority ]
MCProfiles == { << Transport("xmtp", TRUE, 0), Transport("webhook", TRUE, 1) >>,
                << Transport("webhook", FALSE, 0), Transport("executor-watch", TRUE, 1) >> }

(* Both roles of the schema may send one signal; only r2's may be patched, *)
(* and r1 is the role that can trigger the order.                          *)
MCTable == { [ role |-> r, source |-> "s", signal |-> "done" ] : r \in Roles }
MCPatch == { [ role |-> r2, source |-> "s", signal |-> "patch" ] }
MCTrigger == [ explicit |-> NoOne, static |-> NoOne, capable |-> { r1 } ]

(* The sets of the components that are symmetric are given the same values *)
(* in the configuration: one component is active at a time.                *)
Symmetric == Permutations(Prepares) \cup Permutations(Submits) \cup Permutations(Executors)

-----------------------------------------------------------------------------
(* A delivery reaches its own receiver, once and within its budget; one    *)
(* whose event is gone says so, is not sent, and is news to whoever read   *)
(* it before; no event is dropped in silence.                              *)
DeliveriesSound == focus = "notifications" => N!DeliveriesSound
(* No message is accepted twice while the guard's capacity is not reached: *)
(* an intercepted request expires together with its nonce, even when the   *)
(* sender's clock runs ahead of the receiver's.                            *)
AcceptedOnce == focus = "webhooks" => W!AcceptedOnce
(* A stage nonce carries one transaction, which is on record, or is free   *)
(* again.                                                                  *)
NonceDiscipline == focus = "patches" => P!NonceDiscipline
(* A handoff or replacement that is prepared names the one wallet that all *)
(* the evidence agrees on: the overlay's executor, or, without one, every  *)
(* submitter of the newest block of the capability flow and the last of    *)
(* the fallback flow.                                                      *)
PreviousExecutorUnique == focus = "patches" => P!PreviousExecutorUnique
(* A role has one open invite, an invite one answer, and the preview       *)
(* tells which answer it would be.                                         *)
InvitesSound == focus = "invites" => I!InvitesSound
(* The authority an order is prepared with is the accepted one, and no     *)
(* wallet holds it twice.                                                  *)
AuthoritySound == focus = "invites" => I!AuthoritySound
(* What a participant was told is stored is stored: one record, two        *)
(* copies, and bytes that prove the payload.                               *)
EvidenceKept == focus = "evidence" => E!EvidenceKept
=============================================================================
