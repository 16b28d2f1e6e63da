------------------------------ MODULE Invites ------------------------------
(* The participants of one order draft: invitations to its role slots, the *)
(* wallets that accept or reject them, and the authorizations the trigger  *)
(* of the order is prepared with (product/query/bff). A request reads the  *)
(* store, checks, and writes in one store transaction: other requests and  *)
(* the clock may move between its steps.                                   *)
EXTENDS Integers, FiniteSets

CONSTANTS
  Roles,            \* role slots of the zhixu, one participant each
  RequiredRoles,    \* the slots that must be filled
  TriggerSchema,    \* [explicit, static, capable]: the slot createOrderTrigger names, the static
                    \* executor of the trigger stage, the slots with a plugin for that stage
  PermissionTable,  \* rows [role, source, signal]
  PatchRows,        \* rows of the stage patch actions of the slots' manifests
  InviteIds,        \* invites that can be created
  InviteWallets,    \* wallets with an anchored session
  NoOne,            \* no wallet
  InviteRequests,   \* requests in flight
  Lifetimes,        \* expiresAt values a creator may choose
  MaxInviteTime

VARIABLES
  inviteTime,
  draftStatus,      \* ProductOrderDraftDTO.status
  participants,     \* role -> [status, wallet]
  invites,          \* invite -> [status, role, expires, wallet]
  requests,         \* request -> what it read and what it is about to do
  acceptances,      \* (invite, role, wallet) answered as accepted
  authorized        \* the authorizations of the last prepared trigger

inviteVars == << inviteTime, draftStatus, participants, invites, requests, acceptances, authorized >>

Idle == [ at |-> "idle" ]
NoInvite == [ status |-> "none" ]

Init ==
  /\ inviteTime = 0
  /\ draftStatus = "draft"
  /\ participants = [ r \in Roles |-> [ status |-> "missing", wallet |-> NoOne ] ]
  /\ invites = [ i \in InviteIds |-> NoInvite ]
  /\ requests = [ q \in InviteRequests |-> Idle ]
  /\ acceptances = {}
  /\ authorized = {}

-----------------------------------------------------------------------------
isInviteExpired(invite) == invite.expires <= inviteTime

inviteWithCurrentStatus(invite) ==
  IF invite.status = "active" /\ isInviteExpired(invite) THEN "expired" ELSE invite.status

(* The wallet holds another role of this draft.                            *)
inviteWalletBinding(role, wallet) ==
  \E r \in Roles \ {role} : participants[r] = [ status |-> "accepted", wallet |-> wallet ]

(* What the preview of an invite tells the wallet that opens it.           *)
inviteAcceptance(i, wallet) ==
  LET status == inviteWithCurrentStatus(invites[i])
      role   == invites[i].role
  IN CASE status # "active" -> status
       [] status = "active" /\ participants[role].status = "accepted" -> "role_already_filled"
       [] status = "active" /\ participants[role].status # "accepted" ->
            IF inviteWalletBinding(role, wallet) THEN "wallet_already_bound" ELSE "can_accept"

assertWalletCanAcceptInvite(role, found, wallet) ==
  /\ found.status # "accepted"
  /\ ~inviteWalletBinding(role, wallet)

(* The status a draft gets from its participants, unless its trigger has   *)
(* begun; every write of a participant ends with it.                       *)
refreshDraftStatus(status, after) ==
  IF status \in { "triggering", "triggered", "failed", "cancelled" } THEN status
  ELSE IF RequiredRoles # {} /\ \A r \in RequiredRoles : after[r].status = "accepted"
         THEN "ready_to_trigger"
       ELSE IF \E r \in Roles : after[r].status # "missing" THEN "awaiting_participants"
       ELSE "draft"

Step(q, next) == requests' = [ requests EXCEPT ![q] = next ]

-----------------------------------------------------------------------------
(* createInvite: the draft and the participant are read, then the draft's  *)
(* invites, then the participant and the invite are written.               *)
CreateReads(q, role) ==
  /\ requests[q].at = "idle"
  /\ participants[role].status # "accepted"
  /\ Step(q, [ at |-> "create.checked", role |-> role, found |-> participants[role], draft |-> draftStatus ])
  /\ UNCHANGED << inviteTime, draftStatus, participants, invites, acceptances, authorized >>

HasActiveInvite(role) ==
  \E i \in InviteIds :
    invites[i].status = "active" /\ invites[i].role = role /\ ~isInviteExpired(invites[i])

CreateChecks(q) ==
  /\ requests[q].at = "create.checked"
  /\ Step(q, IF HasActiveInvite(requests[q].role) THEN Idle ELSE [ requests[q] EXCEPT !.at = "create.write" ])
  /\ UNCHANGED << inviteTime, draftStatus, participants, invites, acceptances, authorized >>

createInviteIfNoneActive(role) == ~HasActiveInvite(role)

(* The insert is conditional and the transaction is undone when it does    *)
(* not take place.                                                         *)
CreateWrites(q, i, expires) ==
  /\ requests[q].at = "create.write"
  /\ invites[i] = NoInvite
  /\ LET r     == requests[q].role
         after == [ participants EXCEPT ![r] = [ requests[q].found EXCEPT !.status = "invited" ] ]
     IN IF createInviteIfNoneActive(r)
          THEN /\ participants' = after
               /\ invites' = [ invites EXCEPT ![i] =
                     [ status |-> "active", role |-> r, expires |-> expires, wallet |-> NoOne ] ]
               /\ draftStatus' = refreshDraftStatus(requests[q].draft, after)
          ELSE UNCHANGED << participants, invites, draftStatus >>
  /\ Step(q, Idle)
  /\ UNCHANGED << inviteTime, acceptances, authorized >>

-----------------------------------------------------------------------------
(* acceptInvite and rejectInvite: the caller holds the token, and to       *)
(* accept a session of the wallet. requireAcceptableInvite writes an       *)
(* invite it finds expired back as expired.                                *)
requireAcceptableInvite(q, i, kind, wallet) ==
  /\ requests[q].at = "idle"
  /\ invites[i].status = "active"
  /\ Step(q, [ at |-> IF isInviteExpired(invites[i]) THEN "expire" ELSE "answer.participant",
               invite |-> i, kind |-> kind, wallet |-> wallet ])
  /\ UNCHANGED << inviteTime, draftStatus, participants, invites, acceptances, authorized >>

ExpireInvite(q) ==
  /\ requests[q].at = "expire"
  /\ invites' = [ invites EXCEPT ![requests[q].invite].status = "expired" ]
  /\ Step(q, Idle)
  /\ UNCHANGED << inviteTime, draftStatus, participants, acceptances, authorized >>

AnswerChecks(q) ==
  /\ requests[q].at = "answer.participant"
  /\ LET role == invites[requests[q].invite].role
         next == [ at |-> "answer.write", invite |-> requests[q].invite, kind |-> requests[q].kind,
                   wallet |-> requests[q].wallet, found |-> participants[role] ]
     IN Step(q, IF requests[q].kind = "rejected" \/
                   assertWalletCanAcceptInvite(role, participants[role], requests[q].wallet)
                THEN next ELSE Idle)
  /\ UNCHANGED << inviteTime, draftStatus, participants, invites, acceptances, authorized >>

(* Fault: the state of the invite is not a condition of its update.        *)
UpdateInvite(i) == TRUE

updateInviteIfActive(i) == invites[i].status = "active"

AnswerWrites(q) ==
  /\ requests[q].at = "answer.write"
  /\ LET i      == requests[q].invite
         role   == invites[i].role
         wallet == IF requests[q].kind = "accepted" THEN requests[q].wallet ELSE requests[q].found.wallet
         after  == [ participants EXCEPT ![role] = [ status |-> requests[q].kind, wallet |-> wallet ] ]
     IN IF updateInviteIfActive(i)
          THEN /\ invites' = [ invites EXCEPT ![i] =
                     [ invites[i] EXCEPT !.status = requests[q].kind,
                                         !.wallet = IF requests[q].kind = "accepted" THEN requests[q].wallet
                                                    ELSE invites[i].wallet ] ]
               /\ participants' = after
               /\ draftStatus' = refreshDraftStatus(draftStatus, after)
               /\ acceptances' = IF requests[q].kind = "accepted"
                                   THEN acceptances \cup { << i, role, requests[q].wallet >> }
                                   ELSE acceptances
          ELSE UNCHANGED << invites, participants, draftStatus, acceptances >>
  /\ Step(q, Idle)
  /\ UNCHANGED << inviteTime, authorized >>

-----------------------------------------------------------------------------
(* prepareOrderTrigger builds the authorizations of the order from the     *)
(* participants it reads; the registration it stores is OrderTrigger's.    *)
Filled(role) == participants[role].status = "accepted" /\ participants[role].wallet # NoOne

(* The slot whose participant may trigger the order: the declared one, or  *)
(* the static executor of the trigger stage, or the only capable slot.     *)
resolveTriggerSubmitterAuthority ==
  CASE TriggerSchema.explicit # NoOne -> { TriggerSchema.explicit } \cap Roles
    [] TriggerSchema.explicit = NoOne /\ TriggerSchema.static # NoOne -> { TriggerSchema.static } \cap Roles
    [] TriggerSchema.explicit = NoOne /\ TriggerSchema.static = NoOne ->
         IF Cardinality(TriggerSchema.capable) = 1 THEN TriggerSchema.capable ELSE {}

requireTriggerSubmitter(wallet) ==
  \E r \in resolveTriggerSubmitterAuthority : Filled(r) /\ participants[r].wallet = wallet

requireAcceptedRequiredParticipants == \A r \in RequiredRoles : Filled(r)

Authorization(row) == [ source |-> row.source, signal |-> row.signal, role |-> row.role,
                        submitter |-> participants[row.role].wallet ]

resolvePermissions == { Authorization(row) : row \in PermissionTable }

(* The patch actions of the slots whose participant has accepted.          *)
stagePatchAuthorizations == { Authorization(row) : row \in { p \in PatchRows : Filled(p.role) } }

(* Fault: the rows of roles that share a wallet are not compared.          *)
NoComparison(set) == TRUE

(* One authorization per source, signal and submitter.                     *)
addAuthorization(set) ==
  \A a, b \in set :
    (a.source = b.source /\ a.signal = b.signal /\ a.submitter = b.submitter) => a = b

buildAuthorizations(wallet) ==
  /\ requireTriggerSubmitter(wallet)
  /\ requireAcceptedRequiredParticipants
  /\ PermissionTable # {}
  /\ \A row \in PermissionTable : Filled(row.role)
  /\ addAuthorization(resolvePermissions \cup stagePatchAuthorizations)

PrepareTrigger(wallet) ==
  /\ draftStatus = "ready_to_trigger"
  /\ buildAuthorizations(wallet)
  /\ authorized' = resolvePermissions \cup stagePatchAuthorizations
  /\ UNCHANGED << inviteTime, draftStatus, participants, invites, requests, acceptances >>

(* The prepared trigger is submitted (OrderTrigger's StoreSubmitting).     *)
SubmitTrigger ==
  /\ draftStatus = "ready_to_trigger" /\ authorized # {}
  /\ draftStatus' = "triggering"
  /\ UNCHANGED << inviteTime, participants, invites, requests, acceptances, authorized >>

TimePasses ==
  /\ inviteTime < MaxInviteTime
  /\ inviteTime' = inviteTime + 1
  /\ UNCHANGED << draftStatus, participants, invites, requests, acceptances, authorized >>

Next ==
  \/ \E q \in InviteRequests :
       \/ \E r \in Roles : CreateReads(q, r)
       \/ CreateChecks(q)
       \/ \E i \in InviteIds, e \in Lifetimes : CreateWrites(q, i, e)
       \/ \E i \in InviteIds, w \in InviteWallets : requireAcceptableInvite(q, i, "accepted", w)
       \/ \E i \in InviteIds : requireAcceptableInvite(q, i, "rejected", NoOne)
       \/ ExpireInvite(q)
       \/ AnswerChecks(q)
       \/ AnswerWrites(q)
  \/ \E w \in InviteWallets : PrepareTrigger(w)
  \/ SubmitTrigger
  \/ TimePasses

Spec == Init /\ [][Next]_inviteVars

-----------------------------------------------------------------------------
(* A participant never has two invites that could both be accepted: two    *)
(* creators may pass createInvite's check together, the conditional insert *)
(* lets one of them through.                                               *)
OneActiveInvite ==
  \A i, j \in InviteIds :
    (/\ invites[i].status = "active" /\ invites[j].status = "active"
     /\ invites[i].role = invites[j].role
     /\ ~isInviteExpired(invites[i]) /\ ~isInviteExpired(invites[j])) => i = j

(* An invite is answered once: two wallets that hold its token cannot both *)
(* be told that they fill the role, whatever the interleaving and even if  *)
(* the invite is found expired between the two.                            *)
SpentOnce == \A a, b \in acceptances : a[1] = b[1] => a = b

(* What the preview tells a wallet is what acceptInvite would do now: it   *)
(* offers acceptance exactly when every check of acceptInvite would pass.  *)
PreviewTruthful ==
  \A i \in InviteIds, w \in InviteWallets :
    invites[i] # NoInvite =>
      ((inviteAcceptance(i, w) = "can_accept") <=>
         /\ invites[i].status = "active" /\ ~isInviteExpired(invites[i])
         /\ assertWalletCanAcceptInvite(invites[i].role, participants[invites[i].role], w))

(* A role has one open invite, an invite one answer, and the preview       *)
(* tells which answer it would be.                                         *)
InvitesSound == OneActiveInvite /\ SpentOnce /\ PreviewTruthful

(* An order is prepared with authority for wallets that accepted an invite *)
(* to the very role the authority is for, never for a wallet that was      *)
(* replaced, rejected or never asked.                                      *)
AuthorityWasAccepted ==
  \A a \in authorized : \E i \in InviteIds : << i, a.role, a.submitter >> \in acceptances

(* No two roles of an order hold the same signal of the same source with   *)
(* one wallet: a wallet that two racing acceptances bound to both is       *)
(* caught when the trigger is prepared.                                    *)
NoDoubleAuthority ==
  \A a, b \in authorized :
    (a.source = b.source /\ a.signal = b.signal /\ a.submitter = b.submitter) => a.role = b.role

(* The authority an order is prepared with is the accepted one, and no     *)
(* wallet holds it twice.                                                  *)
AuthoritySound == AuthorityWasAccepted /\ NoDoubleAuthority
-----------------------------------------------------------------------------
(* The invariant behind InvitesSound and AuthoritySound.                   *)
Wallets == InviteWallets \cup {NoOne}
Participant == [ status : { "missing", "invited", "accepted", "rejected" }, wallet : Wallets ]
Invite == [ status : { "active", "expired", "accepted", "rejected" }, role : Roles, expires : Int, wallet : Wallets ]
Kinds == { "accepted", "rejected" }
DraftStatuses == { "draft", "awaiting_participants", "ready_to_trigger", "triggering", "triggered", "failed", "cancelled" }

InviteTypes ==
  /\ inviteTime \in Nat
  /\ participants \in [ Roles -> Participant ]
  /\ invites \in [ InviteIds -> {NoInvite} \cup Invite ]
  /\ requests \in [ InviteRequests ->
       {Idle} \cup [ at : { "create.checked", "create.write" }, role : Roles, found : Participant, draft : DraftStatuses ]
       \cup [ at : { "expire", "answer.participant" }, invite : InviteIds, kind : Kinds, wallet : Wallets ]
       \cup [ at : {"answer.write"}, invite : InviteIds, kind : Kinds, wallet : Wallets, found : Participant ] ]
  /\ draftStatus \in DraftStatuses

(* A request that answers an invite has seen it, and to accept it brings   *)
(* a wallet.                                                               *)
RequestInv(q) ==
  requests[q].at \in { "expire", "answer.participant", "answer.write" } =>
    invites[requests[q].invite] # NoInvite

(* An answered invite is never active again.                               *)
AcceptanceInv(a) ==
  a[1] \in InviteIds /\ invites[a[1]].status \notin { "none", "active" }

ParticipantInv(r) ==
  participants[r].status = "accepted" => \E i \in InviteIds : << i, r, participants[r].wallet >> \in acceptances

IndInv ==
  /\ InviteTypes /\ OneActiveInvite /\ SpentOnce /\ AuthoritySound
  /\ \A q \in InviteRequests : RequestInv(q)
  /\ \A a \in acceptances : AcceptanceInv(a)
  /\ \A r \in Roles : ParticipantInv(r)
=============================================================================
