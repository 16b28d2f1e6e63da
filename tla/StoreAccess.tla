---------------------------- MODULE StoreAccess ----------------------------
(* Who may do what in the Store: the identity a request resolves to        *)
(* (console/access.ts, the overlay of sessions/service.ts, governance/     *)
(* auth.ts), the checks each route makes before it acts (api/routes), and  *)
(* the audit record it leaves (console/audit.ts). A request resolves its   *)
(* identity again at each check, so a session may end in between, and the  *)
(* durable audit store may fail.                                           *)
EXTENDS Integers, FiniteSets

CONSTANTS
  JwtRoleSets,       \* the role claims tokens carry
  RouteNames,        \* the routes that are called
  MaxAuditFailures

VARIABLES
  deployment,    \* runtime, identity mode and lists of the deployment
  caller,        \* what the caller's headers say and prove
  walletSession, \* list its session's address is on: "none", "plain", "operator", "admin"
  call,          \* the request in progress
  trail,         \* outcomes written durably for it
  auditFailures

accessVars == << deployment, caller, walletSession, call, trail, auditFailures >>

-----------------------------------------------------------------------------
(* Capability tables of access.ts.                                         *)
PublicRead == { "store.read" }
READ_CAPABILITIES == PublicRead \cup { "store.audit.read", "store.docking.read" }
OPERATOR_CAPABILITIES == READ_CAPABILITIES \cup
  { "store.draft.import", "store.draft.compile", "store.draft.schema.save", "store.listing.manage",
    "store.supplier.create", "store.supplier.review", "store.supplier.tags.update",
    "store.supplier.notification_profile.update", "store.docking.create", "store.docking.validate",
    "store.docking.save" }
ADMIN_CAPABILITIES == OPERATOR_CAPABILITIES \cup { "store.version.activate", "store.version.deprecate" }
GovernanceOnly == { "store.draft.review", "store.supplier.identity.register", "store.supplier.identity.revoke" }

(* The wallet table has no docking read.                                   *)
capabilitiesForAccessLevel(level) ==
  CASE level = "store_admin"    -> ADMIN_CAPABILITIES \ { "store.docking.read" }
    [] level = "store_operator" -> OPERATOR_CAPABILITIES \ { "store.docking.read" }
    [] OTHER                    -> PublicRead

storeAccessRequiredLevel(capability) ==
  CASE capability \in GovernanceOnly -> "governance_admin"
    [] capability \in ADMIN_CAPABILITIES \ OPERATOR_CAPABILITIES -> "store_admin"
    [] capability \in READ_CAPABILITIES -> "store_read"
    [] OTHER -> "store_operator"

Rank == [ anonymous_read |-> 0, store_read |-> 1, store_operator |-> 2, store_admin |-> 3 ]

maxAccessLevel(a, b) == IF Rank[a] >= Rank[b] THEN a ELSE b

Access(level, named, capabilities, governance, canWrite) ==
  [ level |-> level, named |-> named, capabilities |-> capabilities, governance |-> governance,
    canWrite |-> canWrite, anchor |-> "none" ]

anonymousAccess == Access("anonymous_read", FALSE, PublicRead, FALSE, FALSE)

-----------------------------------------------------------------------------
Strict == deployment.runtime = "strict"

(* An empty list admits a self-reported admin on local only.               *)
governanceAdminAllowed ==
  IF deployment.whitelist THEN caller.listed ELSE ~Strict

(* Outside local the header also needs the password of the admin side.     *)
adminPrincipalFromHeaders ==
  /\ caller.adminHeader
  /\ governanceAdminAllowed
  /\ Strict => caller.password

jwtConfigBlocked == deployment.mode = "jwt" /\ Strict /\ ~deployment.evidence

devHeaderAuthEnabled == deployment.mode = "dev_headers" /\ ~Strict

resolveStoreAccessFromHeaders ==
  IF ~devHeaderAuthEnabled THEN anonymousAccess
  ELSE IF adminPrincipalFromHeaders
    THEN Access("store_admin", TRUE, ADMIN_CAPABILITIES \cup GovernanceOnly, TRUE, TRUE)
    ELSE CASE caller.role = "none"     -> anonymousAccess
           [] caller.role = "admin"    -> Access("store_admin", TRUE, ADMIN_CAPABILITIES, FALSE, TRUE)
           [] caller.role = "operator" -> Access("store_operator", TRUE, OPERATOR_CAPABILITIES, FALSE, TRUE)
           [] OTHER                    -> Access("store_read", TRUE, READ_CAPABILITIES, FALSE, FALSE)

(* The governance role of a token counts for a listed principal only.      *)
canonicalStoreRoles ==
  { r \in caller.jwtRoles : r = "governance_admin" => governanceAdminAllowed }

capabilitiesForStoreRoles(roles) ==
  PublicRead
    \cup (IF "store_reader" \in roles THEN READ_CAPABILITIES ELSE {})
    \cup (IF "store_operator" \in roles THEN OPERATOR_CAPABILITIES ELSE {})
    \cup (IF "store_admin" \in roles THEN ADMIN_CAPABILITIES ELSE {})
    \cup (IF "governance_admin" \in roles THEN READ_CAPABILITIES \cup GovernanceOnly ELSE {})

accessLevelForStoreRoles(roles) ==
  IF "store_admin" \in roles THEN "store_admin"
  ELSE IF "store_operator" \in roles THEN "store_operator" ELSE "store_read"

JwtCanWrite(capabilities) == capabilities \ READ_CAPABILITIES # {}

storeAccessFromJwtPayload ==
  LET roles == canonicalStoreRoles
      capabilities == capabilitiesForStoreRoles(roles)
  IN Access(accessLevelForStoreRoles(roles), TRUE, capabilities, "governance_admin" \in roles,
            JwtCanWrite(capabilities))

resolveStoreAccessFromJwt ==
  IF caller.jwt = "valid" THEN storeAccessFromJwtPayload ELSE anonymousAccess

BaseAccess ==
  CASE jwtConfigBlocked -> anonymousAccess
    [] deployment.mode = "jwt" /\ ~jwtConfigBlocked -> resolveStoreAccessFromJwt
    [] OTHER -> resolveStoreAccessFromHeaders

(* By the list the address is on.                                          *)
walletSessionAccessLevel(list) ==
  CASE list = "admin" -> "store_admin"
    [] list = "operator" -> "store_operator"
    [] OTHER -> "store_read"

mergeWalletSessionIntoAccess(base) ==
  LET level == walletSessionAccessLevel(walletSession)
  IN [ base EXCEPT !.level = maxAccessLevel(base.level, level),
                   !.named = TRUE,
                   !.capabilities = @ \cup capabilitiesForAccessLevel(level),
                   !.canWrite = @ \/ level \in { "store_operator", "store_admin" },
                   !.anchor = "wallet" ]

(* StoreIdentityProvider.resolve of createWalletSessionStoreIdentityProvider. *)
resolve ==
  IF walletSession # "none" THEN mergeWalletSessionIntoAccess(BaseAccess)
  ELSE IF ~Strict /\ caller.devAnchor /\ deployment.devAnchor
         THEN [ BaseAccess EXCEPT !.anchor = "dev" ]
         ELSE BaseAccess

(* resolveParticipantWalletIdentity: whose wallet the caller acts for.     *)
(* A claimed wallet is compared with the anchor, and stands alone on local *)
(* only.                                                                   *)
resolveParticipantWalletIdentity(claimed) ==
  CASE resolve.anchor # "none" -> IF claimed \in { "none", "own" } THEN "own" ELSE "refused"
    [] resolve.anchor = "none" /\ ~Strict /\ claimed # "none" -> claimed
    [] OTHER -> "refused"

(* resolveEvidencePrincipal                                                *)
resolveEvidencePrincipal(claimed) ==
  CASE resolve.governance \/ adminPrincipalFromHeaders -> "admin"
    [] OTHER -> IF resolve.anchor # "none" THEN "own"
                ELSE IF ~Strict /\ claimed # "none" THEN claimed ELSE "refused"

-----------------------------------------------------------------------------
(* What the handlers check before they act. lane: "store" resolves the     *)
(* identity provider, "admin" the headers of the admin side, "participant" *)
(* and "evidence" the wallet.                                              *)
Plain == [ lane |-> "store", capability |-> "none", named |-> FALSE, principal |-> FALSE,
           anchored |-> FALSE, tags |-> FALSE, confirmed |-> FALSE, audited |-> FALSE, writes |-> FALSE ]

Query(c) == [ Plain EXCEPT !.capability = c ]
AuditedQuery(c) == [ Plain EXCEPT !.capability = c, !.audited = TRUE ]
Write(c) == [ Plain EXCEPT !.capability = c, !.anchored = TRUE, !.audited = TRUE, !.writes = TRUE ]
AnchoredWrite == [ Plain EXCEPT !.anchored = TRUE, !.writes = TRUE ]

consoleRoutes ==
  [ auditLog |-> AuditedQuery("store.audit.read"), dryRun |-> AuditedQuery("store.audit.read"),
    productSchema |-> Query("store.draft.compile") ]

runtimeRoutes == [ runtimeSummary |-> Query("store.audit.read") ]

versionRoutes ==
  [ activate |-> [ Write("store.version.activate") EXCEPT !.confirmed = TRUE ],
    deprecate |-> [ Write("store.version.deprecate") EXCEPT !.confirmed = TRUE ] ]

draftRoutes ==
  [ importDraft |-> Write("store.draft.import"), getDraft |-> Query("store.draft.compile"),
    saveSchema |-> Write("store.draft.schema.save"), validateSchema |-> Write("store.draft.compile") ]

compileRoutes ==
  [ compilePreview |-> Write("store.draft.compile"),
    submitReview |-> [ Write("store.draft.review") EXCEPT !.principal = TRUE ] ]

supplierRoutes ==
  [ listSuppliers |-> [ Query("store.read") EXCEPT !.named = TRUE ],
    createSupplier |-> Write("store.supplier.create"),
    supplierAudits |-> AuditedQuery("store.audit.read"),
    prepareProfile |-> Query("store.supplier.notification_profile.update"),
    saveProfile |-> [ Write("store.supplier.notification_profile.update") EXCEPT !.audited = FALSE ] ]

supplierActionRoutes ==
  [ reviewSupplier |-> [ Write("store.supplier.review") EXCEPT !.confirmed = TRUE, !.tags = TRUE ],
    registerIdentity |-> [ Write("store.supplier.identity.register") EXCEPT !.confirmed = TRUE ],
    revokeIdentity |-> [ Write("store.supplier.identity.revoke") EXCEPT !.confirmed = TRUE ] ]

dockingRoutes ==
  [ createDocking |-> Write("store.docking.create"), getDocking |-> AuditedQuery("store.docking.read"),
    validateDocking |-> Write("store.docking.validate"), saveDraftMap |-> Write("store.docking.save") ]

listingRoutes ==
  [ importListing |-> Write("store.listing.manage"), importOwnListing |-> AnchoredWrite,
    reviewListing |-> Write("store.listing.manage") ]

decorationRoutes == [ saveDecoration |-> AnchoredWrite, restoreVersion |-> AnchoredWrite,
                      delegate |-> AnchoredWrite, revokeDelegation |-> AnchoredWrite ]

joinRoutes == [ submitApplication |-> AnchoredWrite, reviewApplication |-> AnchoredWrite ]

governanceRoutes == [ reviewZhixu |-> [ Plain EXCEPT !.lane = "admin", !.writes = TRUE ] ]

opsRoutes == [ runReconcile |-> [ Plain EXCEPT !.lane = "ops", !.writes = TRUE ] ]

participantRoutes ==
  [ readActivity |-> [ Plain EXCEPT !.lane = "participant" ],
    uploadEvidence |-> [ Plain EXCEPT !.lane = "evidence", !.writes = TRUE ] ]

Groups ==
  { consoleRoutes, runtimeRoutes, versionRoutes, draftRoutes, compileRoutes, supplierRoutes,
    supplierActionRoutes, dockingRoutes, listingRoutes, decorationRoutes, joinRoutes,
    governanceRoutes, opsRoutes, participantRoutes }
KnownRoutes == UNION { DOMAIN group : group \in Groups }
Route(op) == (CHOOSE group \in Groups : op \in DOMAIN group)[op]

-----------------------------------------------------------------------------
Idle == [ at |-> "idle" ]

Deployments ==
  { d \in [ runtime : { "local", "strict" }, mode : { "dev_headers", "jwt" }, evidence : BOOLEAN,
            whitelist : BOOLEAN, devAnchor : BOOLEAN, opsList : { "unset", "others" } ] :
      /\ d.evidence => d.mode = "jwt" /\ d.runtime = "strict"
      /\ d.devAnchor => d.runtime = "local" }

Callers(d) ==
  { c \in [ role : { "none", "reader", "operator", "admin" }, adminHeader : BOOLEAN, listed : BOOLEAN,
            password : BOOLEAN, jwt : { "none", "valid" }, jwtRoles : JwtRoleSets, devAnchor : BOOLEAN ] :
      /\ c.role # "none" => d.mode = "dev_headers" /\ ~c.adminHeader
      /\ c.jwt = "valid" => d.mode = "jwt" /\ ~c.adminHeader
      /\ c.jwt = "none" => c.jwtRoles = {}
      /\ c.listed => d.whitelist
      /\ c.password => c.adminHeader /\ d.runtime = "strict"
      /\ c.devAnchor => d.devAnchor }

Init ==
  /\ deployment \in Deployments
  /\ caller \in Callers(deployment)
  /\ walletSession \in { "none", "plain", "operator", "admin" }
  /\ call = Idle
  /\ trail = {}
  /\ auditFailures = 0

(* recordStoreAudit: a failure of the durable store is raised again.       *)
(* Fault: it is not raised.                                                *)
AuditQuietly(outcome, whenStored, whenNot) ==
  \/ trail' = trail \cup { outcome } /\ UNCHANGED auditFailures /\ call' = whenStored
  \/ auditFailures < MaxAuditFailures /\ auditFailures' = auditFailures + 1
     /\ UNCHANGED trail /\ call' = whenStored

recordStoreAudit(outcome, whenStored, whenNot) ==
  \/ trail' = trail \cup { outcome } /\ UNCHANGED auditFailures /\ call' = whenStored
  \/ auditFailures < MaxAuditFailures /\ auditFailures' = auditFailures + 1
     /\ UNCHANGED trail /\ call' = whenNot

Done(status) == [ call EXCEPT !.at = "done", !.status = status ]
Refused == IF resolve.named THEN 403 ELSE 401

Arrive ==
  /\ call = Idle
  /\ \E op \in RouteNames, claimed \in { "none", "own", "other" }, tags, confirms \in BOOLEAN :
       /\ claimed # "none" => Route(op).lane \in { "participant", "evidence" }
       /\ tags => Route(op).tags
       /\ confirms => Route(op).confirmed
       /\ call' = [ at |-> CASE Route(op).lane # "store" -> Route(op).lane
                             [] Route(op).lane = "store" /\ Route(op).capability = "none" -> "anchor"
                             [] OTHER -> "authorize",
                    op |-> op, claimed |-> claimed, tags |-> tags, confirms |-> confirms,
                    acted |-> FALSE, actor |-> "none", wallet |-> "none", held |-> FALSE, status |-> 0 ]
  /\ trail' = {} /\ auditFailures' = 0
  /\ UNCHANGED << deployment, caller, walletSession >>

(* authorizeStoreCapability                                                *)
authorizeStoreCapability ==
  /\ call.at = "authorize"
  /\ LET route == Route(call.op)
     IN CASE route.capability \in resolve.capabilities /\ (route.named => resolve.named) ->
               /\ call' = [ call EXCEPT !.at = IF route.principal THEN "principal"
                                               ELSE IF route.anchored THEN "anchor" ELSE "act",
                                        !.wallet = walletSession, !.held = resolve.governance ]
               /\ UNCHANGED << trail, auditFailures >>
          [] route.capability \in resolve.capabilities /\ route.named /\ ~resolve.named ->
               call' = Done(401) /\ UNCHANGED << trail, auditFailures >>
          [] OTHER -> recordStoreAudit("blocked", Done(Refused), Done(503))
  /\ UNCHANGED << deployment, caller, walletSession >>

(* submit-review asks for the governance principal of the access it holds. *)
RequirePrincipal ==
  /\ call.at = "principal"
  /\ IF call.held THEN call' = [ call EXCEPT !.at = "anchor" ] /\ UNCHANGED << trail, auditFailures >>
     ELSE recordStoreAudit("failed", Done(403), Done(503))
  /\ UNCHANGED << deployment, caller, walletSession >>

requireAnchoredStoreAddress ==
  /\ call.at = "anchor"
  /\ IF resolve.anchor # "none"
     THEN /\ call' = [ call EXCEPT !.at = IF call.tags THEN "tags"
                                          ELSE IF Route(call.op).confirmed THEN "confirm" ELSE "act",
                                   !.actor = resolve.anchor ]
          /\ UNCHANGED << trail, auditFailures >>
     ELSE recordStoreAudit("blocked", Done(Refused), Done(503))
  /\ UNCHANGED << deployment, caller, walletSession >>

AuthorizeTags ==
  /\ call.at = "tags"
  /\ IF "store.supplier.tags.update" \in resolve.capabilities
     THEN call' = [ call EXCEPT !.at = "confirm" ] /\ UNCHANGED << trail, auditFailures >>
     ELSE recordStoreAudit("blocked", Done(Refused), Done(503))
  /\ UNCHANGED << deployment, caller, walletSession >>

requireStoreConfirmation ==
  /\ call.at = "confirm"
  /\ IF call.confirms THEN call' = [ call EXCEPT !.at = "act" ] /\ UNCHANGED << trail, auditFailures >>
     ELSE recordStoreAudit("rejected", Done(400), Done(503))
  /\ UNCHANGED << deployment, caller, walletSession >>

(* The service does the work or raises.                                    *)
Act(succeeds) ==
  /\ call.at = "act"
  /\ call' = [ call EXCEPT !.acted = succeeds /\ Route(call.op).writes,
                           !.at = IF Route(call.op).audited
                                    THEN (IF succeeds THEN "audit" ELSE "failing") ELSE "done",
                           !.status = IF Route(call.op).audited THEN 0 ELSE IF succeeds THEN 200 ELSE 409 ]
  /\ UNCHANGED << deployment, caller, walletSession, trail, auditFailures >>

(* A failed success record falls into the catch of the handler.            *)
recordStoreCapabilitySuccess ==
  /\ call.at = "audit"
  /\ recordStoreAudit("succeeded", Done(200), [ call EXCEPT !.at = "failing" ])
  /\ UNCHANGED << deployment, caller, walletSession >>

recordStoreCapabilityFailure ==
  /\ call.at = "failing"
  /\ recordStoreAudit("failed", Done(503), Done(503))
  /\ UNCHANGED << deployment, caller, walletSession >>

(* The admin sides take the principal from the headers; the ops console    *)
(* has a list of its own and runs only after a clean preflight.            *)
AdminRequest(preflight) ==
  /\ call.at \in { "admin", "ops" }
  /\ call' = IF adminPrincipalFromHeaders /\ (call.at = "ops" => deployment.opsList = "unset" /\ preflight)
               THEN [ Done(200) EXCEPT !.acted = TRUE ]
               ELSE Done(IF call.at = "ops" /\ adminPrincipalFromHeaders /\ deployment.opsList = "unset"
                           THEN 503 ELSE 403)
  /\ UNCHANGED << deployment, caller, walletSession, trail, auditFailures >>

ParticipantRequest ==
  /\ call.at \in { "participant", "evidence" }
  /\ LET actor == IF call.at = "participant" THEN resolveParticipantWalletIdentity(call.claimed)
                  ELSE resolveEvidencePrincipal(call.claimed)
     IN call' = IF actor = "refused" THEN Done(401)
                ELSE [ Done(200) EXCEPT !.actor = actor, !.acted = Route(call.op).writes ]
  /\ UNCHANGED << deployment, caller, walletSession, trail, auditFailures >>

(* Logout, revocation of the address or expiry, between two resolves.      *)
SessionEnds ==
  /\ walletSession # "none"
  /\ walletSession' = "none"
  /\ UNCHANGED << deployment, caller, call, trail, auditFailures >>

Next ==
  \/ Arrive
  \/ authorizeStoreCapability
  \/ RequirePrincipal
  \/ requireAnchoredStoreAddress
  \/ AuthorizeTags
  \/ requireStoreConfirmation
  \/ \E succeeds \in BOOLEAN : Act(succeeds)
  \/ recordStoreCapabilitySuccess
  \/ recordStoreCapabilityFailure
  \/ \E preflight \in BOOLEAN : AdminRequest(preflight)
  \/ ParticipantRequest
  \/ SessionEnds

Spec == Init /\ [][Next]_accessVars

-----------------------------------------------------------------------------
(* Outside local nothing a caller merely says lets it change Store state:  *)
(* the capability was carried by its wallet's list, by a verified token of *)
(* an external identity provider, or by the admin password, and the wallet *)
(* the change is attributed to was proved by a session.                    *)
NoSelfAssertion ==
  (Strict /\ call # Idle /\ call.acted) =>
    /\ Route(call.op).capability # "none" =>
         \/ caller.jwt = "valid" /\ deployment.evidence
         \/ call.wallet # "none"
            /\ Route(call.op).capability \in capabilitiesForAccessLevel(walletSessionAccessLevel(call.wallet))
    /\ Route(call.op).anchored => call.actor = "wallet"
    /\ Route(call.op).lane \in { "admin", "ops" } => caller.password /\ caller.listed

(* Governance stays apart from Store administration: reviewing a draft and *)
(* registering or revoking an identity need a principal on the governance  *)
(* list (any principal on a local deployment without one), whatever role a *)
(* token claims and whatever list a wallet is on.                          *)
GovernanceSeparated ==
  (call # Idle /\ call.acted /\ (Route(call.op).capability \in GovernanceOnly \/ Route(call.op).lane = "admin")) =>
    IF deployment.whitelist THEN caller.listed ELSE ~Strict

(* What a resolved identity says of itself agrees: whoever holds a         *)
(* capability has the level (or the governance principal) the refusal of   *)
(* that capability asks for, and canWrite is true exactly of those who     *)
(* hold a capability that writes.                                          *)
AccessCoherent ==
  LET access == resolve IN
    /\ \A c \in access.capabilities \ PublicRead :
         IF storeAccessRequiredLevel(c) = "governance_admin" THEN access.governance
         ELSE Rank[access.level] >= Rank[storeAccessRequiredLevel(c)]
    /\ access.canWrite <=> access.capabilities \ READ_CAPABILITIES # {}

(* An audited action is answered as done only when its success is durably  *)
(* recorded, and a refusal (400, 401, 403) means that nothing was done.    *)
AnswersMatchTrail ==
  (call # Idle /\ call.at = "done") =>
    /\ (call.status = 200 /\ Route(call.op).audited) => "succeeded" \in trail
    /\ call.status \in { 400, 401, 403 } => ~call.acted

(* A participant acts for the wallet it is anchored to: another wallet     *)
(* named in the request is refused, and stands only on local, where there  *)
(* is no anchor to compare it with.                                        *)
ActsForOwnWallet ==
  (call # Idle /\ call.at = "done" /\ call.actor = "other") => ~Strict /\ walletSession = "none"

(* Who may act, for whom, and what is recorded of it.                      *)
AccessSound ==
  NoSelfAssertion /\ GovernanceSeparated /\ AccessCoherent /\ AnswersMatchTrail /\ ActsForOwnWallet

-----------------------------------------------------------------------------
(* The invariant behind AccessSound: what a call passed its checks with    *)
(* stays true of it, although the session it passed with may be gone.      *)
Checked == { "principal", "anchor", "tags", "confirm", "act", "audit", "failing" }
PastAnchor == Checked \ { "principal", "anchor" }

CallStages == { "authorize", "admin", "ops", "participant", "evidence", "done" } \cup Checked
CallActors == { "none", "wallet", "dev", "own", "other", "admin" }
CallWallets == { "none", "plain", "operator", "admin" }
CallStatuses == { 0, 200, 400, 401, 403, 409, 503 }
Calls ==
  [ at : CallStages, op : RouteNames, claimed : { "none", "own", "other" }, tags : BOOLEAN,
    confirms : BOOLEAN, acted : BOOLEAN, actor : CallActors, wallet : CallWallets, held : BOOLEAN,
    status : CallStatuses ]

(* By its own headers or token, or by the wallet it was authorized with.   *)
Entitled(capability) ==
  \/ capability \in BaseAccess.capabilities
  \/ /\ call.wallet # "none"
     /\ capability \in capabilitiesForAccessLevel(walletSessionAccessLevel(call.wallet))

CallerInv ==
  /\ deployment \in Deployments
  /\ caller \in Callers(deployment)
  /\ walletSession \in { "none", "plain", "operator", "admin" }

LaneInv ==
  LET route == Route(call.op)
  IN /\ call.at \in { "admin", "ops", "participant", "evidence" } => call.at = route.lane
     /\ call.at \in Checked \cup { "authorize" } => route.lane = "store"
     /\ call.acted => call.at \in { "audit", "failing", "done" }
     /\ call.acted /\ route.lane = "store" => route.writes
     /\ call.acted /\ route.lane \in { "admin", "ops" } => adminPrincipalFromHeaders

PassedInv ==
  LET route == Route(call.op)
  IN /\ (call.at \in Checked \/ call.acted) /\ route.capability # "none" => Entitled(route.capability)
     /\ (call.at \in PastAnchor \/ call.acted) /\ route.anchored /\ Strict => call.actor = "wallet"
     /\ call.actor = "other" => call.at = "done" /\ ~Strict /\ walletSession = "none"

IndInv ==
  /\ CallerInv
  /\ call # Idle => call \in Calls /\ LaneInv /\ PassedInv
  /\ AnswersMatchTrail
=============================================================================
