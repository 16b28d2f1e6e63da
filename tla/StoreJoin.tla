----------------------------- MODULE StoreJoin ------------------------------
(* Joining a plan as a supplier (store/join) and the supplier directory    *)
(* behind it (store/suppliers). An approval pairs the applicant's wallet   *)
(* with a subject: it creates and reviews the supplier, registers the      *)
(* identity and only then authorizes the application. One plan and one     *)
(* slot; each step is one store or governance call, and every write is the *)
(* copy that was read before it.                                           *)
EXTENDS Integers, FiniteSets

CONSTANTS
  ApplicationIds,    \* a set of numbers: taken in order
  JoinWallets, Subjects, NoWallet,
  JoinRequests,      \* requests in flight
  MaxCalls,          \* requests served
  MaxTrouble         \* failures of the governance, turns of the listing

VARIABLES
  entryOpen,         \* the plan's listing is public and without conflict
  applications,      \* application id -> record
  activated,         \* applications with an "activated" event
  suppliers,         \* subject -> metadata record
  govReviews,        \* subject -> statuses the governance accepted
  govReview,         \* subject -> status of its latest governance review
  bindings,          \* subject -> wallet -> status in the identity projection
  unindexed,         \* identity transactions the index has not seen
  grants,            \* authorizations in the orders of the plan
  work,              \* request -> where it is
  joinBudget         \* calls and troubles so far

joinVars == << entryOpen, applications, activated, suppliers, govReviews, govReview, bindings,
               unindexed, grants, work, joinBudget >>
directoryVars == << suppliers, govReviews, govReview >>
chainVars == << bindings, unindexed, grants >>

NoApplication == [ status |-> "none" ]
NoSupplier == [ review |-> "none" ]
NotWorking == [ at |-> "idle" ]

(* An identity may be bound before the plan has any application.           *)
Init ==
  /\ entryOpen = TRUE
  /\ applications = [ a \in ApplicationIds |-> NoApplication ] /\ activated = {}
  /\ suppliers = [ s \in Subjects |-> NoSupplier ]
  /\ govReviews = [ s \in Subjects |-> {} ] /\ govReview = [ s \in Subjects |-> "none" ]
  /\ \E bound \in SUBSET (Subjects \X JoinWallets) :
       /\ Cardinality(bound) <= 1
       /\ bindings = [ s \in Subjects |-> [ w \in JoinWallets |-> IF << s, w >> \in bound THEN "active" ELSE "none" ] ]
  /\ unindexed = {} /\ grants = {}
  /\ work = [ r \in JoinRequests |-> NotWorking ]
  /\ joinBudget = [ calls |-> 0, trouble |-> 0 ]

Trouble == joinBudget.trouble < MaxTrouble /\ joinBudget' = [ joinBudget EXCEPT !.trouble = @ + 1 ]

(* A request comes in.                                                     *)
Called == joinBudget.calls < MaxCalls /\ joinBudget' = [ joinBudget EXCEPT !.calls = @ + 1 ]

Go(r, w) == work' = [ work EXCEPT ![r] = w ]
Done(r) == Go(r, NotWorking)

-----------------------------------------------------------------------------
Open == { "applied", "under_review" }

OpenOf(wallet) ==
  { a \in ApplicationIds : applications[a].status \in Open /\ applications[a].address = wallet }

(* The index of open applications, (plan_id, applicant_address), holds for *)
(* insertions and for updates.                                             *)
openApplicationUnique(a, record) ==
  record.status \in Open => OpenOf(record.address) \ {a} = {}

putApplication(a, record) ==
  applications' = IF openApplicationUnique(a, record) THEN [ applications EXCEPT ![a] = record ] ELSE applications

(* A listing that is delisted or in conflict closes the entry.             *)
assertJoinEntryAllowedNow == entryOpen

submitApplication(r, wallet, subject) ==
  /\ work[r] = NotWorking /\ Called
  /\ assertJoinEntryAllowedNow
  /\ OpenOf(wallet) = {}
  /\ Go(r, [ at |-> "submit", copy |-> [ status |-> "applied", address |-> wallet, subject |-> subject ] ])
  /\ UNCHANGED << entryOpen, applications, activated, directoryVars, chainVars >>

SubmitWrites(r, a) ==
  /\ work[r].at = "submit"
  /\ applications[a] = NoApplication /\ \A x \in ApplicationIds : applications[x] = NoApplication => a <= x
  /\ putApplication(a, work[r].copy)
  /\ Done(r)
  /\ UNCHANGED << entryOpen, activated, directoryVars, chainVars, joinBudget >>

(* startReview, rejectApplication and revokeApplication: the application   *)
(* read, the status it will be written back with.                          *)
Decides(r, a, status) ==
  /\ work[r] = NotWorking /\ Called
  /\ Go(r, [ at |-> "decide", app |-> a, copy |-> [ applications[a] EXCEPT !.status = status ] ])
  /\ UNCHANGED << entryOpen, applications, activated, directoryVars, chainVars >>

startReview(r, a) == applications[a].status = "applied" /\ Decides(r, a, "under_review")

rejectApplication(r, a) == applications[a].status \in Open /\ Decides(r, a, "rejected")

revokeApplication(r, a) ==
  applications[a].status \in Open \cup { "authorized", "active" } /\ Decides(r, a, "revoked")

DecisionWrites(r) ==
  /\ work[r].at = "decide"
  /\ putApplication(work[r].app, work[r].copy)
  /\ Done(r)
  /\ UNCHANGED << entryOpen, activated, directoryVars, chainVars, joinBudget >>

-----------------------------------------------------------------------------
ActiveOf(subject) == { w \in JoinWallets : bindings[subject][w] = "active" }
SubjectsOf(wallet) == { s \in Subjects : bindings[s][wallet] = "active" }

(* approveApplication by a reviewer of the plan, who may or may not be an  *)
(* operator and a governance admin too.                                    *)
approveApplication(r, a, governance, operator) ==
  /\ work[r] = NotWorking /\ Called
  /\ applications[a].status = "under_review"
  /\ assertJoinEntryAllowedNow
  /\ Go(r, [ at |-> "pair", app |-> a, copy |-> applications[a], governance |-> governance, operator |-> operator ])
  /\ UNCHANGED << entryOpen, applications, activated, directoryVars, chainVars >>

(* No binding or supplier record gives the subject to another wallet, or   *)
(* the wallet to another subject.                                          *)
Unoccupied(subject, wallet) ==
  /\ SubjectsOf(wallet) \subseteq {subject}
  /\ ActiveOf(subject) \subseteq {wallet}
  /\ suppliers[subject] # NoSupplier => suppliers[subject].wallet \in { wallet, NoWallet }

(* What the reviewer must hold before the first write.                     *)
AuthorityHeld(actor, bound, needsReview) ==
  bound \/ (actor.governance /\ (needsReview => actor.operator))

(* ensureIdentityPairing up to its first write: refused, or on to the next *)
(* step that is needed.                                                    *)
ensureIdentityPairing(r) ==
  LET job == work[r]
      subject == job.copy.subject
      bound == ActiveOf(subject) = {job.copy.address}
      known == suppliers[subject] # NoSupplier
      needsReview == ~known \/ suppliers[subject].review # "approved_for_broadcast"
      next == CASE ~known -> "create" [] known /\ bound -> "authorize"
                [] known /\ ~bound /\ needsReview -> "review" [] OTHER -> "register"
  IN /\ job.at = "pair"
     /\ Go(r, IF Unoccupied(subject, job.copy.address) /\ AuthorityHeld(job, bound, needsReview)
                THEN [ at |-> next, app |-> job.app, copy |-> job.copy, bound |-> bound,
                       governed |-> job.governance /\ job.operator ]
                ELSE NotWorking)
     /\ UNCHANGED << entryOpen, applications, activated, directoryVars, chainVars, joinBudget >>

(* The metadata record of a new supplier, and who asked for it.            *)
createMetadataRecord(status, wallet, by) ==
  [ review |-> status, wallet |-> wallet, created |-> status, by |-> by ]

(* The record with what the request gives, whole.                          *)
mergeReviewMetadata(current, status, wallet) == [ current EXCEPT !.review = status, !.wallet = wallet ]
mergeRequestMetadata(current, wallet) == [ current EXCEPT !.wallet = wallet ]

(* createSupplier from the approval: a subject has one metadata record.    *)
PairingCreates(r) ==
  /\ work[r].at = "create"
  /\ IF suppliers[work[r].copy.subject] = NoSupplier
     THEN /\ suppliers' = [ suppliers EXCEPT ![work[r].copy.subject] =
                createMetadataRecord(IF work[r].bound THEN "approved_for_broadcast" ELSE "submitted",
                                     work[r].copy.address,
                                     IF work[r].governed THEN "governance" ELSE "reviewer") ]
          /\ Go(r, [ work[r] EXCEPT !.at = IF work[r].bound THEN "authorize" ELSE "review" ])
     ELSE Done(r) /\ UNCHANGED suppliers
  /\ UNCHANGED << entryOpen, applications, activated, govReviews, govReview, chainVars, joinBudget >>

(* The application is written back as authorized, whatever it has become.  *)
ApprovalWrites(r) ==
  /\ work[r].at = "authorize"
  /\ putApplication(work[r].app, [ work[r].copy EXCEPT !.status = "authorized" ])
  /\ Done(r)
  /\ UNCHANGED << entryOpen, activated, directoryVars, chainVars, joinBudget >>

-----------------------------------------------------------------------------
(* createSupplier by an operator: any status, with or without a wallet.    *)
createSupplier(subject, wallet, status) ==
  /\ suppliers[subject] = NoSupplier
  /\ Called
  /\ suppliers' = [ suppliers EXCEPT ![subject] = createMetadataRecord(status, wallet, "operator") ]
  /\ UNCHANGED << entryOpen, applications, activated, govReviews, govReview, chainVars, work >>

(* Fault: the metadata is written although the governance failed.          *)
WriteAnyway(accepted) == TRUE

(* "First the governance, then the store".                                 *)
GovernanceFirst(accepted) == accepted

(* reviewSupplier: the metadata is read, the governance stores the review, *)
(* and only then is the copy written.                                      *)
Reviews(r, subject, status, job, accepted) ==
  /\ suppliers[subject] # NoSupplier
  /\ govReviews' = IF accepted THEN [ govReviews EXCEPT ![subject] = @ \cup {status} ] ELSE govReviews
  /\ govReview' = IF accepted THEN [ govReview EXCEPT ![subject] = status ] ELSE govReview
  /\ IF GovernanceFirst(accepted) THEN Go(r, job) ELSE Done(r)

PairingReviews(r, accepted) ==
  LET subject == work[r].copy.subject
  IN /\ work[r].at = "review"
     /\ Reviews(r, subject, "approved_for_broadcast",
          [ at |-> "store", subject |-> subject, then |-> [ work[r] EXCEPT !.at = "register" ],
            supplier |-> mergeReviewMetadata(suppliers[subject], "approved_for_broadcast",
                                             work[r].copy.address) ], accepted)
     /\ IF accepted THEN UNCHANGED joinBudget ELSE Trouble
     /\ UNCHANGED << entryOpen, applications, activated, suppliers, chainVars >>

reviewSupplier(r, subject, status, accepted) ==
  /\ work[r] = NotWorking /\ Called
  /\ Reviews(r, subject, status,
       [ at |-> "store", subject |-> subject, then |-> NotWorking,
         supplier |-> mergeReviewMetadata(suppliers[subject], status, suppliers[subject].wallet) ], accepted)
  /\ UNCHANGED << entryOpen, applications, activated, suppliers, chainVars >>

(* saveNotificationProfile, signed by the wallet, moves the supplier to it.*)
saveNotificationProfile(r, subject, wallet) ==
  /\ work[r] = NotWorking /\ Called
  /\ suppliers[subject] # NoSupplier
  /\ Go(r, [ at |-> "store", subject |-> subject, then |-> NotWorking,
             supplier |-> [ suppliers[subject] EXCEPT !.wallet = wallet ] ])
  /\ UNCHANGED << entryOpen, applications, activated, directoryVars, chainVars >>

(* putSupplier with its audit record.                                      *)
putSupplier(r) ==
  /\ work[r].at = "store"
  /\ suppliers' = [ suppliers EXCEPT ![work[r].subject] = work[r].supplier ]
  /\ Go(r, work[r].then)
  /\ UNCHANGED << entryOpen, applications, activated, govReviews, govReview, chainVars, joinBudget >>

(* requestIdentityRegistration of a supplier approved in both places; the  *)
(* call comes back whether or not the broadcast succeeded.                 *)
Registers(r, subject, wallet, then, lands) ==
  /\ suppliers[subject] # NoSupplier
  /\ IF /\ suppliers[subject].review = "approved_for_broadcast"
        /\ govReview[subject] = "approved_for_broadcast"
     THEN /\ unindexed' = IF lands THEN unindexed \cup { [ subject |-> subject, wallet |-> wallet, status |-> "active" ] }
                                   ELSE unindexed
          /\ Go(r, [ at |-> "store", subject |-> subject, then |-> then,
                     supplier |-> mergeRequestMetadata(suppliers[subject], wallet) ])
     ELSE Done(r) /\ UNCHANGED unindexed

PairingRegisters(r, lands) ==
  /\ work[r].at = "register"
  /\ Registers(r, work[r].copy.subject, work[r].copy.address, [ work[r] EXCEPT !.at = "authorize" ], lands)
  /\ UNCHANGED << entryOpen, applications, activated, directoryVars, bindings, grants, joinBudget >>

requestIdentityRegistration(r, subject, lands) ==
  /\ work[r] = NotWorking /\ Called
  /\ suppliers[subject] # NoSupplier
  /\ suppliers[subject].wallet # NoWallet
  /\ Registers(r, subject, suppliers[subject].wallet, NotWorking, lands)
  /\ UNCHANGED << entryOpen, applications, activated, directoryVars, bindings, grants >>

(* requestIdentityRevocation of the active binding: the metadata turns     *)
(* revoked only when the broadcast did not fail.                           *)
requestIdentityRevocation(r, subject, wallet, lands) ==
  /\ work[r] = NotWorking /\ Called
  /\ suppliers[subject] # NoSupplier
  /\ bindings[subject][wallet] = "active"
  /\ IF lands
     THEN /\ unindexed' = unindexed \cup { [ subject |-> subject, wallet |-> wallet, status |-> "revoked" ] }
          /\ govReviews' = [ govReviews EXCEPT ![subject] = @ \cup {"revoked"} ]
          /\ govReview' = [ govReview EXCEPT ![subject] = IF @ = "none" THEN "none" ELSE "revoked" ]
     ELSE UNCHANGED << unindexed, govReviews, govReview >>
  /\ IF GovernanceFirst(lands)
     THEN Go(r, [ at |-> "store", subject |-> subject, then |-> NotWorking,
                  supplier |-> [ suppliers[subject] EXCEPT !.review = "revoked" ] ])
     ELSE Done(r)
  /\ UNCHANGED << entryOpen, applications, activated, suppliers, bindings, grants >>

-----------------------------------------------------------------------------

(* The authorization must be one of the slot applied for.                  *)
findOnChainAuthorizationEvidence(wallet) == \E g \in grants : g.wallet = wallet /\ g.place = "slot"

ReadApplication(r, a) ==
  /\ work[r] = NotWorking /\ Called
  /\ applications[a].status \in { "authorized", "active" }
  /\ Go(r, [ at |-> "resolve", app |-> a, copy |-> applications[a] ])
  /\ UNCHANGED << entryOpen, applications, activated, directoryVars, chainVars >>

(* What the application read becomes when it is looked at.                 *)
Converged(copy) ==
  LET active == ActiveOf(copy.subject)
  IN CASE active = {} /\ (\E w \in JoinWallets : bindings[copy.subject][w] = "revoked") -> "revoked"
       [] active # {} /\ copy.address \notin active /\ copy.status = "active" -> "revoked"
       [] copy.status = "authorized" /\ copy.address \in active
            /\ findOnChainAuthorizationEvidence(copy.address) -> "active"
       [] OTHER -> copy.status

(* An activation is stored once; a second one is only answered.            *)
resolveApplicationDetail(r) ==
  LET a == work[r].app
      copy == work[r].copy
      status == Converged(copy)
      activates == status = "active" /\ copy.status # "active"
  IN /\ work[r].at = "resolve"
     /\ IF status = copy.status \/ (activates /\ a \in activated)
        THEN UNCHANGED applications
        ELSE putApplication(a, [ copy EXCEPT !.status = status ])
     /\ activated' = IF activates THEN activated \cup {a} ELSE activated
     /\ Done(r)
     /\ UNCHANGED << entryOpen, directoryVars, chainVars, joinBudget >>

-----------------------------------------------------------------------------
(* The listing of the plan is published or taken down.                     *)
EntryTurns ==
  /\ Trouble
  /\ entryOpen' = ~entryOpen
  /\ UNCHANGED << applications, activated, directoryVars, chainVars, work >>

IdentityIndexed(t) ==
  /\ unindexed' = unindexed \ {t}
  /\ bindings' = [ bindings EXCEPT ![t.subject][t.wallet] = t.status ]
  /\ UNCHANGED << entryOpen, applications, activated, directoryVars, grants, work, joinBudget >>

(* An order of the plan authorizes the wallet, for the slot or elsewhere.  *)
OrderGrants(wallet, place) ==
  /\ grants = {}
  /\ grants' = grants \cup { [ wallet |-> wallet, place |-> place ] }
  /\ UNCHANGED << entryOpen, applications, activated, directoryVars, bindings, unindexed, work, joinBudget >>

Next ==
  \/ EntryTurns
  \/ \E t \in unindexed : IdentityIndexed(t)
  \/ \E wallet \in JoinWallets, place \in { "slot", "elsewhere" } : OrderGrants(wallet, place)
  \/ \E subject \in Subjects, wallet \in JoinWallets \cup {NoWallet},
        status \in { "submitted", "approved_for_broadcast" } : createSupplier(subject, wallet, status)
  \/ \E r \in JoinRequests :
       \/ \E wallet \in JoinWallets, subject \in Subjects : submitApplication(r, wallet, subject)
       \/ \E a \in ApplicationIds :
            \/ SubmitWrites(r, a)
            \/ startReview(r, a)
            \/ rejectApplication(r, a)
            \/ revokeApplication(r, a)
            \/ \E governance, operator \in BOOLEAN : approveApplication(r, a, governance, operator)
            \/ ReadApplication(r, a)
       \/ DecisionWrites(r)
       \/ ensureIdentityPairing(r)
       \/ PairingCreates(r)
       \/ ApprovalWrites(r)
       \/ putSupplier(r)
       \/ resolveApplicationDetail(r)
       \/ \E ok \in BOOLEAN :
            \/ PairingReviews(r, ok)
            \/ PairingRegisters(r, ok)
            \/ \E subject \in Subjects :
                 \/ \E status \in { "approved_for_broadcast", "rejected" } : reviewSupplier(r, subject, status, ok)
                 \/ requestIdentityRegistration(r, subject, ok)
                 \/ \E wallet \in JoinWallets : requestIdentityRevocation(r, subject, wallet, ok)
       \/ \E subject \in Subjects, wallet \in JoinWallets : saveNotificationProfile(r, subject, wallet)

Spec == Init /\ [][Next]_joinVars

-----------------------------------------------------------------------------
(* A wallet has one open application for a plan, whatever concurrent       *)
(* submissions and reviews write back from stale copies.                   *)
OneOpenApplication == \A wallet \in JoinWallets : Cardinality(OpenOf(wallet)) <= 1

(* An approval never leaves half of its work: a supplier that an approval  *)
(* created was created by a governance admin who is an operator, or for a  *)
(* wallet the registry already bound to that subject.                      *)
NoHalfCommit ==
  \A s \in Subjects :
    suppliers[s] # NoSupplier =>
      (suppliers[s].by = "reviewer" => \E w \in JoinWallets : bindings[s][w] # "none")

(* "First the governance, then the store": the directory shows a reviewed  *)
(* or revoked status only if the governance accepted that status.          *)
MetadataFollowsGovernance ==
  \A s \in Subjects :
    suppliers[s] # NoSupplier => suppliers[s].review \in govReviews[s] \cup { suppliers[s].created }

(* An application is active only when its wallet holds an authorization of *)
(* the slot applied for and the registry bound the wallet to its subject.  *)
ActiveWasAuthorized ==
  \A a \in ApplicationIds :
    applications[a].status = "active" =>
      /\ \E g \in grants : g.wallet = applications[a].address /\ g.place = "slot"
      /\ bindings[applications[a].subject][applications[a].address] # "none"

(* Applications, suppliers, reviews and bindings are separate writes of    *)
(* concurrent requests and still agree.                                    *)
JoinSound == OneOpenApplication /\ NoHalfCommit /\ MetadataFollowsGovernance /\ ActiveWasAuthorized

-----------------------------------------------------------------------------
(* The invariant behind JoinSound.                                         *)
ApplicationStatus == { "applied", "under_review", "rejected", "revoked", "authorized", "active" }
Applications == [ status : ApplicationStatus, address : JoinWallets, subject : Subjects ]
ReviewStatus == { "submitted", "approved_for_broadcast", "rejected", "revoked" }
Suppliers == [ review : ReviewStatus, wallet : JoinWallets \cup {NoWallet}, created : ReviewStatus,
               by : { "governance", "reviewer", "operator" } ]
Identities == [ subject : Subjects, wallet : JoinWallets, status : { "active", "revoked" } ]

(* Where a request is, and what it carries there.                          *)
Pairing(steps) ==
  [ at : steps, app : ApplicationIds, copy : Applications, bound : BOOLEAN, governed : BOOLEAN ]
Works == {NotWorking} \cup Pairing({ "create", "review", "register", "authorize" })
           \cup [ at : {"submit"}, copy : Applications ]
           \cup [ at : { "decide", "resolve" }, app : ApplicationIds, copy : Applications ]
           \cup [ at : {"pair"}, app : ApplicationIds, copy : Applications, governance : BOOLEAN, operator : BOOLEAN ]
           \cup [ at : {"store"}, subject : Subjects, supplier : Suppliers,
                   then : {NotWorking} \cup Pairing({ "register", "authorize" }) ]

JoinTypes ==
  /\ applications \in [ ApplicationIds -> Applications \cup {NoApplication} ]
  /\ suppliers \in [ Subjects -> Suppliers \cup {NoSupplier} ]
  /\ govReviews \in [ Subjects -> SUBSET ReviewStatus ]
  /\ bindings \in [ Subjects -> [ JoinWallets -> { "none", "active", "revoked" } ] ]
  /\ unindexed \subseteq Identities
  /\ work \in [ JoinRequests -> Works ]

(* A record of the directory, stored or about to be: reviewed by the       *)
(* governance, and created with the authority it needs.                    *)
Bound(s) == \E w \in JoinWallets : bindings[s][w] # "none"
SupplierInv(s, record) ==
  /\ record.review \in govReviews[s] \cup { record.created }
  /\ record.by = "reviewer" => Bound(s)

DirectoryInv == \A s \in Subjects : suppliers[s] # NoSupplier => SupplierInv(s, suppliers[s])

WorkInv(job) ==
  /\ job.at = "store" => SupplierInv(job.subject, job.supplier)
  /\ job.at = "create" => job.governed \/ Bound(job.copy.subject)
  /\ job.at \in { "submit", "decide" } => job.copy.status # "active"

OpenInv ==
  \A a, b \in ApplicationIds :
    (/\ applications[a].status \in Open /\ applications[b].status \in Open
     /\ applications[a].address = applications[b].address) => a = b

IndInv ==
  /\ JoinTypes /\ OpenInv /\ ActiveWasAuthorized /\ DirectoryInv
  /\ \A r \in JoinRequests : WorkInv(work[r])
=============================================================================
