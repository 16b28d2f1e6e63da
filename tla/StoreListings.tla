--------------------------- MODULE StoreListings ---------------------------
(* The shelf of the Store for one plan: its listing, and the verification  *)
(* of the anchors the listing claims (store/listings). Every operation     *)
(* reads, checks and then writes the copy it read. The claimed plan hash,  *)
(* deployment and address are one claim here, right or wrong.              *)
EXTENDS Integers, FiniteSets

CONSTANTS
  ListingIds,        \* a set of numbers: ids are taken in order
  Editors            \* operations in flight on listings

VARIABLES
  projectedPlan,   \* what the index has seen of the plan
  chainPlan,       \* what a read of the contract answers
  chainViewOn,     \* an RPC endpoint is configured
  listings,        \* listing id -> record
  edits            \* operation -> what it read and will write

shelfVars == << projectedPlan, chainPlan, chainViewOn, listings, edits >>

NoListing == [ status |-> "none" ]
Free == [ at |-> "idle" ]

Init ==
  /\ projectedPlan = "none" /\ chainPlan = "none"
  /\ chainViewOn \in BOOLEAN
  /\ listings = [ l \in ListingIds |-> NoListing ]
  /\ edits = [ e \in Editors |-> Free ]

-----------------------------------------------------------------------------
Step == [ none |-> "committed", committed |-> "registered", registered |-> "registered" ]

(* The plan is committed and finalized on chain; the index follows.        *)
PlanAdvances ==
  /\ chainPlan # "registered"
  /\ chainPlan' = Step[chainPlan]
  /\ UNCHANGED << projectedPlan, chainViewOn, listings, edits >>

PlanIndexed ==
  /\ projectedPlan # chainPlan
  /\ projectedPlan' = Step[projectedPlan]
  /\ UNCHANGED << chainPlan, chainViewOn, listings, edits >>

isPlanRegisteredProjection == projectedPlan = "registered"

(* The checks of verifyListingAnchors that come out as a mismatch, and the *)
(* status made of them. reads is FALSE when the configured node fails.     *)
Mismatches(claim, reads) ==
  (IF ~isPlanRegisteredProjection THEN { "plan_projected" } ELSE {})
    \cup (IF isPlanRegisteredProjection /\ claim = "wrong" THEN { "plan_hash" } ELSE {})
    \cup (IF chainViewOn /\ reads /\ chainPlan # "registered" THEN { "chain_plan_finalized" } ELSE {})

verifyListingAnchors(claim, reads) ==
  [ status |-> CASE Mismatches(claim, reads) # {} -> "conflict"
                 [] Mismatches(claim, reads) = {} /\ isPlanRegisteredProjection -> "consistent"
                 [] OTHER -> "pending_indexing",
    chainReadFailed |-> chainViewOn /\ ~reads ]

(* Fault: a node that cannot be read counts as one that is not configured. *)
AllowsWithoutChain(verification) == verification.status = "consistent"

anchorVerificationAllowsPublish(verification) ==
  verification.status = "consistent" /\ ~verification.chainReadFailed

-----------------------------------------------------------------------------
(* importListing by an operator or by the plan's publisher: no listing of  *)
(* the plan was found; a plan that is not indexed needs its hash claimed.  *)
ImportReads(e, claim, operator, publisher) ==
  /\ edits[e] = Free
  /\ \A l \in ListingIds : listings[l] = NoListing
  /\ ~operator => projectedPlan # "none" /\ publisher
  /\ claim = "none" => projectedPlan # "none"
  /\ edits' = [ edits EXCEPT ![e] = [ at |-> "import", claim |-> IF claim = "none" THEN "right" ELSE claim ] ]
  /\ UNCHANGED << projectedPlan, chainPlan, chainViewOn, listings >>

(* UNIQUE(plan_id) decides between concurrent imports.                     *)
putListingUnique(l) == \A x \in ListingIds : listings[x] = NoListing

ImportWrites(e, l) ==
  /\ edits[e].at = "import"
  /\ listings[l] = NoListing /\ \A x \in ListingIds : listings[x] = NoListing => l <= x
  /\ listings' = IF putListingUnique(l)
                   THEN [ listings EXCEPT ![l] = [ status |-> "imported", claim |-> edits[e].claim, evidence |-> {} ] ]
                   ELSE listings
  /\ edits' = [ edits EXCEPT ![e] = Free ]
  /\ UNCHANGED << projectedPlan, chainPlan, chainViewOn >>

Evidence(reads) == { "projection" } \cup (IF chainViewOn /\ reads THEN { "chain" } ELSE {})

(* reviewListing and relistListing: the listing is read and, to be public, *)
(* verified.                                                               *)
reviewListing(e, l, decision, reads) ==
  /\ edits[e] = Free
  /\ listings[l].status \in { "imported", "rejected" }
  /\ decision = "public" => anchorVerificationAllowsPublish(verifyListingAnchors(listings[l].claim, reads))
  /\ edits' = [ edits EXCEPT ![e] = [ at |-> "write", listing |-> l,
       record |-> [ listings[l] EXCEPT
         !.status = decision, !.evidence = IF decision = "public" THEN Evidence(reads) ELSE listings[l].evidence ] ] ]
  /\ UNCHANGED << projectedPlan, chainPlan, chainViewOn, listings >>

relistListing(e, l, reads) ==
  /\ edits[e] = Free
  /\ listings[l].status = "delisted"
  /\ anchorVerificationAllowsPublish(verifyListingAnchors(listings[l].claim, reads))
  /\ edits' = [ edits EXCEPT ![e] = [ at |-> "write", listing |-> l,
       record |-> [ listings[l] EXCEPT !.status = "public", !.evidence = Evidence(reads) ] ] ]
  /\ UNCHANGED << projectedPlan, chainPlan, chainViewOn, listings >>

delistListing(e, l) ==
  /\ edits[e] = Free
  /\ listings[l].status = "public"
  /\ edits' = [ edits EXCEPT ![e] = [ at |-> "write", listing |-> l,
                                      record |-> [ listings[l] EXCEPT !.status = "delisted" ] ] ]
  /\ UNCHANGED << projectedPlan, chainPlan, chainViewOn, listings >>

(* putListing writes the copy whatever the row has become.                 *)
putListing(e) ==
  /\ edits[e].at = "write"
  /\ listings' = [ listings EXCEPT ![edits[e].listing] = edits[e].record ]
  /\ edits' = [ edits EXCEPT ![e] = Free ]
  /\ UNCHANGED << projectedPlan, chainPlan, chainViewOn >>

Next ==
  \/ PlanAdvances
  \/ PlanIndexed
  \/ \E e \in Editors :
       \/ \E claim \in { "none", "right", "wrong" }, operator, publisher \in BOOLEAN :
            ImportReads(e, claim, operator, publisher)
       \/ \E l \in ListingIds :
            \/ ImportWrites(e, l)
            \/ \E decision \in { "public", "rejected" }, reads \in BOOLEAN : reviewListing(e, l, decision, reads)
            \/ \E reads \in BOOLEAN : relistListing(e, l, reads)
            \/ delistListing(e, l)
       \/ putListing(e)

Spec == Init /\ [][Next]_shelfVars

-----------------------------------------------------------------------------
(* A plan has one listing, and a listing is public only when its claims    *)
(* agree with the registered plan and with every configured source: the    *)
(* index, and the contract itself when a node is configured, whatever      *)
(* stale copies concurrent reviews and relistings write.                   *)
PublicIsVerified ==
  /\ \A l \in ListingIds :
       listings[l].status = "public" =>
         /\ listings[l].claim = "right" /\ isPlanRegisteredProjection
         /\ chainViewOn => "chain" \in listings[l].evidence
  /\ Cardinality({ l \in ListingIds : listings[l] # NoListing }) <= 1

-----------------------------------------------------------------------------
(* The invariant behind PublicIsVerified.                                  *)
PlanStates == { "none", "committed", "registered" }

Listed == [ status : { "imported", "public", "rejected", "delisted" }, claim : { "right", "wrong" },
            evidence : SUBSET { "projection", "chain" } ]

ShelfTypes ==
  /\ projectedPlan \in PlanStates /\ chainPlan \in PlanStates /\ chainViewOn \in BOOLEAN
  /\ listings \in [ ListingIds -> Listed \cup {NoListing} ]
  /\ edits \in [ Editors -> {Free} \cup [ at : {"import"}, claim : { "right", "wrong" } ]
                              \cup [ at : {"write"}, listing : ListingIds, record : Listed ] ]

(* A record that may be shown: once true of a record it stays true, since  *)
(* a plan stays registered and the deployment keeps its node.              *)
MayBeShown(record) ==
  record.status = "public" =>
    record.claim = "right" /\ isPlanRegisteredProjection /\ (chainViewOn => "chain" \in record.evidence)

(* The listing found when a copy was taken is still the only one, and no   *)
(* copy in flight shows what was not verified when it was made.            *)
IndInv ==
  /\ ShelfTypes
  /\ \A l, m \in ListingIds : (listings[l] # NoListing /\ listings[m] # NoListing) => l = m
  /\ \A l \in ListingIds : MayBeShown(listings[l])
  /\ \A e \in Editors : edits[e].at = "write" =>
       listings[edits[e].listing] # NoListing /\ MayBeShown(edits[e].record)
=============================================================================
