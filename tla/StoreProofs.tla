---------------------------- MODULE StoreProofs ----------------------------
(***************************************************************************)
(* Theorems about the Store, for any number of concurrent requests and any *)
(* size of the sets: the invariant of a component is inductive under the   *)
(* component's own steps, and so under those of MCStore while the          *)
(* behaviour is about that component.                                      *)
(***************************************************************************)
EXTENDS MCStore, FiniteSetTheorems, SequenceTheorems, WellFoundedInduction, TLAPS

allVars == << focus, x1, x2, x3, x4, x5, x6, x7, x8, x9, x10, x11 >>

-----------------------------------------------------------------------------
(* A step of the Store is one of the component in focus, or a stutter.     *)
LEMMA FocusStep ==
  ASSUME [Next]_allVars
  PROVE  /\ UNCHANGED focus
         /\ focus = "listings" => [L!Next]_(L!shelfVars)
         /\ focus = "decoration" => [D!Next]_(D!decorationVars)
         /\ focus = "sessions" => [S!Next]_(S!sessionVars)
         /\ focus = "join" => [J!Next]_(J!joinVars)
         /\ focus = "drafts" => [Z!Next]_(Z!draftVars)
         /\ focus = "versions" => [R!Next]_(R!versionVars)
         /\ focus = "schemas" => [V!Next]_(V!schemaVars)
         /\ focus = "access" => [A!Next]_(A!accessVars)
         /\ focus = "docks" => [K!Next]_(K!dockVars)
         /\ focus = "config" => [C!Next]_(C!configVars)
BY DEF Next, allVars, A!accessVars, K!dockVars, C!configVars, L!shelfVars, D!decorationVars, S!sessionVars, J!joinVars, Z!draftVars, R!versionVars, V!schemaVars

(* The modules of the components bring their own name for the cardinality. *)
LEMMA SameCardinality ==
  ASSUME NEW X
  PROVE  /\ L!Cardinality(X) = Cardinality(X) /\ D!Cardinality(X) = Cardinality(X)
         /\ S!Cardinality(X) = Cardinality(X)
BY DEF Cardinality, L!Cardinality, D!Cardinality, S!Cardinality

LEMMA SameCount ==
  ASSUME NEW X
  PROVE  /\ J!Cardinality(X) = Cardinality(X) /\ R!Cardinality(X) = Cardinality(X)
         /\ V!Cardinality(X) = Cardinality(X)
BY DEF Cardinality, J!Cardinality, R!Cardinality, V!Cardinality

LEMMA Quotas == MaxPerAddress \in Nat /\ MaxPerRequester \in Nat /\ IsFiniteSet(Nonces)
BY StoreConstants

LEMMA AtMostOne ==
  ASSUME NEW X, \A a, b \in X : a = b
  PROVE  Cardinality(X) <= 1
<1>1. CASE X = {}
  BY <1>1, FS_EmptySet
<1>2. ASSUME NEW a \in X PROVE Cardinality(X) <= 1
  <2>1. X = {a}
    OBVIOUS
  <2> QED BY <2>1, FS_Singleton
<1> QED BY <1>1, <1>2

-----------------------------------------------------------------------------
(* Listings.                                                               *)
LEMMA ShelfInit == L!Init => L!IndInv
<1> SUFFICES ASSUME L!Init PROVE L!IndInv
  OBVIOUS
<1>1. L!ShelfTypes
  BY DEF L!Init, L!ShelfTypes, L!PlanStates
<1> QED BY <1>1 DEF L!Init, L!IndInv, L!MayBeShown, L!NoListing, L!Free

(* What the checks before a publication establish.                         *)
LEMMA PublishChecks ==
  ASSUME L!ShelfTypes, NEW claim \in { "right", "wrong" }, NEW reads \in BOOLEAN,
         L!anchorVerificationAllowsPublish(L!verifyListingAnchors(claim, reads))
  PROVE  /\ claim = "right" /\ L!isPlanRegisteredProjection
         /\ x3 => "chain" \in L!Evidence(reads)
         /\ L!Evidence(reads) \in SUBSET { "projection", "chain" }
<1>1. L!Mismatches(claim, reads) = {} /\ ~(x3 /\ ~reads)
  BY DEF L!anchorVerificationAllowsPublish, L!verifyListingAnchors
<1> QED BY <1>1 DEF L!Mismatches, L!Evidence, L!ShelfTypes

(* An operation that takes a copy of a listing to write it back.           *)
LEMMA CopyTaken ==
  ASSUME L!IndInv, NEW e \in Editors, NEW l \in ListingIds, NEW record \in L!Listed,
         x4[l] # L!NoListing, L!MayBeShown(record),
         x5' = [ x5 EXCEPT ![e] = [ at |-> "write", listing |-> l, record |-> record ] ],
         UNCHANGED << x1, x2, x3, x4 >>
  PROVE  L!IndInv'
<1>1. L!ShelfTypes'
  BY DEF L!IndInv, L!ShelfTypes
<1>2. ASSUME NEW f \in Editors, x5'[f].at = "write"
      PROVE  x4[x5'[f].listing] # L!NoListing /\ L!MayBeShown(x5'[f].record)
  BY <1>2 DEF L!IndInv, L!ShelfTypes
<1> QED BY <1>1, <1>2 DEF L!IndInv, L!MayBeShown, L!isPlanRegisteredProjection

LEMMA ShelfStep == L!IndInv /\ [L!Next]_(L!shelfVars) => L!IndInv'
<1> SUFFICES ASSUME L!IndInv, [L!Next]_(L!shelfVars) PROVE L!IndInv'
  OBVIOUS
<1>0. L!ShelfTypes
  BY DEF L!IndInv
<1>1. CASE L!PlanAdvances
  BY <1>1 DEF L!PlanAdvances, L!IndInv, L!ShelfTypes, L!PlanStates, L!Step, L!MayBeShown, L!isPlanRegisteredProjection
<1>2. CASE L!PlanIndexed
  BY <1>2 DEF L!PlanIndexed, L!IndInv, L!ShelfTypes, L!PlanStates, L!Step, L!MayBeShown, L!isPlanRegisteredProjection
<1>3. ASSUME NEW e \in Editors, NEW claim \in { "none", "right", "wrong" },
             NEW operator \in BOOLEAN, NEW publisher \in BOOLEAN,
             L!ImportReads(e, claim, operator, publisher)
      PROVE  L!IndInv'
  BY <1>3 DEF L!ImportReads, L!IndInv, L!ShelfTypes, L!MayBeShown, L!isPlanRegisteredProjection
<1>4. ASSUME NEW e \in Editors, NEW l \in ListingIds, L!ImportWrites(e, l) PROVE L!IndInv'
  BY <1>4 DEF L!ImportWrites, L!putListingUnique, L!IndInv, L!ShelfTypes, L!Listed, L!NoListing, L!Free,
     L!MayBeShown, L!isPlanRegisteredProjection
<1>5. ASSUME NEW e \in Editors, NEW l \in ListingIds, NEW decision \in { "public", "rejected" },
             NEW reads \in BOOLEAN, L!reviewListing(e, l, decision, reads)
      PROVE  L!IndInv'
  <2> DEFINE record == [ x4[l] EXCEPT !.status = decision,
                           !.evidence = IF decision = "public" THEN L!Evidence(reads) ELSE @ ]
  <2>1. x4[l] \in L!Listed /\ x4[l] # L!NoListing
    BY <1>0, <1>5 DEF L!reviewListing, L!ShelfTypes, L!NoListing
  <2>2. /\ L!Evidence(reads) \in SUBSET { "projection", "chain" }
        /\ decision = "public" => /\ x4[l].claim = "right" /\ L!isPlanRegisteredProjection
                                  /\ x3 => "chain" \in L!Evidence(reads)
    BY <1>0, <1>5, <2>1, PublishChecks DEF L!reviewListing, L!Listed, L!Evidence
  <2>3. record \in L!Listed /\ L!MayBeShown(record)
    BY <2>1, <2>2 DEF L!Listed, L!MayBeShown
  <2>4. /\ x5' = [ x5 EXCEPT ![e] = [ at |-> "write", listing |-> l, record |-> record ] ]
        /\ UNCHANGED << x1, x2, x3, x4 >>
    BY <1>5 DEF L!reviewListing
  <2> HIDE DEF record
  <2> QED BY <2>1, <2>3, <2>4, CopyTaken
<1>6. ASSUME NEW e \in Editors, NEW l \in ListingIds, NEW reads \in BOOLEAN, L!relistListing(e, l, reads)
      PROVE  L!IndInv'
  <2> DEFINE record == [ x4[l] EXCEPT !.status = "public", !.evidence = L!Evidence(reads) ]
  <2>1. x4[l] \in L!Listed /\ x4[l] # L!NoListing
    BY <1>0, <1>6 DEF L!relistListing, L!ShelfTypes, L!NoListing
  <2>2. /\ L!Evidence(reads) \in SUBSET { "projection", "chain" }
        /\ x4[l].claim = "right" /\ L!isPlanRegisteredProjection
        /\ x3 => "chain" \in L!Evidence(reads)
    BY <1>0, <1>6, <2>1, PublishChecks DEF L!relistListing, L!Listed
  <2>3. record \in L!Listed /\ L!MayBeShown(record)
    BY <2>1, <2>2 DEF L!Listed, L!MayBeShown
  <2>4. /\ x5' = [ x5 EXCEPT ![e] = [ at |-> "write", listing |-> l, record |-> record ] ]
        /\ UNCHANGED << x1, x2, x3, x4 >>
    BY <1>6 DEF L!relistListing
  <2> HIDE DEF record
  <2> QED BY <2>1, <2>3, <2>4, CopyTaken
<1>7. ASSUME NEW e \in Editors, NEW l \in ListingIds, L!delistListing(e, l) PROVE L!IndInv'
  <2> DEFINE record == [ x4[l] EXCEPT !.status = "delisted" ]
  <2>1. x4[l] \in L!Listed /\ x4[l] # L!NoListing
    BY <1>0, <1>7 DEF L!delistListing, L!ShelfTypes, L!NoListing
  <2>2. record \in L!Listed /\ L!MayBeShown(record)
    BY <2>1 DEF L!Listed, L!MayBeShown
  <2>3. /\ x5' = [ x5 EXCEPT ![e] = [ at |-> "write", listing |-> l, record |-> record ] ]
        /\ UNCHANGED << x1, x2, x3, x4 >>
    BY <1>7 DEF L!delistListing
  <2> HIDE DEF record
  <2> QED BY <2>1, <2>2, <2>3, CopyTaken
<1>8. ASSUME NEW e \in Editors, L!putListing(e) PROVE L!IndInv'
  BY <1>8 DEF L!putListing, L!IndInv, L!ShelfTypes, L!Listed, L!NoListing, L!Free,
     L!MayBeShown, L!isPlanRegisteredProjection
<1>9. CASE UNCHANGED L!shelfVars
  BY <1>9 DEF L!shelfVars, L!IndInv, L!ShelfTypes, L!MayBeShown, L!isPlanRegisteredProjection
<1> QED BY <1>1, <1>2, <1>3, <1>4, <1>5, <1>6, <1>7, <1>8, <1>9 DEF L!Next

(* Whatever stale copies concurrent reviews and relistings write back, a   *)
(* listing that is public was verified against every configured source.    *)
THEOREM ShelfVerified == Spec => []PublicIsVerified
<1> DEFINE Inv == focus = "listings" => L!IndInv
<1>1. Init => Inv
  BY ShelfInit DEF Init
<1>2. Inv /\ [Next]_allVars => Inv'
  BY FocusStep, ShelfStep
<1>3. Inv => PublicIsVerified
  <2> SUFFICES ASSUME L!IndInv PROVE L!PublicIsVerified
    BY DEF PublicIsVerified
  <2> DEFINE X == { l \in ListingIds : x4[l] # L!NoListing }
  <2>1. Cardinality(X) <= 1
    BY AtMostOne DEF L!IndInv
  <2>2. L!Cardinality(X) <= 1
    BY <2>1, SameCardinality
  <2> QED BY <2>2 DEF L!IndInv, L!MayBeShown, L!PublicIsVerified
<1> QED BY <1>1, <1>2, <1>3, PTL DEF Spec, allVars

-----------------------------------------------------------------------------
(* Decoration.                                                             *)
LEMMA SameFinite ==
  ASSUME NEW X
  PROVE  D!IsFiniteSet(X) <=> IsFiniteSet(X)
BY DEF IsFiniteSet, D!IsFiniteSet

(* The number of versions, as the page counts them.                        *)
LEMMA VersionsCounted ==
  ASSUME D!IsFiniteSet(x3), NEW v, v \notin x3
  PROVE  /\ D!Cardinality(x3) \in Nat
         /\ D!IsFiniteSet(x3 \cup {v})
         /\ D!Cardinality(x3 \cup {v}) = D!Cardinality(x3) + 1
BY SameFinite, SameCardinality, FS_CardinalityType, FS_AddElement

LEMMA PageInit == D!Init => D!IndInv
<1> SUFFICES ASSUME D!Init PROVE D!IndInv
  OBVIOUS
<1>1. D!IsFiniteSet({}) /\ D!Cardinality({}) = 0
  BY SameFinite, SameCardinality, FS_EmptySet
<1>2. D!PageTypes
  BY <1>1 DEF D!Init, D!PageTypes
<1>3. D!DecorationSound
  BY <1>1 DEF D!Init, D!DecorationSound, D!DecorationHistory, D!WrittenForPublisher
<1>4. \A a \in Authors : D!SaveInv(a)
  BY DEF D!Init, D!SaveInv, D!NotSaving
<1> QED BY <1>2, <1>3, <1>4 DEF D!Init, D!IndInv, D!NoDelegation

(* A step that stores no version and ends no entitlement keeps what is     *)
(* stored sound, and the saves it does not touch.                          *)
LEMMA HistoryKept ==
  ASSUME D!IndInv, UNCHANGED << x3, x5 >>,
         \A g \in Delegations : x2[g].status # "none" =>
           x2'[g].status # "none" /\ x2'[g].member = x2[g].member /\ x2'[g].by = x2[g].by
  PROVE  /\ D!DecorationSound'
         /\ \A w : D!Entitled(w) => D!Entitled(w)'
         /\ \A a \in Authors : x4'[a] = x4[a] => D!SaveInv(a)'
BY DEF D!IndInv, D!DecorationSound, D!DecorationHistory, D!WrittenForPublisher, D!Entitled, D!SaveInv

LEMMA PageStep == D!IndInv /\ [D!Next]_(D!decorationVars) => D!IndInv'
<1> SUFFICES ASSUME D!IndInv, [D!Next]_(D!decorationVars) PROVE D!IndInv'
  OBVIOUS
<1>0. D!PageTypes /\ D!DecorationSound /\ D!Cardinality(x3) \in Nat
  BY SameFinite, SameCardinality, FS_CardinalityType DEF D!IndInv, D!PageTypes
<1>1. CASE D!PlanProjected \/ UNCHANGED D!decorationVars
  BY <1>1, HistoryKept DEF D!PlanProjected, D!decorationVars, D!IndInv, D!PageTypes
<1>2. ASSUME NEW a \in Authors, NEW wallet \in D!Wallets, NEW member \in D!Wallets,
             D!GrantReads(a, wallet, member)
      PROVE  D!IndInv'
  <2>1. /\ x4' = [ x4 EXCEPT ![a] = [ at |-> "grant", member |-> member, by |-> wallet ] ]
        /\ wallet = Publisher /\ UNCHANGED << x1, x2, x3, x5 >>
    BY <1>2 DEF D!GrantReads, D!assertPublisherSelf
  <2>2. D!PageTypes' /\ x4'[a] = [ at |-> "grant", member |-> member, by |-> wallet ]
        /\ \A b \in Authors : b # a => x4'[b] = x4[b]
    BY <1>0, <2>1 DEF D!PageTypes
  <2>3. D!SaveInv(a)'
    BY <2>1, <2>2 DEF D!SaveInv
  <2> QED BY <2>1, <2>2, <2>3, HistoryKept DEF D!IndInv
<1>3. ASSUME NEW a \in Authors, NEW g \in Delegations, D!appendDelegation(a, g) PROVE D!IndInv'
  <2>1. /\ x2[g] = D!NoDelegation /\ x4[a].at = "grant" /\ x4[a].by = Publisher
        /\ x2' = [ x2 EXCEPT ![g] = [ status |-> "active", member |-> x4[a].member, by |-> x4[a].by ] ]
        /\ x4' = [ x4 EXCEPT ![a] = D!NotSaving ] /\ UNCHANGED << x1, x3, x5 >>
    BY <1>3 DEF D!appendDelegation, D!IndInv, D!SaveInv
  <2>2. x4[a].member \in D!Wallets /\ Publisher \in D!Wallets
    BY <1>0, <2>1 DEF D!PageTypes, D!NotSaving, D!Wallets
  <2>3. D!PageTypes'
    BY <1>0, <2>1, <2>2 DEF D!PageTypes
  <2>4. /\ x2'[g].by = Publisher
        /\ \A h \in Delegations : h # g => x2'[h] = x2[h]
        /\ x4'[a] = D!NotSaving /\ \A b \in Authors : b # a => x4'[b] = x4[b]
    BY <1>0, <2>1 DEF D!PageTypes
  <2>5. D!SaveInv(a)'
    BY <2>4 DEF D!SaveInv, D!NotSaving
  <2> QED BY <2>1, <2>3, <2>4, <2>5, HistoryKept DEF D!IndInv, D!NoDelegation
<1>4. ASSUME NEW a \in Authors, NEW wallet \in D!Wallets, NEW source \in Nat,
             source = 0 \/ \E v \in x3 : v.version = source, D!Prepared(a, wallet, source)
      PROVE  D!IndInv'
  <2> DEFINE save == [ at |-> "append", wallet |-> wallet, source |-> source,
                       version |-> D!Cardinality(x3) + 1 ]
  <2>1. /\ x4' = [ x4 EXCEPT ![a] = save ] /\ UNCHANGED << x1, x2, x3, x5 >>
        /\ D!hasPublisherWriteAccess(wallet)
    BY <1>4 DEF D!Prepared
  <2>2. D!PageTypes' /\ x4'[a] = save /\ \A b \in Authors : b # a => x4'[b] = x4[b]
    BY <1>0, <2>1 DEF D!PageTypes
  <2>3. source < save.version
    BY <1>0, <1>4 DEF D!DecorationSound, D!DecorationHistory
  <2>4. D!Entitled(wallet)
    BY <2>1 DEF D!hasPublisherWriteAccess, D!findActiveDelegation, D!Active, D!Entitled, D!IndInv
  <2>5. D!SaveInv(a)'
    BY <1>0, <2>1, <2>2, <2>3, <2>4 DEF D!SaveInv, D!Entitled
  <2> QED BY <2>1, <2>2, <2>5, HistoryKept DEF D!IndInv
<1>5. ASSUME NEW a \in Authors, D!SaveWrites(a) PROVE D!IndInv'
  <2> DEFINE save == x4[a]
             v == [ version |-> save.version, author |-> save.wallet, source |-> save.source ]
  <2>1. /\ save.at = "append" /\ x4' = [ x4 EXCEPT ![a] = D!NotSaving ] /\ UNCHANGED << x1, x2 >>
        /\ save.version \in 1..(D!Cardinality(x3) + 1) /\ save.source < save.version
        /\ D!Entitled(save.wallet) /\ save.version \in Nat /\ save.source \in Nat /\ save.wallet \in D!Wallets
    BY <1>0, <1>5 DEF D!SaveWrites, D!IndInv, D!SaveInv, D!PageTypes, D!NotSaving
  <2>2. /\ x4' \in [ Authors -> {D!NotSaving} \cup [ at : {"grant"}, member : D!Wallets, by : D!Wallets ]
                       \cup [ at : {"append"}, wallet : D!Wallets, source : Nat, version : Nat ] ]
        /\ x4'[a] = D!NotSaving /\ \A b \in Authors : b # a => x4'[b] = x4[b]
    BY <1>0, <2>1 DEF D!PageTypes
  <2>3. D!SaveInv(a)'
    BY <2>2 DEF D!SaveInv, D!NotSaving
  <2>4. CASE UNCHANGED << x3, x5 >>
    BY <1>0, <2>1, <2>2, <2>3, <2>4, HistoryKept DEF D!IndInv, D!PageTypes
  <2>5. CASE D!appendVersion(save.version) /\ x3' = x3 \cup {v} /\ x5' = x5 + 1
    <3>0. v.version = save.version /\ v.source = save.source /\ v.author = save.wallet
      OBVIOUS
    <3>1. v \notin x3 /\ save.version \notin { w.version : w \in x3 }
      BY <2>5 DEF D!appendVersion
    <3> HIDE DEF v
    <3>2. D!IsFiniteSet(x3') /\ D!Cardinality(x3') = D!Cardinality(x3) + 1
      BY <1>0, <2>5, <3>1, VersionsCounted DEF D!PageTypes
    <3>3. save.version = D!Cardinality(x3) + 1
      BY <1>0, <2>1, <3>1 DEF D!DecorationSound, D!DecorationHistory
    <3>4. { w.version : w \in x3' } = 1..D!Cardinality(x3')
      <4>1. { w.version : w \in x3' } = { w.version : w \in x3 } \cup {save.version}
        BY <2>5, <3>0
      <4>2. 1..(D!Cardinality(x3) + 1) = (1..D!Cardinality(x3)) \cup {D!Cardinality(x3) + 1}
        BY <1>0
      <4> QED BY <1>0, <3>2, <3>3, <4>1, <4>2 DEF D!DecorationSound, D!DecorationHistory
    <3>5. D!DecorationSound'
      <4>1. D!DecorationHistory'
        BY <1>0, <2>1, <2>5, <3>0, <3>2, <3>4 DEF D!DecorationSound, D!DecorationHistory
      <4>2. D!WrittenForPublisher'
        BY <1>0, <2>1, <2>5, <3>0 DEF D!DecorationSound, D!WrittenForPublisher, D!Entitled
      <4> QED BY <4>1, <4>2 DEF D!DecorationSound
    <3>6. D!PageTypes'
      BY <1>0, <2>1, <2>2, <2>5, <3>2 DEF D!PageTypes, v
    <3>7. \A b \in Authors : D!SaveInv(b)'
      BY <1>0, <2>1, <2>2, <2>3, <3>2 DEF D!IndInv, D!SaveInv, D!Entitled
    <3> QED BY <2>1, <3>5, <3>6, <3>7 DEF D!IndInv
  <2> QED BY <1>5, <2>4, <2>5 DEF D!SaveWrites
<1>6. ASSUME NEW g \in Delegations, D!revokeDelegation(g) PROVE D!IndInv'
  <2>1. /\ x2[g].status = "active" /\ x2' = [ x2 EXCEPT ![g].status = "revoked" ]
        /\ UNCHANGED << x1, x3, x4, x5 >>
    BY <1>6 DEF D!revokeDelegation, D!Active
  <2>2. x2[g] \in [ status : { "active", "revoked" }, member : D!Wallets, by : D!Wallets ]
    BY <1>0, <2>1 DEF D!PageTypes, D!NoDelegation
  <2>3. D!PageTypes'
    BY <1>0, <2>1, <2>2 DEF D!PageTypes
  <2>4. /\ x2'[g].status = "revoked" /\ x2'[g].member = x2[g].member /\ x2'[g].by = x2[g].by
        /\ \A h \in Delegations : h # g => x2'[h] = x2[h]
    BY <1>0, <2>1, <2>2 DEF D!PageTypes
  <2> QED BY <2>1, <2>3, <2>4, HistoryKept DEF D!IndInv
<1>7. D!Wallets = Others \cup {Publisher}
  BY DEF D!Wallets
<1>8. 0 \in Nat /\ 1..MaxVersions \subseteq Nat
  OBVIOUS
<1> QED BY <1>1, <1>2, <1>3, <1>4, <1>5, <1>6, <1>7, <1>8 DEF D!Next, D!saveDecoration, D!restoreVersion

(* Concurrent saves and restores leave a history without a gap, in which   *)
(* every version was written for the publisher.                            *)
THEOREM PageHistory == Spec => []DecorationSound
<1> DEFINE Inv == focus = "decoration" => D!IndInv
<1>1. Init => Inv
  BY PageInit DEF Init
<1>2. Inv /\ [Next]_allVars => Inv'
  BY FocusStep, PageStep
<1>3. Inv => DecorationSound
  BY DEF DecorationSound, D!IndInv
<1> QED BY <1>1, <1>2, <1>3, PTL DEF Spec, allVars

-----------------------------------------------------------------------------
(* Sessions: x1 is sessionTime, x2 challenges, x3 sessions, x4 anchors,    *)
(* x5 verifies, x6 refresh and x7 severed.                                 *)
SessionsKept ==
  \A s \in SessionIds : x3[s] # S!None =>
    /\ x3'[s] # S!None /\ x3'[s].address = x3[s].address
    /\ x3'[s].account = x3[s].account /\ x3'[s].nonce = x3[s].nonce

ChallengesKept ==
  \A n \in Nonces :
    /\ x2[n].status \in S!Spent => x2'[n].status \in S!Spent
    /\ x2[n] # S!None => x2'[n] # S!None /\ x2'[n].account = x2[n].account

LEMMA KnownKept ==
  ASSUME SessionsKept, NEW account, S!Known(account)
  PROVE  S!Known(account)'
BY DEF SessionsKept, S!Known

LEMMA SessionsInit == S!Init => S!IndInv
<1> SUFFICES ASSUME S!Init PROVE S!IndInv
  OBVIOUS
<1>1. S!SessionTypes
  BY DEF S!Init, S!SessionTypes
<1>2. S!ChallengeQuota
  <2>1. \A n \in Nonces : ~S!Live(n)
    BY DEF S!Init, S!Live, S!None
  <2>2. Cardinality({}) = 0
    BY FS_EmptySet
  <2>3. ASSUME NEW a \in Addresses
        PROVE  S!Cardinality({ n \in Nonces : S!Live(n) /\ x2[n].address = a }) <= MaxPerAddress
    <3>1. { n \in Nonces : S!Live(n) /\ x2[n].address = a } = {}
      BY <2>1
    <3>2. S!Cardinality({}) = 0 /\ 0 <= MaxPerAddress
      BY <2>2, SameCardinality, Quotas
    <3> QED BY <3>1, <3>2
  <2>4. ASSUME NEW r \in Requesters
        PROVE  S!Cardinality({ n \in Nonces : S!Live(n) /\ x2[n].requester = r }) <= MaxPerRequester
    <3>1. { n \in Nonces : S!Live(n) /\ x2[n].requester = r } = {}
      BY <2>1
    <3>2. S!Cardinality({}) = 0 /\ 0 <= MaxPerRequester
      BY <2>2, SameCardinality, Quotas
    <3> QED BY <3>1, <3>2
  <2> QED BY <2>3, <2>4 DEF S!ChallengeQuota
<1> QED BY <1>1, <1>2 DEF S!Init, S!IndInv, S!ChallengeSpentOnce, S!AnchoredByBoth, S!ChallengeInv,
     S!SessionInv, S!AnchorInv, S!VerifyInv, S!Verifying

(* Challenges that are consumed, deleted or expire make the quota easier.  *)
LEMMA QuotaKept ==
  ASSUME S!IndInv,
         \A n \in Nonces : S!Live(n)' =>
           S!Live(n) /\ x2'[n].address = x2[n].address /\ x2'[n].requester = x2[n].requester
  PROVE  S!ChallengeQuota'
<1>1. ASSUME NEW a \in Addresses
      PROVE  S!Cardinality({ n \in Nonces : S!Live(n)' /\ x2'[n].address = a }) <= MaxPerAddress
  <2> DEFINE Y == { n \in Nonces : S!Live(n)' /\ x2'[n].address = a }
             X == { n \in Nonces : S!Live(n) /\ x2[n].address = a }
  <2>1. IsFiniteSet(X) /\ Y \in SUBSET X
    BY FS_Subset, Quotas
  <2>2. Cardinality(Y) <= Cardinality(X) /\ Cardinality(Y) \in Nat /\ Cardinality(X) \in Nat
    BY <2>1, FS_Subset, FS_CardinalityType
  <2>3. Cardinality(X) <= MaxPerAddress
    BY SameCardinality DEF S!IndInv, S!ChallengeQuota
  <2>4. Cardinality(Y) <= MaxPerAddress
    BY <2>2, <2>3, Quotas
  <2> QED BY <2>4, SameCardinality
<1>2. ASSUME NEW r \in Requesters
      PROVE  S!Cardinality({ n \in Nonces : S!Live(n)' /\ x2'[n].requester = r }) <= MaxPerRequester
  <2> DEFINE Y == { n \in Nonces : S!Live(n)' /\ x2'[n].requester = r }
             X == { n \in Nonces : S!Live(n) /\ x2[n].requester = r }
  <2>1. IsFiniteSet(X) /\ Y \in SUBSET X
    BY FS_Subset, Quotas
  <2>2. Cardinality(Y) <= Cardinality(X) /\ Cardinality(Y) \in Nat /\ Cardinality(X) \in Nat
    BY <2>1, FS_Subset, FS_CardinalityType
  <2>3. Cardinality(X) <= MaxPerRequester
    BY SameCardinality DEF S!IndInv, S!ChallengeQuota
  <2>4. Cardinality(Y) <= MaxPerRequester
    BY <2>2, <2>3, Quotas
  <2> QED BY <2>4, SameCardinality
<1> QED BY <1>1, <1>2 DEF S!ChallengeQuota

(* A request that a step does not touch keeps what is known of it.         *)
LEMMA VerifyKept ==
  ASSUME S!IndInv, SessionsKept, ChallengesKept, NEW q \in Logins, x5'[q] = x5[q],
         S!Verifying(q) /\ x5[q].asked = NoAccount /\ ~x5[q].known => S!OwnAccount(q)',
         \A s \in SessionIds : (x3[s] = S!None /\ x3'[s] # S!None /\ x5[q].at = "store")
                                 => x3'[s].nonce # x5[q].nonce,
         \A p \in Logins : (p # q /\ x5[q].at = "store" /\ x5'[p].at = "store")
                             => x5'[p].nonce # x5[q].nonce
  PROVE  S!VerifyInv(q)'
<1>0. S!VerifyInv(q) /\ S!SessionTypes
  BY DEF S!IndInv
<1>1. CASE x5[q].at = "read"
  <2>1. x5[q].nonce \in Nonces
    BY <1>0, <1>1 DEF S!SessionTypes, S!Login
  <2> QED BY <1>0, <1>1, <2>1 DEF S!VerifyInv, S!Verifying, ChallengesKept
<1>2. CASE S!Verifying(q)
  <2>1. x5[q].nonce \in Nonces
    BY <1>0, <1>2 DEF S!SessionTypes, S!Login, S!Verifying
  <2>2. x2'[x5[q].nonce].status \in S!Spent
    BY <1>0, <1>2, <2>1 DEF S!VerifyInv, ChallengesKept
  <2>3. /\ x5[q].asked # NoAccount =>
             x5[q].account = x5[q].asked /\ x5[q].caller = x5[q].asked /\ S!Known(x5[q].asked)'
        /\ x5[q].at = "anchor" => ~x5[q].known /\ S!Known(x5[q].account)'
    BY <1>0, <1>2, KnownKept DEF S!VerifyInv
  <2>4. x5[q].at = "store" => \A s \in SessionIds : x3'[s] # S!None => x3'[s].nonce # x5[q].nonce
    BY <1>0, <1>2 DEF S!VerifyInv, SessionsKept
  <2> QED BY <1>2, <2>2, <2>3, <2>4 DEF S!VerifyInv, S!Verifying
<1> QED BY <1>1, <1>2 DEF S!VerifyInv, S!Verifying

LEMMA OneMore ==
  ASSUME NEW X, IsFiniteSet(X), NEW n, NEW Y \in SUBSET (X \cup {n}), NEW max \in Nat,
         Cardinality(X) <= max, n \in Y => Cardinality(X) < max
  PROVE  Cardinality(Y) <= max
<1>1. /\ IsFiniteSet(X \cup {n}) /\ IsFiniteSet(Y)
      /\ Cardinality(X) \in Nat /\ Cardinality(Y) \in Nat
      /\ Cardinality(X \cup {n}) <= Cardinality(X) + 1
  BY FS_AddElement, FS_Subset, FS_CardinalityType
<1>2. CASE n \in Y
  <2>1. Cardinality(Y) <= Cardinality(X \cup {n}) /\ Cardinality(X \cup {n}) \in Nat
    BY <1>1, FS_Subset, FS_CardinalityType
  <2> QED BY <1>1, <1>2, <2>1
<1>3. CASE n \notin Y
  <2>1. Y \in SUBSET X
    BY <1>3
  <2>2. Cardinality(Y) <= Cardinality(X)
    BY <2>1, FS_Subset
  <2> QED BY <1>1, <2>2
<1> QED BY <1>2, <1>3

LEMMA CreateChallengeStep ==
  ASSUME S!IndInv, NEW n \in Nonces, NEW a \in Addresses, NEW r \in Requesters,
         NEW account \in S!Holder, S!CreateChallenge(n, a, r, account)
  PROVE  S!IndInv'
<1> DEFINE challenge == [ status |-> "issued", address |-> a, requester |-> r, account |-> account,
                          expires |-> x1 + ChallengeTtl ]
<1>0. /\ S!SessionTypes /\ x2[n] = S!None
      /\ x2' = [ S!deleteExpiredChallenges EXCEPT ![n] = challenge ]
      /\ S!putChallengeWithinAddressQuota(a, r)
      /\ account # NoAccount => \E s \in SessionIds : S!Resolves(s) /\ x3[s].account = account
      /\ UNCHANGED << x1, x3, x4, x5, x6, x7 >>
  BY DEF S!CreateChallenge, S!IndInv, S!Unused
<1>1. x2'[n] = challenge /\ challenge \in S!Challenge /\ challenge.account = account
  BY <1>0, StoreConstants DEF S!deleteExpiredChallenges, S!SessionTypes, S!Challenge
<1>2. ASSUME NEW m \in Nonces, m # n
      PROVE  \/ x2'[m] = x2[m]
             \/ /\ x2[m] \in S!Challenge /\ x2'[m] \in S!Challenge /\ x2'[m].status = "deleted"
                /\ x2'[m].account = x2[m].account
  <2>1. x2'[m] = IF x2[m].status # "none" /\ x2[m].expires < x1 THEN [ x2[m] EXCEPT !.status = "deleted" ] ELSE x2[m]
    BY <1>0, <1>2 DEF S!deleteExpiredChallenges
  <2>2. x2[m] = S!None \/ x2[m] \in S!Challenge
    BY <1>0 DEF S!SessionTypes
  <2> QED BY <2>1, <2>2 DEF S!None, S!Challenge, S!Spent
<1>3. S!SessionTypes'
  <2>1. x2' = [ m \in Nonces |-> x2'[m] ]
    BY <1>0 DEF S!deleteExpiredChallenges
  <2>2. \A m \in Nonces : x2'[m] \in {S!None} \cup S!Challenge
    BY <1>0, <1>1, <1>2 DEF S!SessionTypes
  <2> QED BY <1>0, <2>1, <2>2 DEF S!SessionTypes
<1> HIDE DEF challenge
<1>4. SessionsKept /\ ChallengesKept
  <2>1. ASSUME NEW m \in Nonces
        PROVE  /\ x2[m].status \in S!Spent => x2'[m].status \in S!Spent
               /\ x2[m] # S!None => x2'[m] # S!None /\ x2'[m].account = x2[m].account
    BY <1>0, <1>2 DEF S!None, S!Spent, S!Challenge
  <2> QED BY <1>0, <2>1 DEF SessionsKept, ChallengesKept
<1>5. account = NoAccount \/ (S!Known(account) /\ \E b \in Addresses : x4[b] # S!None /\ x4[b].account = account)
  <2> SUFFICES ASSUME account # NoAccount
               PROVE  S!Known(account) /\ \E b \in Addresses : x4[b] # S!None /\ x4[b].account = account
    OBVIOUS
  <2>1. PICK s \in SessionIds : S!Resolves(s) /\ x3[s].account = account
    BY <1>0
  <2>2. x3[s] # S!None /\ x3[s].address \in Addresses
    BY <1>0, <2>1 DEF S!Resolves, S!SessionTypes, S!Session, S!None
  <2>3. x4[x3[s].address].status = "active" /\ x4[x3[s].address].account = account
    BY <2>1, StoreConstants DEF S!Resolves, S!AnchoredToAccount, S!findActiveAccountAddress, S!Holder
  <2>4. x4[x3[s].address] # S!None
    BY <2>3 DEF S!None
  <2> QED BY <2>1, <2>2, <2>3, <2>4 DEF S!Known
<1>6. S!ChallengeQuota'
  <2>1. \A m \in Nonces : (m # n /\ S!Live(m)') =>
          S!Live(m) /\ x2'[m].address = x2[m].address /\ x2'[m].requester = x2[m].requester
    BY <1>0, <1>2 DEF S!Live
  <2>2. ASSUME NEW b \in Addresses
        PROVE  S!Cardinality({ m \in Nonces : S!Live(m)' /\ x2'[m].address = b }) <= MaxPerAddress
    <3> DEFINE X == { m \in Nonces : S!Live(m) /\ x2[m].address = b }
               Y == { m \in Nonces : S!Live(m)' /\ x2'[m].address = b }
    <3>1. IsFiniteSet(X) /\ Y \in SUBSET (X \cup {n})
      BY <2>1, FS_Subset, Quotas
    <3>2. Cardinality(X) <= MaxPerAddress
      BY SameCardinality DEF S!IndInv, S!ChallengeQuota
    <3>3. ASSUME n \in Y PROVE Cardinality(X) < MaxPerAddress
      <4>1. b = a
        BY <1>1, <3>3 DEF challenge
      <4>2. S!Cardinality({ m \in Nonces : S!Live(m) /\ x2[m].address = a }) < MaxPerAddress
        BY <1>0 DEF S!putChallengeWithinAddressQuota
      <4>3. S!Cardinality(X) < MaxPerAddress
        BY <4>1, <4>2
      <4> QED BY <4>3, SameCardinality
    <3>4. Cardinality(Y) <= MaxPerAddress
      BY <3>1, <3>2, <3>3, OneMore, Quotas
    <3> QED BY <3>4, SameCardinality
  <2>3. ASSUME NEW b \in Requesters
        PROVE  S!Cardinality({ m \in Nonces : S!Live(m)' /\ x2'[m].requester = b }) <= MaxPerRequester
    <3> DEFINE X == { m \in Nonces : S!Live(m) /\ x2[m].requester = b }
               Y == { m \in Nonces : S!Live(m)' /\ x2'[m].requester = b }
    <3>1. IsFiniteSet(X) /\ Y \in SUBSET (X \cup {n})
      BY <2>1, FS_Subset, Quotas
    <3>2. Cardinality(X) <= MaxPerRequester
      BY SameCardinality DEF S!IndInv, S!ChallengeQuota
    <3>3. ASSUME n \in Y PROVE Cardinality(X) < MaxPerRequester
      <4>1. b = r
        BY <1>1, <3>3 DEF challenge
      <4>2. S!Cardinality({ m \in Nonces : S!Live(m) /\ x2[m].requester = r }) < MaxPerRequester
        BY <1>0 DEF S!putChallengeWithinAddressQuota
      <4>3. S!Cardinality(X) < MaxPerRequester
        BY <4>1, <4>2
      <4> QED BY <4>3, SameCardinality
    <3>4. Cardinality(Y) <= MaxPerRequester
      BY <3>1, <3>2, <3>3, OneMore, Quotas
    <3> QED BY <3>4, SameCardinality
  <2> QED BY <2>2, <2>3 DEF S!ChallengeQuota
<1>7. \A m \in Nonces : S!ChallengeInv(m)'
  BY <1>0, <1>1, <1>2, <1>4, <1>5, KnownKept DEF S!ChallengeInv, S!IndInv, S!None, S!Challenge
<1>8. \A s \in SessionIds : S!SessionInv(s)'
  BY <1>0, <1>4 DEF S!SessionInv, S!IndInv, ChallengesKept, S!SessionTypes, S!Session
<1>9. \A q \in Logins : S!VerifyInv(q)'
  <2>1. ASSUME NEW q \in Logins, S!Verifying(q), x5[q].asked = NoAccount, ~x5[q].known
        PROVE  S!OwnAccount(q)'
    <3>1. S!OwnAccount(q) /\ x5[q].account \in Accounts
      BY <1>0, <2>1 DEF S!IndInv, S!VerifyInv, S!SessionTypes, S!Login, S!Verifying
    <3>2. account # x5[q].account
      BY <1>5, <3>1, StoreConstants DEF S!OwnAccount
    <3>3. \A m \in Nonces : x2'[m] # S!None => x2'[m].account # x5[q].account
      BY <1>0, <1>1, <1>2, <3>1, <3>2 DEF S!OwnAccount, S!None, S!Challenge
    <3> QED BY <1>0, <3>1, <3>3 DEF S!OwnAccount, S!Verifying
  <2>2. \A q \in Logins : x5[q].at = "store" => \A p \in Logins : (p # q /\ x5[p].at = "store") => x5[p].nonce # x5[q].nonce
    BY DEF S!IndInv, S!VerifyInv
  <2> QED BY <1>0, <1>4, <2>1, <2>2, VerifyKept
<1> QED BY <1>0, <1>3, <1>4, <1>6, <1>7, <1>8, <1>9, KnownKept
        DEF S!IndInv, S!ChallengeSpentOnce, S!AnchoredByBoth, S!AnchorInv, S!SeveredInv, S!findActiveAccountAddress

(* Steps that touch neither the challenges nor a request: what is left to  *)
(* show of them is what they do to sessions, anchors and severed.          *)
LEMMA RequestsAlone ==
  ASSUME S!IndInv, SessionsKept, UNCHANGED << x2, x5 >>,
         \A s \in SessionIds : x3'[s] # S!None => x3[s] # S!None,
         \A a \in Addresses : x4'[a] # S!None => x4[a] # S!None /\ x4'[a].account = x4[a].account,
         \A s \in x7' : s \in x7 \/ \E a \in Addresses : x4[a] # S!None /\ x4[a].account = x3[s].account,
         x7' \subseteq SessionIds, \A s \in x7' : x3[s] # S!None
  PROVE  /\ S!ChallengeSpentOnce'
         /\ \A q \in Logins : S!VerifyInv(q)'
         /\ \A n \in Nonces : S!ChallengeInv(n)'
         /\ \A s \in SessionIds : S!SessionInv(s)'
         /\ \A a \in Addresses : S!AnchorInv(a)'
<1>1. ChallengesKept
  BY DEF ChallengesKept
<1>2. ASSUME NEW q \in Logins, S!Verifying(q), x5[q].asked = NoAccount, ~x5[q].known
      PROVE  S!OwnAccount(q)'
  <2>1. S!OwnAccount(q)
    BY <1>2 DEF S!IndInv, S!VerifyInv
  <2> QED BY <2>1 DEF S!OwnAccount, SessionsKept, S!Verifying
<1>3. \A q, p \in Logins : (x5[q].at = "store" /\ p # q /\ x5[p].at = "store") => x5[p].nonce # x5[q].nonce
  BY DEF S!IndInv, S!VerifyInv
<1>4. \A q \in Logins : S!VerifyInv(q)'
  BY <1>1, <1>2, <1>3, VerifyKept
<1>5. S!ChallengeSpentOnce'
  BY DEF S!IndInv, S!ChallengeSpentOnce, SessionsKept
<1>6. /\ \A n \in Nonces : S!ChallengeInv(n)'
      /\ \A a \in Addresses : S!AnchorInv(a)'
  BY KnownKept DEF S!IndInv, S!ChallengeInv, S!AnchorInv
<1>7. \A s \in SessionIds : S!SessionInv(s)'
  BY DEF S!IndInv, S!SessionInv, SessionsKept
<1> QED BY <1>4, <1>5, <1>6, <1>7

LEMMA VerifyReadsStep ==
  ASSUME S!IndInv, NEW q \in Logins, NEW n \in Nonces, S!VerifyReads(q, n)
  PROVE  S!IndInv'
<1> DEFINE job == [ at |-> "read", nonce |-> n ]
<1>0. /\ S!SessionTypes /\ x2[n].status = "issued" /\ x5[q].at = "idle"
      /\ x5' = [ x5 EXCEPT ![q] = job ] /\ UNCHANGED << x1, x2, x3, x4, x6, x7 >>
  BY DEF S!VerifyReads, S!IndInv
<1>1. S!SessionTypes'
  BY <1>0 DEF S!SessionTypes
<1>2. x5'[q] = job /\ \A p \in Logins : p # q => x5'[p] = x5[p]
  BY <1>0 DEF S!SessionTypes
<1>3. SessionsKept /\ ChallengesKept /\ S!ChallengeQuota'
  BY <1>0, QuotaKept DEF SessionsKept, ChallengesKept, S!Live
<1>4. S!VerifyInv(q)'
  BY <1>0, <1>2 DEF S!VerifyInv, S!Verifying, S!None
<1>5. ASSUME NEW p \in Logins, p # q PROVE S!VerifyInv(p)'
  <2>1. S!Verifying(p) /\ x5[p].asked = NoAccount /\ ~x5[p].known => S!OwnAccount(p)'
    BY <1>0, <1>2, <1>5 DEF S!IndInv, S!VerifyInv, S!OwnAccount, S!Verifying
  <2>2. \A o \in Logins : (o # p /\ x5[p].at = "store" /\ x5'[o].at = "store") => x5'[o].nonce # x5[p].nonce
    BY <1>2 DEF S!IndInv, S!VerifyInv
  <2> QED BY <1>0, <1>2, <1>3, <1>5, <2>1, <2>2, VerifyKept
<1> QED BY <1>0, <1>1, <1>3, <1>4, <1>5
        DEF S!IndInv, S!ChallengeSpentOnce, S!AnchoredByBoth, S!AnchorInv, S!SeveredInv, S!SessionInv,
            S!ChallengeInv, S!Known, S!findActiveAccountAddress

(* Writes of a resolve, and logouts: only the status of a session changes. *)
LEMMA StatusStep ==
  ASSUME S!IndInv, NEW s \in SessionIds, x3[s] # S!None, NEW status \in { "open", "revoked" },
         x3' = [ x3 EXCEPT ![s].status = status ], UNCHANGED << x1, x2, x4, x5, x7 >>,
         x6' = S!None \/ x6' = x6
  PROVE  S!IndInv'
<1>0. S!SessionTypes /\ x3[s] \in S!Session
  BY DEF S!IndInv, S!SessionTypes
<1>1. x3'[s] = [ x3[s] EXCEPT !.status = status ] /\ \A t \in SessionIds : t # s => x3'[t] = x3[t]
  BY <1>0 DEF S!SessionTypes
<1>2. x3'[s] # S!None /\ x3'[s] \in S!Session /\ x3'[s].address = x3[s].address
      /\ x3'[s].account = x3[s].account /\ x3'[s].nonce = x3[s].nonce
  BY <1>0, <1>1 DEF S!Session, S!None
<1>3. S!SessionTypes'
  BY <1>0, <1>1, <1>2 DEF S!SessionTypes
<1>4. SessionsKept /\ \A t \in SessionIds : x3'[t] # S!None => x3[t] # S!None
  BY <1>1, <1>2 DEF SessionsKept
<1>5. S!ChallengeQuota'
  BY QuotaKept DEF S!Live
<1>6. \A t \in x7 : S!SeveredInv(t)'
  BY <1>0, <1>4 DEF S!IndInv, S!SeveredInv, SessionsKept, S!findActiveAccountAddress, S!SessionTypes
<1>7. x6' # S!None => x3'[x6'.session] # S!None
  BY <1>0, <1>4 DEF S!IndInv, SessionsKept, S!SessionTypes
<1>8. x7 \subseteq SessionIds /\ \A t \in x7 : x3[t] # S!None
  BY <1>0 DEF S!IndInv, S!SeveredInv, S!SessionTypes
<1> QED BY <1>3, <1>4, <1>5, <1>6, <1>7, <1>8, RequestsAlone DEF S!IndInv, S!AnchoredByBoth

LEMMA RevokeStep ==
  ASSUME S!IndInv, NEW s \in SessionIds, NEW a \in Addresses, S!revokeAccountAddress(s, a)
  PROVE  S!IndInv'
<1> DEFINE cut == { x \in SessionIds : x3[x] # S!None /\ x3[x].address = a /\ x3[x].account = x4[a].account }
<1>0. /\ S!SessionTypes /\ x4' = [ x4 EXCEPT ![a].status = "revoked" ]
      /\ S!findActiveAccountAddress(a) = x3[s].account /\ x3[s].status = "open"
      /\ x7' = x7 \cup cut /\ UNCHANGED << x1, x2, x3, x5, x6 >>
  BY DEF S!revokeAccountAddress, S!Resolves, S!IndInv
<1>1. x3[s].account \in Accounts
  BY <1>0 DEF S!SessionTypes, S!Session, S!None
<1>2. x4[a].status = "active" /\ x4[a] \in S!Anchor /\ x4[a] # S!None
  BY <1>0, <1>1, StoreConstants DEF S!findActiveAccountAddress, S!SessionTypes, S!None
<1>3. /\ x4'[a] = [ x4[a] EXCEPT !.status = "revoked" ] /\ \A b \in Addresses : b # a => x4'[b] = x4[b]
  BY <1>0 DEF S!SessionTypes
<1>4. /\ x4'[a] \in S!Anchor /\ x4'[a] # S!None /\ x4'[a].account = x4[a].account
      /\ x4'[a].asked = x4[a].asked /\ x4'[a].caller = x4[a].caller /\ x4'[a].status = "revoked"
  BY <1>2, <1>3 DEF S!Anchor, S!None
<1>5. S!SessionTypes'
  BY <1>0, <1>3, <1>4 DEF S!SessionTypes
<1>6. S!AnchoredByBoth'
  BY <1>2, <1>3, <1>4 DEF S!IndInv, S!AnchoredByBoth
<1>7. ASSUME NEW x \in x7' PROVE S!SeveredInv(x)'
  <2>1. x \in SessionIds /\ x3[x] # S!None
    BY <1>0, <1>7 DEF S!IndInv, S!SeveredInv, S!SessionTypes
  <2>2. x3[x].account # NoAccount /\ x3[x].address \in Addresses
    BY <1>0, <2>1, StoreConstants DEF S!SessionTypes, S!Session
  <2>3. CASE x3[x].address = a
    BY <1>0, <1>4, <2>1, <2>2, <2>3 DEF S!SeveredInv, S!findActiveAccountAddress
  <2>4. CASE x3[x].address # a
    BY <1>0, <1>3, <1>7, <2>1, <2>2, <2>4 DEF S!IndInv, S!SeveredInv, S!findActiveAccountAddress
  <2> QED BY <2>3, <2>4
<1>8. SessionsKept /\ S!ChallengeQuota'
  BY <1>0, QuotaKept DEF SessionsKept, S!Live
<1>9. /\ \A b \in Addresses : x4'[b] # S!None => x4[b] # S!None /\ x4'[b].account = x4[b].account
      /\ \A x \in x7' : x \in x7 \/ \E b \in Addresses : x4[b] # S!None /\ x4[b].account = x3[x].account
      /\ x7' \subseteq SessionIds /\ \A x \in x7' : x3[x] # S!None
  BY <1>0, <1>2, <1>3, <1>4 DEF S!IndInv, S!SeveredInv, S!SessionTypes
<1> QED BY <1>0, <1>5, <1>6, <1>7, <1>8, <1>9, RequestsAlone DEF S!IndInv

(* The challenge is consumed, whatever comes of the request; when it goes  *)
(* on, the account is the one asked for, the address's, or an unused one.  *)
LEMMA VerifyChecksStep ==
  ASSUME S!IndInv, NEW q \in Logins, NEW caller \in S!Holder, NEW signed \in BOOLEAN,
         S!VerifyChecks(q, caller, signed)
  PROVE  S!IndInv'
<1> DEFINE n == x5[q].nonce
           c == x2[n]
           existing == S!findActiveAccountAddress(c.address)
           Job(account) == [ at |-> "store", nonce |-> n, address |-> c.address, account |-> account,
                             asked |-> c.account, caller |-> caller, known |-> existing # NoAccount ]
<1>0. S!SessionTypes /\ S!VerifyInv(q) /\ x5[q].at = "read" /\ UNCHANGED << x1, x3, x4, x6, x7 >>
  BY DEF S!VerifyChecks, S!IndInv
<1>1. n \in Nonces /\ c \in S!Challenge /\ c # S!None
  BY <1>0 DEF S!SessionTypes, S!Login, S!VerifyInv
<1>2. /\ x2' = IF c.status = "issued" THEN [ x2 EXCEPT ![n].status = "consumed" ] ELSE x2
      /\ \/ x5' = [ x5 EXCEPT ![q] = [ at |-> "idle" ] ]
         \/ \E account :
              /\ c.status = "issued" /\ x5' = [ x5 EXCEPT ![q] = Job(account) ]
              /\ S!CallerOfAccount(c.account, caller)
              /\ \/ c.account # NoAccount /\ account = c.account
                 \/ c.account = NoAccount /\ existing # NoAccount /\ account = existing
                 \/ /\ c.account = NoAccount /\ existing = NoAccount /\ account \in Accounts
                    /\ \A s \in SessionIds : x3[s] # S!None => x3[s].account # account
                    /\ \A p \in Logins : S!Verifying(p) => x5[p].account # account
  BY <1>0 DEF S!VerifyChecks, S!consumeChallenge, S!Verifying
<1>3. existing = NoAccount \/ (existing \in Accounts /\ x4[c.address] # S!None /\ x4[c.address].account = existing)
  BY <1>0, <1>1 DEF S!findActiveAccountAddress, S!SessionTypes, S!Anchor, S!Challenge, S!None
<1> HIDE DEF c, existing
<1>4. /\ x2'[n] = c \/ x2'[n] = [ c EXCEPT !.status = "consumed" ]
      /\ \A m \in Nonces : m # n => x2'[m] = x2[m]
      /\ c.status = "issued" => x2'[n].status = "consumed"
  BY <1>0, <1>1, <1>2 DEF S!SessionTypes, S!Challenge, c
<1>5. /\ x2'[n] \in S!Challenge /\ x2'[n] # S!None /\ x2'[n].account = c.account
      /\ x2'[n].address = c.address /\ x2'[n].requester = c.requester /\ x2'[n].expires = c.expires
      /\ c.status \in S!Spent => x2'[n].status \in S!Spent
  BY <1>1, <1>4 DEF S!Challenge, S!Spent, S!None
<1>6. SessionsKept /\ ChallengesKept
  BY <1>0, <1>1, <1>4, <1>5 DEF SessionsKept, ChallengesKept, c
<1>7. S!ChallengeQuota'
  <2>1. ASSUME NEW m \in Nonces, S!Live(m)'
        PROVE  S!Live(m) /\ x2'[m].address = x2[m].address /\ x2'[m].requester = x2[m].requester
    <3>1. CASE m = n
      BY <1>0, <1>1, <1>4, <1>5, <2>1, <3>1 DEF S!Live, S!Challenge, c
    <3>2. CASE m # n
      BY <1>0, <1>4, <2>1, <3>2 DEF S!Live
    <3> QED BY <3>1, <3>2
  <2> QED BY <2>1, QuotaKept
<1>8. /\ \A m \in Nonces : S!ChallengeInv(m)'
      /\ \A s \in SessionIds : S!SessionInv(s)'
  <2>1. \A m \in Nonces : S!ChallengeInv(m)'
    BY <1>0, <1>1, <1>4, <1>5, <1>6, KnownKept DEF S!IndInv, S!ChallengeInv, c
  <2>2. \A s \in SessionIds : S!SessionInv(s)'
    BY <1>0, <1>6 DEF S!IndInv, S!SessionInv, ChallengesKept, S!SessionTypes, S!Session
  <2> QED BY <2>1, <2>2
<1>9. x2' \in [ Nonces -> {S!None} \cup S!Challenge ]
  BY <1>0, <1>1, <1>2, <1>5 DEF S!SessionTypes, c
<1>10. \A p \in Logins : p # q => x5'[p] = x5[p]
  BY <1>0, <1>2 DEF S!SessionTypes
<1>11. ASSUME x5' = [ x5 EXCEPT ![q] = [ at |-> "idle" ] ] PROVE x5' \in [ Logins -> [ at : {"idle"} ]
           \cup [ at : {"read"}, nonce : Nonces ] \cup S!Login ] /\ \A p \in Logins : S!VerifyInv(p)'
  <2>1. x5'[q] = [ at |-> "idle" ] /\ x5' \in [ Logins -> [ at : {"idle"} ]
           \cup [ at : {"read"}, nonce : Nonces ] \cup S!Login ]
    BY <1>0, <1>11 DEF S!SessionTypes
  <2>2. S!VerifyInv(q)'
    BY <2>1 DEF S!VerifyInv, S!Verifying
  <2>3. ASSUME NEW p \in Logins, p # q PROVE S!VerifyInv(p)'
    <3>1. S!Verifying(p) /\ x5[p].asked = NoAccount /\ ~x5[p].known => S!OwnAccount(p)'
      BY <1>0, <1>4, <1>5, <1>10, <2>1, <2>3 DEF S!IndInv, S!VerifyInv, S!OwnAccount, S!Verifying, ChallengesKept, c
    <3>2. \A o \in Logins : (o # p /\ x5[p].at = "store" /\ x5'[o].at = "store") => x5'[o].nonce # x5[p].nonce
      BY <1>10, <2>1 DEF S!IndInv, S!VerifyInv
    <3> QED BY <1>0, <1>6, <1>10, <2>3, <3>1, <3>2, VerifyKept
  <2> QED BY <2>1, <2>2, <2>3
<1>12. ASSUME NEW account, c.status = "issued", x5' = [ x5 EXCEPT ![q] = Job(account) ],
              S!CallerOfAccount(c.account, caller),
              \/ c.account # NoAccount /\ account = c.account
              \/ c.account = NoAccount /\ existing # NoAccount /\ account = existing
              \/ /\ c.account = NoAccount /\ existing = NoAccount /\ account \in Accounts
                 /\ \A s \in SessionIds : x3[s] # S!None => x3[s].account # account
                 /\ \A p \in Logins : S!Verifying(p) => x5[p].account # account
       PROVE x5' \in [ Logins -> [ at : {"idle"} ] \cup [ at : {"read"}, nonce : Nonces ] \cup S!Login ]
             /\ \A p \in Logins : S!VerifyInv(p)'
  <2>1. Job(account) \in S!Login
    BY <1>1, <1>3, <1>12 DEF S!Challenge, S!Login, S!Holder
  <2>2. x5'[q] = Job(account) /\ x5' \in [ Logins -> [ at : {"idle"} ]
           \cup [ at : {"read"}, nonce : Nonces ] \cup S!Login ]
    BY <1>0, <1>12, <2>1 DEF S!SessionTypes
  <2>3. /\ \A s \in SessionIds : x3[s] # S!None => x3[s].nonce # n
        /\ \A p \in Logins : S!Verifying(p) => x5[p].nonce # n
    BY <1>12 DEF S!IndInv, S!SessionInv, S!VerifyInv, S!Spent, c
  <2>4. \A a \in Addresses : x4[a] # S!None => S!Known(x4[a].account)
    BY DEF S!IndInv, S!AnchorInv
  <2>5. c.account # NoAccount => S!Known(c.account)
    BY <1>1 DEF S!IndInv, S!ChallengeInv, c
  <2>6. ASSUME c.account = NoAccount, existing = NoAccount PROVE S!OwnAccount(q)'
    <3>1. account \in Accounts /\ ~S!Known(account) /\ x5'[q].account = account
      BY <1>12, <2>2, <2>6 DEF S!Known
    <3>2. \A m \in Nonces : x2'[m] # S!None => x2'[m].account # account
      BY <1>8, <3>1, KnownKept, StoreConstants, <1>0 DEF S!ChallengeInv, S!Known
    <3>3. \A a \in Addresses : x4[a] # S!None => x4[a].account # account
      BY <2>4, <3>1
    <3>4. \A s \in x7 : x3[s].account # account
      BY <1>0, <3>1 DEF S!IndInv, S!SeveredInv, S!SessionTypes, S!Known
    <3>5. \A p \in Logins : (p # q /\ S!Verifying(p)') => x5'[p].account # account
      BY <1>10, <1>12, <2>6 DEF S!Verifying
    <3> QED BY <1>0, <3>1, <3>2, <3>3, <3>4, <3>5 DEF S!OwnAccount, S!Verifying
  <2>7. S!VerifyInv(q)'
    <3>1. S!Verifying(q)' /\ x5'[q].at = "store" /\ x5'[q].nonce = n /\ x5'[q].account = account
          /\ x5'[q].asked = c.account /\ x5'[q].caller = caller /\ x5'[q].known = (existing # NoAccount)
      BY <2>2 DEF S!Verifying
    <3>2. x2'[n].status \in S!Spent
      BY <1>4, <1>12 DEF S!Spent
    <3>3. \A k : (k = c.account /\ k # NoAccount) => account = k /\ caller = k /\ S!Known(k)'
      BY <1>6, <1>12, <2>5, KnownKept DEF S!CallerOfAccount
    <3>4. \A p \in Logins : (p # q /\ x5'[p].at = "store") => x5'[p].nonce # n
      BY <1>10, <2>3 DEF S!Verifying
    <3> QED BY <1>0, <2>3, <2>6, <3>1, <3>2, <3>3, <3>4 DEF S!VerifyInv
  <2>8. ASSUME NEW p \in Logins, p # q PROVE S!VerifyInv(p)'
    <3>1. S!Verifying(p) /\ x5[p].asked = NoAccount /\ ~x5[p].known => S!OwnAccount(p)'
      <4> SUFFICES ASSUME S!Verifying(p), x5[p].asked = NoAccount, ~x5[p].known PROVE S!OwnAccount(p)'
        OBVIOUS
      <4>1. S!OwnAccount(p) /\ x5[p].account \in Accounts
        BY <1>0 DEF S!IndInv, S!VerifyInv, S!SessionTypes, S!Login, S!Verifying
      <4>2. account # x5[p].account
        BY <1>1, <1>3, <1>12, <4>1 DEF S!OwnAccount, S!Challenge, c
      <4>3. \A m \in Nonces : x2'[m] # S!None => x2'[m].account # x5[p].account
        BY <1>1, <1>4, <1>5, <4>1 DEF S!OwnAccount, c
      <4> QED BY <1>0, <1>10, <2>2, <2>8, <4>1, <4>2, <4>3 DEF S!OwnAccount, S!Verifying
    <3>2. \A o \in Logins : (o # p /\ x5[p].at = "store" /\ x5'[o].at = "store") => x5'[o].nonce # x5[p].nonce
      BY <1>10, <2>2, <2>3 DEF S!IndInv, S!VerifyInv, S!Verifying
    <3> QED BY <1>0, <1>6, <1>10, <2>8, <3>1, <3>2, VerifyKept
  <2> QED BY <2>2, <2>7, <2>8
<1>13. x5' \in [ Logins -> [ at : {"idle"} ] \cup [ at : {"read"}, nonce : Nonces ] \cup S!Login ]
       /\ \A p \in Logins : S!VerifyInv(p)'
  BY <1>2, <1>11, <1>12
<1>14. S!SessionTypes'
  BY <1>0, <1>9, <1>13 DEF S!SessionTypes
<1> QED BY <1>0, <1>6, <1>7, <1>8, <1>13, <1>14, KnownKept
        DEF S!IndInv, S!ChallengeSpentOnce, S!AnchoredByBoth, S!AnchorInv, S!SeveredInv, S!findActiveAccountAddress

LEMMA VerifyStoresStep ==
  ASSUME S!IndInv, NEW q \in Logins, NEW s \in SessionIds, S!VerifyStores(q, s)
  PROVE  S!IndInv'
<1> DEFINE job == x5[q]
           session == [ status |-> "open", address |-> job.address, account |-> job.account,
                        nonce |-> job.nonce, expires |-> x1 + SessionTtl ]
           next == IF job.known THEN [ at |-> "idle" ] ELSE [ job EXCEPT !.at = "anchor" ]
<1>0. /\ S!SessionTypes /\ S!VerifyInv(q) /\ job.at = "store" /\ x3[s] = S!None
      /\ x3' = [ x3 EXCEPT ![s] = session ] /\ x5' = [ x5 EXCEPT ![q] = next ]
      /\ UNCHANGED << x1, x2, x4, x6, x7 >>
  BY DEF S!VerifyStores, S!IndInv, S!Unused
<1>1. job \in S!Login
  BY <1>0 DEF S!SessionTypes
<1>2. session \in S!Session /\ session # S!None
  BY <1>0, <1>1, StoreConstants DEF S!SessionTypes, S!Session, S!Login, S!None
<1>3. /\ x3'[s] = session /\ \A t \in SessionIds : t # s => x3'[t] = x3[t]
      /\ x3' \in [ SessionIds -> {S!None} \cup S!Session ]
  BY <1>0, <1>2 DEF S!SessionTypes
<1>4. next = [ at |-> "idle" ] \/
      (~job.known /\ next \in S!Login /\ next.at = "anchor" /\ next.nonce = job.nonce /\ next.account = job.account
        /\ next.asked = job.asked /\ next.caller = job.caller /\ next.known = job.known)
  BY <1>1 DEF S!Login
<1>5. /\ x5'[q] = next /\ \A p \in Logins : p # q => x5'[p] = x5[p]
      /\ x5' \in [ Logins -> [ at : {"idle"} ] \cup [ at : {"read"}, nonce : Nonces ] \cup S!Login ]
  <2> HIDE DEF next
  <2> QED BY <1>0, <1>4 DEF S!SessionTypes
<1>6. session.nonce = job.nonce /\ session.account = job.account
  OBVIOUS
<1> HIDE DEF session, next, job
<1>7. SessionsKept /\ ChallengesKept /\ S!ChallengeQuota'
  BY <1>0, <1>3, QuotaKept DEF SessionsKept, ChallengesKept, S!Live
<1>8. S!SessionTypes'
  BY <1>0, <1>3, <1>5 DEF S!SessionTypes
<1>9. S!ChallengeSpentOnce'
  BY <1>0, <1>3, <1>6 DEF S!IndInv, S!ChallengeSpentOnce, S!VerifyInv, job
<1>10. \A t \in SessionIds : S!SessionInv(t)'
  BY <1>0, <1>3, <1>6 DEF S!IndInv, S!SessionInv, S!VerifyInv, S!Verifying, job
<1>11. /\ \A n \in Nonces : S!ChallengeInv(n)'
       /\ \A a \in Addresses : S!AnchorInv(a)'
       /\ \A t \in x7 : S!SeveredInv(t)'
  BY <1>0, <1>7, KnownKept
     DEF S!IndInv, S!ChallengeInv, S!AnchorInv, S!SeveredInv, S!findActiveAccountAddress, SessionsKept, S!SessionTypes
<1>12. S!VerifyInv(q)'
  <2>1. CASE next = [ at |-> "idle" ]
    BY <1>5, <2>1 DEF S!VerifyInv, S!Verifying
  <2>2. CASE next.at = "anchor"
    <3>1. /\ x5'[q].at = "anchor" /\ ~x5'[q].known /\ x5'[q].nonce = job.nonce /\ x5'[q].account = job.account
          /\ x5'[q].asked = job.asked /\ x5'[q].caller = job.caller /\ ~job.known
      BY <1>4, <1>5, <2>2
    <3>2. S!Known(x5[q].account)'
      BY <1>2, <1>3, <1>5, <1>6, <3>1 DEF S!Known, job
    <3>3. job.asked = NoAccount => S!OwnAccount(q)'
      <4> SUFFICES ASSUME job.asked = NoAccount PROVE S!OwnAccount(q)'
        OBVIOUS
      <4>1. S!OwnAccount(q)
        BY <1>0, <3>1 DEF S!VerifyInv, S!Verifying, job
      <4>2. \A p \in Logins : (p # q /\ S!Verifying(p)') => x5'[p].account # x5'[q].account
        BY <1>5, <3>1, <4>1 DEF S!OwnAccount, S!Verifying, job
      <4>3. \A t \in x7 : x3'[t].account # x5'[q].account
        BY <1>0, <1>7, <3>1, <4>1 DEF S!OwnAccount, S!IndInv, S!SeveredInv, SessionsKept, S!SessionTypes, job
      <4> QED BY <1>0, <3>1, <4>1, <4>2, <4>3 DEF S!OwnAccount, job
    <3>4. \A k : (k = job.asked /\ k # NoAccount) => job.account = k /\ job.caller = k /\ S!Known(k)'
      BY <1>0, <1>7, KnownKept DEF S!VerifyInv, S!Verifying, job
    <3> QED BY <1>0, <3>1, <3>2, <3>3, <3>4 DEF S!VerifyInv, S!Verifying, job
  <2> QED BY <1>4, <2>1, <2>2
<1>13. ASSUME NEW p \in Logins, p # q PROVE S!VerifyInv(p)'
  <2>1. S!Verifying(p) /\ x5[p].asked = NoAccount /\ ~x5[p].known => S!OwnAccount(p)'
    <3> SUFFICES ASSUME S!Verifying(p), x5[p].asked = NoAccount, ~x5[p].known PROVE S!OwnAccount(p)'
      OBVIOUS
    <3>1. S!OwnAccount(p)
      BY DEF S!IndInv, S!VerifyInv
    <3>2. \A o \in Logins : (o # p /\ S!Verifying(o)') => x5'[o].account # x5'[p].account
      BY <1>0, <1>4, <1>5, <1>13, <3>1 DEF S!OwnAccount, S!Verifying, job
    <3>3. \A t \in x7 : x3'[t].account # x5'[p].account
      BY <1>0, <1>5, <1>7, <1>13, <3>1 DEF S!OwnAccount, S!IndInv, S!SeveredInv, SessionsKept, S!SessionTypes
    <3> QED BY <1>0, <1>5, <1>13, <3>1, <3>2, <3>3 DEF S!OwnAccount
  <2>2. x5[p].at = "store" => x5[p].nonce # job.nonce
    BY <1>0, <1>13 DEF S!VerifyInv, job
  <2>3. \A o \in Logins : (o # p /\ x5[p].at = "store" /\ x5'[o].at = "store") => x5'[o].nonce # x5[p].nonce
    BY <1>4, <1>5, <1>13 DEF S!IndInv, S!VerifyInv
  <2>4. \A t \in SessionIds : (x3[t] = S!None /\ x3'[t] # S!None /\ x5[p].at = "store") => x3'[t].nonce # x5[p].nonce
    BY <1>0, <1>3, <1>6, <2>2
  <2> QED BY <1>5, <1>7, <1>13, <2>1, <2>3, <2>4, VerifyKept
<1>14. (x6 # S!None => x3[x6.session] # S!None)'
  BY <1>0, <1>7 DEF S!IndInv, SessionsKept, S!SessionTypes, S!None
<1>15. S!AnchoredByBoth'
  BY <1>0 DEF S!IndInv, S!AnchoredByBoth
<1>16. \A t \in x7' : S!SeveredInv(t)'
  BY <1>0, <1>11 DEF S!SeveredInv, S!findActiveAccountAddress
<1>17. \A p \in Logins : S!VerifyInv(p)'
  BY <1>12, <1>13
<1> QED BY <1>7, <1>8, <1>9, <1>10, <1>11, <1>14, <1>15, <1>16, <1>17 DEF S!IndInv

(* The row of the address is replaced: by the account of its own sessions, *)
(* or by one that none of the severed sessions has.                        *)
LEMMA VerifyAnchorsStep ==
  ASSUME S!IndInv, NEW q \in Logins, S!VerifyAnchors(q)
  PROVE  S!IndInv'
<1> DEFINE job == x5[q]
           row == [ status |-> "active", account |-> job.account, asked |-> job.asked, caller |-> job.caller ]
<1>0. /\ S!SessionTypes /\ S!VerifyInv(q) /\ job.at = "anchor"
      /\ x4' = [ x4 EXCEPT ![job.address] = row ] /\ x5' = [ x5 EXCEPT ![q] = [ at |-> "idle" ] ]
      /\ x7' = IF job.asked # NoAccount
                 THEN { s \in x7 : ~(x3[s].address = job.address /\ x3[s].account = job.account) } ELSE x7
      /\ UNCHANGED << x1, x2, x3, x6 >>
  BY DEF S!VerifyAnchors, S!IndInv
<1>1. job \in S!Login /\ job.address \in Addresses
  BY <1>0 DEF S!SessionTypes, S!Login
<1>2. row \in S!Anchor /\ row # S!None
  BY <1>1 DEF S!Login, S!Anchor, S!None
<1>3. /\ x4'[job.address] = row /\ \A a \in Addresses : a # job.address => x4'[a] = x4[a]
      /\ x4' \in [ Addresses -> {S!None} \cup S!Anchor ]
  BY <1>0, <1>1, <1>2 DEF S!SessionTypes
<1>4. /\ x5'[q] = [ at |-> "idle" ] /\ \A p \in Logins : p # q => x5'[p] = x5[p]
      /\ x5' \in [ Logins -> [ at : {"idle"} ] \cup [ at : {"read"}, nonce : Nonces ] \cup S!Login ]
  BY <1>0 DEF S!SessionTypes
<1>5. SessionsKept /\ ChallengesKept /\ S!ChallengeQuota'
  BY <1>0, QuotaKept DEF SessionsKept, ChallengesKept, S!Live
<1>6. S!SessionTypes'
  BY <1>0, <1>3, <1>4 DEF S!SessionTypes
<1>7. S!Known(job.account) /\ ~job.known
  BY <1>0 DEF S!VerifyInv
<1>8. \A a \in Addresses : S!AnchorInv(a)'
  BY <1>0, <1>3, <1>7 DEF S!IndInv, S!AnchorInv, S!Known
<1>9. S!AnchoredByBoth'
  BY <1>0, <1>3 DEF S!IndInv, S!AnchoredByBoth, S!VerifyInv, S!Verifying
<1>10. ASSUME NEW s \in x7' PROVE S!SeveredInv(s)'
  <2>1. s \in x7 /\ s \in SessionIds /\ S!SeveredInv(s)
    BY <1>0, <1>10 DEF S!IndInv, S!SessionTypes
  <2>2. x3[s].address = job.address => x3[s].account # job.account
    BY <1>0, <1>7, <1>10, <2>1 DEF S!VerifyInv, S!Verifying, S!OwnAccount
  <2>3. x3[s].address \in Addresses
    BY <1>0, <2>1 DEF S!SessionTypes, S!Session, S!SeveredInv
  <2> QED BY <1>0, <1>3, <2>1, <2>2, <2>3 DEF S!SeveredInv, S!findActiveAccountAddress
<1>11. ASSUME NEW p \in Logins PROVE S!VerifyInv(p)'
  <2>1. CASE p = q
    BY <1>4, <2>1 DEF S!VerifyInv, S!Verifying
  <2>2. CASE p # q
    <3>1. S!Verifying(p) /\ x5[p].asked = NoAccount /\ ~x5[p].known => S!OwnAccount(p)'
      <4> SUFFICES ASSUME S!Verifying(p), x5[p].asked = NoAccount, ~x5[p].known PROVE S!OwnAccount(p)'
        OBVIOUS
      <4>1. S!OwnAccount(p) /\ S!Verifying(q)
        BY <1>0 DEF S!IndInv, S!VerifyInv, S!Verifying
      <4>2. \A a \in Addresses : x4'[a] # S!None => x4'[a].account # x5[p].account
        BY <1>3, <2>2, <4>1 DEF S!OwnAccount
      <4>3. \A o \in Logins : (o # p /\ S!Verifying(o)') => x5'[o].account # x5[p].account
        BY <1>4, <4>1 DEF S!OwnAccount, S!Verifying
      <4> QED BY <1>0, <1>4, <2>2, <4>1, <4>2, <4>3 DEF S!OwnAccount
    <3>2. \A o \in Logins : (o # p /\ x5[p].at = "store" /\ x5'[o].at = "store") => x5'[o].nonce # x5[p].nonce
      BY <1>4 DEF S!IndInv, S!VerifyInv
    <3> QED BY <1>0, <1>4, <1>5, <2>2, <3>1, <3>2, VerifyKept
  <2> QED BY <2>1, <2>2
<1> QED BY <1>0, <1>5, <1>6, <1>8, <1>9, <1>10, <1>11
        DEF S!IndInv, S!ChallengeSpentOnce, S!SessionInv, S!ChallengeInv, S!Known

LEMMA SessionsStep == S!IndInv /\ [S!Next]_(S!sessionVars) => S!IndInv'
<1> SUFFICES ASSUME S!IndInv, [S!Next]_(S!sessionVars) PROVE S!IndInv'
  OBVIOUS
<1>0. S!SessionTypes
  BY DEF S!IndInv
<1>1. ASSUME NEW s \in SessionIds, S!logout(s) PROVE S!IndInv'
  <2>1. x3[s] # S!None /\ "revoked" \in { "open", "revoked" }
    BY <1>1 DEF S!logout, S!None
  <2>2. /\ x3' = [ x3 EXCEPT ![s].status = "revoked" ] /\ x6' = x6
        /\ UNCHANGED << x1, x2, x4, x5, x7 >>
    BY <1>1 DEF S!logout
  <2> QED BY <2>1, <2>2, StatusStep
<1>2. CASE S!ResolveWrites
  <2>1. x6.session \in SessionIds /\ x6.status \in { "open", "revoked" } /\ x3[x6.session] # S!None
    BY <1>0, <1>2 DEF S!ResolveWrites, S!IndInv, S!SessionTypes
  <2> QED BY <1>2, <2>1, StatusStep DEF S!ResolveWrites
<1>3. CASE \/ S!SessionTimePasses \/ UNCHANGED S!sessionVars
           \/ \E s \in SessionIds : S!ResolveReads(s)
  <2>1. /\ UNCHANGED << x2, x3, x4, x5, x7 >> /\ x1' \in Nat /\ x1' >= x1
        /\ x6' = x6 \/ \E s \in SessionIds : x3[s] # S!None /\ x6'.session = s
        /\ x6' \in {S!None} \cup [ status : { "open", "revoked" }, session : SessionIds ]
    BY <1>0, <1>3 DEF S!SessionTimePasses, S!sessionVars, S!ResolveReads, S!SessionTypes, S!None
  <2>2. S!SessionTypes'
    BY <1>0, <2>1 DEF S!SessionTypes
  <2>3. S!ChallengeQuota'
    BY <1>0, <2>1, QuotaKept DEF S!Live, S!SessionTypes, S!Challenge, S!None
  <2>4. SessionsKept /\ \A s \in x7 : s \in SessionIds /\ x3[s] # S!None
    BY <1>0, <2>1 DEF SessionsKept, S!IndInv, S!SeveredInv, S!SessionTypes
  <2> QED BY <2>1, <2>2, <2>3, <2>4, RequestsAlone
          DEF S!IndInv, S!AnchoredByBoth, S!SeveredInv, S!findActiveAccountAddress
<1>4. S!Holder = Accounts \cup {NoAccount}
  BY DEF S!Holder
<1> QED BY <1>1, <1>2, <1>3, <1>4, CreateChallengeStep, VerifyReadsStep, VerifyChecksStep, VerifyStoresStep,
        VerifyAnchorsStep, RevokeStep DEF S!Next

(* A signature becomes one session, the unauthenticated entry is bounded,  *)
(* an address joins an account by consent of both, and a revoked address   *)
(* does not bring the sessions of its account back.                        *)
THEOREM SessionsHonest == Spec => []SessionsSound
<1> DEFINE Inv == focus = "sessions" => S!IndInv
<1>1. Init => Inv
  BY SessionsInit DEF Init
<1>2. Inv /\ [Next]_allVars => Inv'
  BY FocusStep, SessionsStep
<1>3. Inv => SessionsSound
  BY DEF SessionsSound, S!SessionsSound, S!IndInv, S!RevokedSessionsStayOut, S!SeveredInv, S!Resolves, S!AnchoredToAccount
<1> QED BY <1>1, <1>2, <1>3, PTL DEF Spec, allVars

-----------------------------------------------------------------------------
(* Drafts of the console.                                                  *)
LEMMA DraftsInit == Z!Init => Z!IndInv
BY DEF Z!Init, Z!IndInv, Z!DraftTypes, Z!SettledInv, Z!CopyInv, Z!Absent, Z!Drafts, Z!Schemas, Z!NoSchema,
       Z!Statuses, Z!NoCall

(* A request ends; the drafts may have changed, but not what is settled.   *)
LEMMA CallEnded ==
  ASSUME Z!IndInv, NEW c \in DraftCalls, Z!Rejected(c)
  PROVE  Z!IndInv'
<1>1. x3' = [ x3 EXCEPT ![c] = Z!NoCall ] /\ UNCHANGED << x1, x2, x4 >>
  BY DEF Z!Rejected, Z!CallEnds
<1>2. Z!DraftTypes'
  BY <1>1 DEF Z!IndInv, Z!DraftTypes, Z!NoCall, Z!Absent, Z!Drafts, Z!Schemas, Z!NoSchema
<1>3. \A x \in DraftCalls : x # c => Z!MayWrite(x)' = Z!MayWrite(x)
  BY <1>1 DEF Z!MayWrite, Z!IndInv, Z!DraftTypes
<1>4. Z!MayWrite(c)' = {}
  BY <1>1 DEF Z!MayWrite, Z!IndInv, Z!DraftTypes, Z!NoCall
<1>5. Z!SettledInv'
  BY <1>1, <1>3, <1>4 DEF Z!IndInv, Z!SettledInv, Z!DraftTypes
<1> QED BY <1>1, <1>2, <1>5 DEF Z!IndInv, Z!CopyInv, Z!DraftTypes, Z!NoCall

(* A copy that passed its checks is about to be written.                   *)
LEMMA CopyCarried ==
  ASSUME Z!IndInv, NEW c \in DraftCalls, NEW copy \in Z!Drafts, x3[c].at = "check", Z!Carries(c, copy),
         copy.status # "absent", copy.content = x3[c].copy.content,
         copy.content # Broken => copy.compiled,
         copy.content \in x2 => copy.schema \in x4[x3[c].on]
  PROVE  Z!IndInv'
<1>1. x3' = [ x3 EXCEPT ![c].at = "write", ![c].copy = copy ] /\ UNCHANGED << x1, x2, x4 >>
  BY DEF Z!Carries
<1>2. Z!DraftTypes'
  BY <1>1 DEF Z!IndInv, Z!DraftTypes
<1>3. \A x \in DraftCalls : x # c => Z!MayWrite(x)' = Z!MayWrite(x)
  BY <1>1 DEF Z!MayWrite, Z!IndInv, Z!DraftTypes
<1>4. Z!MayWrite(c)' = { copy.schema }
  BY <1>1 DEF Z!MayWrite, Z!IndInv, Z!DraftTypes
<1>5. x3[c].on \in DraftIds /\ x3[c].copy.content = x1[x3[c].on].content /\ x1[x3[c].on].status # "absent"
  BY DEF Z!IndInv, Z!CopyInv
<1>6. \A x \in DraftCalls : x3'[x].on = x3[x].on
  BY <1>1 DEF Z!IndInv, Z!DraftTypes
<1>7. Z!SettledInv'
  <2>1. ASSUME NEW d \in DraftIds, x1[d].status # "absent", x1[d].content \in x2, NEW x \in DraftCalls, x3[x].on = d
        PROVE  Z!MayWrite(x)' \subseteq x4[d]
    <3>1. CASE x = c
      BY <1>4, <1>5, <2>1, <3>1
    <3>2. CASE x # c
      BY <1>3, <2>1, <3>2 DEF Z!IndInv, Z!SettledInv
    <3> QED BY <3>1, <3>2
  <2> QED BY <1>1, <1>6, <2>1 DEF Z!IndInv, Z!SettledInv, Z!Suggested
<1>8. ASSUME NEW x \in DraftCalls PROVE Z!CopyInv(x)'
  <2>1. CASE x = c
    <3>1. x3'[c].at = "write" /\ x3'[c].on = x3[c].on /\ x3'[c].copy = copy
      BY <1>1 DEF Z!IndInv, Z!DraftTypes
    <3> QED BY <1>1, <1>5, <2>1, <3>1 DEF Z!CopyInv
  <2>2. CASE x # c
    BY <1>1, <2>2 DEF Z!IndInv, Z!DraftTypes, Z!CopyInv
  <2> QED BY <2>1, <2>2
<1> QED BY <1>2, <1>7, <1>8 DEF Z!IndInv

LEMMA DraftRequestsStep ==
  ASSUME Z!IndInv, NEW c \in DraftCalls,
         Z!compilePreview(c) \/ Z!updateProductSchema(c) \/ Z!submitReview(c)
  PROVE  Z!IndInv'
<1> DEFINE copy == x3[c].copy
           d == x3[c].on
<1>0. /\ x3[c].at = "check" /\ copy \in Z!Drafts /\ d \in DraftIds /\ copy.status # "absent"
      /\ copy.content = x1[d].content /\ x1[d].status # "absent" /\ Broken \notin x2
  BY StoreConstants DEF Z!IndInv, Z!DraftTypes, Z!CopyInv, Z!compilePreview, Z!updateProductSchema, Z!submitReview
<1>1. copy.content \in x2 => Z!MayWrite(c) \subseteq x4[d]
  BY <1>0 DEF Z!IndInv, Z!SettledInv
<1>2. CASE Z!compilePreview(c)
  <2>1. CASE Z!Rejected(c)
    BY <2>1, CallEnded
  <2>2. CASE Z!Carries(c, Z!compileDraftContent(copy)) /\ (copy.content = Broken \/ Z!assertDraftSchemaMutable(copy))
    <3>1. /\ Z!compileDraftContent(copy) \in Z!Drafts
          /\ Z!compileDraftContent(copy).status # "absent"
          /\ Z!compileDraftContent(copy).content = copy.content
          /\ copy.content # Broken => /\ Z!compileDraftContent(copy).compiled
                                      /\ Z!compileDraftContent(copy).schema = Z!Suggested
      BY <1>0 DEF Z!compileDraftContent, Z!Drafts, Z!Statuses, Z!Schemas
    <3>2. copy.content \in x2 => Z!Suggested \in x4[d]
      <4> SUFFICES ASSUME copy.content \in x2 PROVE Z!Suggested \in x4[d]
        OBVIOUS
      <4>1. ~copy.compiled
        BY <1>0, <2>2 DEF Z!assertDraftSchemaMutable, Z!hasPublishedPlan
      <4>2. Z!Suggested \in Z!MayWrite(c)
        BY <1>0, <1>2, <4>1 DEF Z!MayWrite, Z!compilePreview
      <4> QED BY <1>1, <4>2
    <3> QED BY <1>0, <2>2, <3>1, <3>2, CopyCarried
  <2> QED BY <1>2, <2>1, <2>2 DEF Z!compilePreview
<1>3. CASE Z!updateProductSchema(c)
  <2>1. CASE Z!Rejected(c)
    BY <2>1, CallEnded
  <2>2. ASSUME NEW ok \in BOOLEAN, Z!Carries(c, Z!normalizeProductSchemaInput(copy, c, ok)),
               Z!assertDraftSchemaMutable(copy), copy.compiled
        PROVE  Z!IndInv'
    <3>1. /\ Z!normalizeProductSchemaInput(copy, c, ok) \in Z!Drafts
          /\ Z!normalizeProductSchemaInput(copy, c, ok).status = copy.status
          /\ Z!normalizeProductSchemaInput(copy, c, ok).content = copy.content
          /\ Z!normalizeProductSchemaInput(copy, c, ok).compiled = copy.compiled
      BY <1>0 DEF Z!normalizeProductSchemaInput, Z!Drafts, Z!Schemas
    <3>2. copy.content \notin x2
      BY <2>2 DEF Z!assertDraftSchemaMutable, Z!hasPublishedPlan
    <3> QED BY <1>0, <2>2, <3>1, <3>2, CopyCarried
  <2> QED BY <1>3, <2>1, <2>2 DEF Z!updateProductSchema
<1>4. CASE Z!submitReview(c)
  <2>1. CASE Z!Rejected(c)
    BY <2>1, CallEnded
  <2>2. ASSUME NEW status \in Z!ReviewStatuses,
               Z!Carries(c, [ copy EXCEPT !.status = Z!draftStatusFromReviewStatus(status) ]),
               Z!assertDraftCompiledForReview(copy)
        PROVE  Z!IndInv'
    <3> DEFINE new == [ copy EXCEPT !.status = Z!draftStatusFromReviewStatus(status) ]
    <3>1. Z!draftStatusFromReviewStatus(status) \in Z!Statuses
      BY DEF Z!draftStatusFromReviewStatus, Z!ReviewStatuses, Z!Statuses
    <3>2. /\ new \in Z!Drafts /\ new.status # "absent" /\ new.content = copy.content
          /\ new.compiled /\ new.schema = copy.schema
      BY <1>0, <2>2, <3>1 DEF Z!Drafts, Z!Statuses, Z!assertDraftCompiledForReview
    <3>3. copy.content \in x2 => copy.schema \in x4[d]
      BY <1>0, <1>1, <1>4 DEF Z!MayWrite, Z!submitReview
    <3> HIDE DEF new
    <3>4. Z!Carries(c, new)
      BY <2>2 DEF new
    <3> QED BY <1>0, <3>2, <3>3, <3>4, CopyCarried
  <2> QED BY <1>4, <2>1, <2>2 DEF Z!submitReview
<1> QED BY <1>2, <1>3, <1>4

LEMMA DraftStored ==
  ASSUME Z!IndInv, NEW c \in DraftCalls, Z!updateDraft(c)
  PROVE  Z!IndInv'
<1> DEFINE copy == x3[c].copy
           d == x3[c].on
<1>0. /\ x3[c].at = "write" /\ copy \in Z!Drafts /\ d \in DraftIds /\ copy.status # "absent"
      /\ copy.content = x1[d].content /\ x1[d].status # "absent" /\ Broken \notin x2
      /\ copy.content # Broken => copy.compiled
  BY StoreConstants DEF Z!IndInv, Z!DraftTypes, Z!CopyInv, Z!updateDraft
<1>1. x1' = [ x1 EXCEPT ![d] = copy ] /\ x3' = [ x3 EXCEPT ![c] = Z!NoCall ] /\ UNCHANGED << x2, x4 >>
  BY DEF Z!updateDraft, Z!CallEnds
<1>2. Z!DraftTypes'
  BY <1>0, <1>1 DEF Z!IndInv, Z!DraftTypes, Z!NoCall, Z!Absent, Z!Drafts, Z!Schemas, Z!NoSchema
<1>3. \A x \in DraftCalls : x # c => Z!MayWrite(x)' = Z!MayWrite(x)
  BY <1>1 DEF Z!MayWrite, Z!IndInv, Z!DraftTypes
<1>4. Z!MayWrite(c)' = {}
  BY <1>1 DEF Z!MayWrite, Z!IndInv, Z!DraftTypes, Z!NoCall
<1>5. copy.content \in x2 => copy.schema \in x4[d] /\ copy.compiled
  BY <1>0 DEF Z!IndInv, Z!SettledInv, Z!MayWrite
<1>6. \A e \in DraftIds : x1'[e] = (IF e = d THEN copy ELSE x1[e])
  BY <1>1 DEF Z!IndInv, Z!DraftTypes
<1>7. \A x \in DraftCalls : x # c => x3'[x] = x3[x]
  BY <1>1 DEF Z!IndInv, Z!DraftTypes
<1>8. Z!SettledInv'
  BY <1>0, <1>1, <1>3, <1>4, <1>5, <1>6, <1>7 DEF Z!IndInv, Z!SettledInv
<1>9. ASSUME NEW x \in DraftCalls PROVE Z!CopyInv(x)'
  <2>1. CASE x = c
    BY <1>1, <2>1 DEF Z!IndInv, Z!DraftTypes, Z!CopyInv, Z!NoCall
  <2>2. CASE x # c
    BY <1>0, <1>6, <1>7, <2>2 DEF Z!IndInv, Z!CopyInv
  <2> QED BY <2>1, <2>2
<1> QED BY <1>2, <1>8, <1>9 DEF Z!IndInv

LEMMA DraftImported ==
  ASSUME Z!IndInv, NEW c \in DraftCalls, NEW d \in DraftIds, Z!importDraft(c, d)
  PROVE  Z!IndInv'
<1>0. Z!DraftTypes /\ x3[c].at = "new" /\ x1[d].status = "absent"
  BY DEF Z!IndInv, Z!importDraft
<1>1. PICK content \in Plans \cup {Broken} :
        /\ x1' = [ x1 EXCEPT ![d] = [ content |-> content, status |-> "imported", compiled |-> FALSE,
                                      schema |-> Z!NoSchema ] ]
        /\ x4' = [ x4 EXCEPT ![d] = IF content \in x2 THEN { Z!NoSchema, Z!Suggested } ELSE {} ]
  BY DEF Z!importDraft
<1>2. x3' = [ x3 EXCEPT ![c] = Z!NoCall ] /\ x2' = x2
  BY DEF Z!importDraft, Z!CallEnds
<1>3. Z!DraftTypes'
  BY <1>0, <1>1, <1>2 DEF Z!DraftTypes, Z!NoCall, Z!Absent, Z!Drafts, Z!Schemas, Z!NoSchema, Z!Suggested, Z!Statuses
<1>4. \A x \in DraftCalls : x3'[x] = (IF x = c THEN Z!NoCall ELSE x3[x])
  BY <1>0, <1>2 DEF Z!DraftTypes
<1>5. /\ \A x \in DraftCalls : x # c => Z!MayWrite(x)' = Z!MayWrite(x)
      /\ Z!MayWrite(c)' = {}
  BY <1>4 DEF Z!MayWrite, Z!NoCall
<1>6. \A x \in DraftCalls : x3[x].at # "new" => x3[x].on # d
  BY <1>0 DEF Z!IndInv, Z!CopyInv
<1>7. \A x \in DraftCalls : x3'[x].at = "new" => Z!MayWrite(x)' = {}
  BY DEF Z!MayWrite
<1>8. /\ \A e \in DraftIds : e # d => x1'[e] = x1[e] /\ x4'[e] = x4[e]
      /\ x1'[d].schema = Z!NoSchema
      /\ x1'[d].content \in x2 => x4'[d] = { Z!NoSchema, Z!Suggested }
  BY <1>0, <1>1 DEF Z!DraftTypes
<1>9. Z!SettledInv'
  <2> SUFFICES ASSUME NEW e \in DraftIds, x1'[e].status # "absent", x1'[e].content \in x2
               PROVE  /\ x1'[e].schema \in x4'[e]
                      /\ ~x1'[e].compiled => Z!Suggested \in x4'[e]
                      /\ \A x \in DraftCalls : x3'[x].on = e => Z!MayWrite(x)' \subseteq x4'[e]
    BY <1>2 DEF Z!SettledInv, Z!Suggested
  <2>1. CASE e = d
    <3>1. \A x \in DraftCalls : x3'[x].on = d => Z!MayWrite(x)' = {}
      BY <1>4, <1>5, <1>6, <1>7
    <3> QED BY <1>8, <2>1, <3>1
  <2>2. CASE e # d
    BY <1>4, <1>5, <1>8, <2>2 DEF Z!IndInv, Z!SettledInv, Z!NoCall
  <2> QED BY <2>1, <2>2
<1>10. ASSUME NEW x \in DraftCalls PROVE Z!CopyInv(x)'
  <2>1. CASE x = c
    BY <1>4, <2>1 DEF Z!CopyInv, Z!NoCall
  <2>2. CASE x # c
    BY <1>4, <1>6, <1>8, <2>2 DEF Z!IndInv, Z!CopyInv
  <2> QED BY <2>1, <2>2
<1> QED BY <1>3, <1>9, <1>10 DEF Z!IndInv

LEMMA DraftRead ==
  ASSUME Z!IndInv, NEW c \in DraftCalls, NEW d \in DraftIds, NEW op \in { "compile", "update", "review" },
         Z!CallReads(c, d, op)
  PROVE  Z!IndInv'
<1>0. Z!DraftTypes /\ x1[d].status # "absent" /\ UNCHANGED << x1, x2, x4 >> /\ x1[d] \in Z!Drafts
  BY DEF Z!IndInv, Z!CallReads, Z!DraftTypes
<1>1. x3' = [ x3 EXCEPT ![c] = [ at |-> "check", op |-> op, on |-> d, copy |-> x1[d] ] ]
  BY DEF Z!CallReads
<1>2. Z!DraftTypes'
  BY <1>0, <1>1 DEF Z!DraftTypes
<1>3. \A x \in DraftCalls : x3'[x] = (IF x = c THEN [ at |-> "check", op |-> op, on |-> d, copy |-> x1[d] ] ELSE x3[x])
  BY <1>0, <1>1 DEF Z!DraftTypes
<1>4. \A x \in DraftCalls : x # c => Z!MayWrite(x)' = Z!MayWrite(x)
  BY <1>3 DEF Z!MayWrite
<1>5. /\ op = "review" => Z!MayWrite(c)' = { x1[d].schema }
      /\ op = "compile" => Z!MayWrite(c)' = (IF x1[d].compiled THEN {} ELSE { Z!Suggested })
      /\ op = "update" => Z!MayWrite(c)' = {}
  BY <1>3 DEF Z!MayWrite
<1>6. x1[d].content \in x2 => Z!MayWrite(c)' \subseteq x4[d]
  BY <1>0, <1>5 DEF Z!IndInv, Z!SettledInv
<1>7. Z!SettledInv'
  BY <1>0, <1>3, <1>4, <1>6 DEF Z!IndInv, Z!SettledInv
<1> QED BY <1>0, <1>2, <1>3, <1>7 DEF Z!IndInv, Z!CopyInv

(* At the moment a plan is registered, what may still be written is        *)
(* settled.                                                                *)
LEMMA PlanSettles ==
  ASSUME Z!IndInv, NEW p \in Plans, Z!PlanRegistered(p)
  PROVE  Z!IndInv'
<1>0. Z!DraftTypes /\ UNCHANGED << x1, x3 >> /\ x2' = x2 \cup {p} /\ p \notin x2
  BY DEF Z!IndInv, Z!PlanRegistered
<1> DEFINE Settles(d) == { x1[d].schema } \cup (IF x1[d].compiled THEN {} ELSE { Z!Suggested })
                           \cup UNION { Z!MayWrite(c) : c \in { x \in DraftCalls : x3[x].on = d } }
           Concerns(d) == x1[d].status # "absent" /\ x1[d].content = p
<1>1. x4' = [ d \in DraftIds |-> IF Concerns(d) THEN Settles(d) ELSE x4[d] ]
  BY DEF Z!PlanRegistered
<1>2. \A c \in DraftCalls : Z!MayWrite(c)' = Z!MayWrite(c) /\ Z!MayWrite(c) \subseteq Z!Schemas
  BY <1>0 DEF Z!MayWrite, Z!DraftTypes, Z!Drafts, Z!Schemas
<1>3. \A d \in DraftIds : /\ x1[d].schema \in Settles(d)
                          /\ ~x1[d].compiled => Z!Suggested \in Settles(d)
                          /\ \A c \in DraftCalls : x3[c].on = d => Z!MayWrite(c) \subseteq Settles(d)
  OBVIOUS
<1>4. \A d \in DraftIds : Settles(d) \subseteq Z!Schemas
  BY <1>0, <1>2 DEF Z!DraftTypes, Z!Drafts, Z!Schemas
<1> HIDE DEF Settles
<1>5. Z!DraftTypes'
  BY <1>0, <1>1, <1>4 DEF Z!DraftTypes
<1>6. Z!SettledInv'
  <2> SUFFICES ASSUME NEW d \in DraftIds, x1[d].status # "absent", x1[d].content \in x2 \cup {p}
               PROVE  /\ x1[d].schema \in x4'[d]
                      /\ ~x1[d].compiled => Z!Suggested \in x4'[d]
                      /\ \A c \in DraftCalls : x3[c].on = d => Z!MayWrite(c) \subseteq x4'[d]
    BY <1>0, <1>2 DEF Z!SettledInv, Z!Suggested
  <2>1. CASE x1[d].content = p
    BY <1>1, <1>3, <2>1
  <2>2. CASE x1[d].content # p
    BY <1>1, <2>2 DEF Z!IndInv, Z!SettledInv
  <2> QED BY <2>1, <2>2
<1> QED BY <1>0, <1>5, <1>6 DEF Z!IndInv, Z!CopyInv

LEMMA DraftsStep == Z!IndInv /\ [Z!Next]_(Z!draftVars) => Z!IndInv'
<1> SUFFICES ASSUME Z!IndInv, [Z!Next]_(Z!draftVars) PROVE Z!IndInv'
  OBVIOUS
<1>1. CASE UNCHANGED Z!draftVars
  BY <1>1 DEF Z!draftVars, Z!IndInv, Z!DraftTypes, Z!SettledInv, Z!CopyInv, Z!MayWrite
<1> QED BY <1>1, DraftImported, DraftRead, DraftRequestsStep, DraftStored, PlanSettles DEF Z!Next

-----------------------------------------------------------------------------
(* Versions of a series.                                                   *)
LEMMA NoList == [ v \in {} |-> R!NoVersion ] \in R!Lists
<1>1. [ v \in {} |-> R!NoVersion ] \in [ {} -> R!Versions ] /\ {} \in SUBSET VersionIds
  OBVIOUS
<1> QED BY <1>1 DEF R!Lists

LEMMA NoRequestTyped == R!NoRequest \in R!Requests /\ R!NoVersion \notin R!Versions
BY NoList, StoreConstants DEF R!NoRequest, R!Requests, R!NoVersion, R!Versions

LEMMA VersionsInit == R!Init => R!IndInv
<1> SUFFICES ASSUME R!Init PROVE R!IndInv
  OBVIOUS
<1>1. R!VersionTypes
  BY NoRequestTyped DEF R!Init, R!VersionTypes
<1>2. \A c \in VersionCalls : x3[c].at = "new" /\ ~x3[c].fresh
  BY DEF R!Init, R!NoRequest
<1>3. \A v \in VersionIds : x2[v].status = "none" /\ x2[v].plan = NoPlan /\ x5[v] = {}
  BY DEF R!Init, R!NoVersion
<1> QED BY <1>1, <1>2, <1>3 DEF R!IndInv, R!PlanInv, R!CutoverInv, R!AnchorInv, R!CopyInv, R!AtCutover, R!Fresh

(* findFinalizedPlan: a bucket with an event that is not only a commit.    *)
LEMMA FinalizedIsRegistered ==
  ASSUME R!VersionTypes, NEW p \in VersionPlans, R!findFinalizedPlan(p)
  PROVE  R!Registered(p)
BY DEF R!VersionTypes, R!findFinalizedPlan, R!isPlanRegistered, R!Registered

(* The versions a list shows: those stored, or the implicit one.           *)
LEMMA Effective ==
  ASSUME R!VersionTypes
  PROVE  /\ R!Stored = { v \in VersionIds : x2[v] \in R!Versions }
         /\ R!Stored # {} => /\ DOMAIN R!effectiveVersionRecords = R!Stored
                             /\ \A v \in R!Stored : R!effectiveVersionRecords[v] = x2[v]
         /\ R!Stored = {} => \A v \in DOMAIN R!effectiveVersionRecords :
                               /\ v \in VersionIds
                               /\ R!effectiveVersionRecords[v] = [ status |-> "active", plan |-> DefaultPlan ]
                               /\ R!findFinalizedPlan(DefaultPlan)
                               /\ DOMAIN R!effectiveVersionRecords = { DefaultVersion }
<1>1. R!Stored = { v \in VersionIds : x2[v] \in R!Versions }
  BY NoRequestTyped DEF R!VersionTypes, R!Stored
<1>2. CASE R!Stored # {}
  BY <1>1, <1>2 DEF R!effectiveVersionRecords
<1>3. CASE R!Stored = {}
  BY <1>1, <1>3, StoreConstants DEF R!effectiveVersionRecords, R!synthesizeDefaultVersion
<1> QED BY <1>1, <1>2, <1>3

LEMMA EffectiveTyped ==
  ASSUME R!VersionTypes
  PROVE  \A v \in DOMAIN R!effectiveVersionRecords : v \in VersionIds /\ R!effectiveVersionRecords[v] \in R!Versions
<1>1. [ status |-> "active", plan |-> DefaultPlan ] \in R!Versions
  BY StoreConstants DEF R!Versions
<1> QED BY <1>1, Effective

(* A step that only moves one request.                                     *)
LEMMA RequestMoves ==
  ASSUME R!IndInv, NEW c \in VersionCalls, NEW call \in R!Requests,
         x3' = [ x3 EXCEPT ![c] = call ], UNCHANGED << x1, x2, x5 >>, x6 \subseteq x6',
         call.at \in { "ready", "cutover" } => call.record # R!NoVersion,
         call.at = "cutover" => R!Registered(call.record.plan),
         ("activate" \notin x6' /\ call.at = "cutover") =>
           /\ \A x \in R!AtCutover : x = c
           /\ \A v \in VersionIds : x2[v].status = "active" => v \in DOMAIN call.listed,
         "create" \notin x6' => /\ call.fresh => \A x \in R!Fresh : x = c
                                /\ R!CopyInv(call)
  PROVE  R!IndInv'
<1>1. R!VersionTypes'
  BY DEF R!IndInv, R!VersionTypes
<1>2. \A x \in VersionCalls : x3'[x] = (IF x = c THEN call ELSE x3[x])
  BY DEF R!IndInv, R!VersionTypes
<1>3. R!PlanInv'
  BY <1>2 DEF R!IndInv, R!PlanInv, R!Registered
<1>4. R!CutoverInv'
  <2> SUFFICES ASSUME "activate" \notin x6' PROVE R!CutoverInv'
    BY DEF R!CutoverInv
  <2>1. "activate" \notin x6
    OBVIOUS
  <2>2. R!AtCutover' \subseteq R!AtCutover \cup {c} /\ (call.at # "cutover" => c \notin R!AtCutover')
    BY <1>2 DEF R!AtCutover
  <2>3. \A a, x \in R!AtCutover' : a = x
    BY <2>1, <2>2 DEF R!IndInv, R!CutoverInv
  <2>4. \A a \in R!AtCutover' : a # c => a \in R!AtCutover
    BY <2>2
  <2>5. \A a \in R!AtCutover', v \in VersionIds : x2[v].status = "active" => v \in DOMAIN x3'[a].listed
    BY <1>2, <2>1, <2>2, <2>4 DEF R!IndInv, R!CutoverInv, R!AtCutover
  <2> QED BY <2>1, <2>3, <2>5 DEF R!IndInv, R!CutoverInv
<1>5. R!AnchorInv'
  <2> SUFFICES ASSUME "create" \notin x6' PROVE R!AnchorInv'
    BY DEF R!AnchorInv
  <2>1. "create" \notin x6
    OBVIOUS
  <2>2. R!Fresh' \subseteq R!Fresh \cup {c} /\ (~call.fresh => c \notin R!Fresh')
    BY <1>2 DEF R!Fresh
  <2>3. \A a, x \in R!Fresh' : a = x
    BY <2>1, <2>2 DEF R!IndInv, R!AnchorInv
  <2>4. ASSUME NEW x \in VersionCalls PROVE R!CopyInv(x3[x])' 
    BY <1>2, <2>1 DEF R!IndInv, R!AnchorInv, R!CopyInv
  <2> QED BY <2>1, <2>3, <2>4 DEF R!IndInv, R!AnchorInv
<1> QED BY <1>1, <1>3, <1>4, <1>5 DEF R!IndInv

(* A request that is answered.                                             *)
LEMMA RequestAnswered ==
  ASSUME R!IndInv, NEW c \in VersionCalls, R!Answered(c), UNCHANGED << x1, x2, x5 >>, x6 \subseteq x6'
  PROVE  R!IndInv'
<1>1. R!NoRequest.at = "new" /\ ~R!NoRequest.fresh /\ x3' = [ x3 EXCEPT ![c] = R!NoRequest ]
  BY DEF R!NoRequest, R!Answered, R!Holds
<1> QED BY <1>1, NoRequestTyped, RequestMoves DEF R!CopyInv

LEMMA VersionRequested ==
  ASSUME R!IndInv, NEW c \in VersionCalls, NEW op \in { "activate", "deprecate" }, NEW v \in VersionIds,
         NEW claim \in VersionPlans \cup {NoPlan}, R!RequestVersion(c, op, v, claim)
  PROVE  R!IndInv'
<1> DEFINE call == [ R!NoRequest EXCEPT !.at = "get", !.op = op, !.on = v, !.claim = claim ]
<1>1. call \in R!Requests /\ call.at = "get" /\ ~call.fresh
  BY NoList DEF R!NoRequest, R!Requests
<1>2. x3' = [ x3 EXCEPT ![c] = call ] /\ UNCHANGED << x1, x2, x5, x6 >>
  BY DEF R!RequestVersion, R!Holds
<1> HIDE DEF call
<1> QED BY <1>1, <1>2, RequestMoves DEF R!CopyInv

(* A request goes on with a record that names the plan its version has.    *)
LEMMA RequestProceeds ==
  ASSUME R!IndInv, NEW c \in VersionCalls, NEW record \in R!Versions, NEW allowed \in BOOLEAN, NEW fresh \in BOOLEAN,
         R!Proceeds(c, record, allowed, fresh), UNCHANGED << x1, x2, x5 >>, x6 \subseteq x6',
         allowed => /\ fresh => x2[x3[c].on] = R!NoVersion
                    /\ ~fresh => x2[x3[c].on] # R!NoVersion /\ record.plan = x2[x3[c].on].plan
                    /\ (fresh /\ "create" \notin x6') => \A x \in R!Fresh : x = c
  PROVE  R!IndInv'
<1>1. CASE ~allowed
  BY <1>1, RequestAnswered DEF R!Proceeds
<1>2. CASE allowed
  <2> DEFINE call == [ x3[c] EXCEPT !.at = "ready", !.claim = NoPlan, !.record = record, !.fresh = fresh ]
  <2>1. x3[c] \in R!Requests
    BY DEF R!IndInv, R!VersionTypes
  <2>2. /\ call \in R!Requests /\ call.at = "ready" /\ call.record = record /\ call.fresh = fresh
        /\ call.on = x3[c].on
    BY <2>1 DEF R!Requests
  <2>3. x3' = [ x3 EXCEPT ![c] = call ] /\ record # R!NoVersion
    BY <1>2, NoRequestTyped DEF R!Proceeds, R!Holds
  <2> HIDE DEF call
  <2>4. R!CopyInv(call)
    BY <1>2, <2>2 DEF R!CopyInv
  <2> QED BY <1>2, <2>2, <2>3, <2>4, RequestMoves
<1> QED BY <1>1, <1>2

LEMMA Patched ==
  ASSUME NEW record \in R!Versions, NEW claim \in VersionPlans \cup {NoPlan}
  PROVE  /\ R!patchVersionRecord(record, claim) \in R!Versions
         /\ R!anchorImmutable(record, claim) \in BOOLEAN
         /\ R!anchorImmutable(record, claim) => R!patchVersionRecord(record, claim).plan = record.plan
BY StoreConstants DEF R!patchVersionRecord, R!anchorImmutable, R!Versions

LEMMA VersionGot ==
  ASSUME R!IndInv, NEW c \in VersionCalls, R!GetVersion(c)
  PROVE  R!IndInv'
<1>1. x3[c] \in R!Requests /\ x3[c].at = "get" /\ UNCHANGED << x1, x2, x5, x6 >>
  BY DEF R!IndInv, R!VersionTypes, R!GetVersion, R!Quiet
<1>2. x3[c].on \in VersionIds /\ x3[c].claim \in VersionPlans \cup {NoPlan}
  BY <1>1 DEF R!Requests
<1>3. CASE x2[x3[c].on] # R!NoVersion
  <2>1. x2[x3[c].on] \in R!Versions
    BY <1>2, <1>3 DEF R!IndInv, R!VersionTypes
  <2>2. R!Proceeds(c, R!patchVersionRecord(x2[x3[c].on], x3[c].claim),
                   R!anchorImmutable(x2[x3[c].on], x3[c].claim), FALSE)
    BY <1>3 DEF R!GetVersion
  <2> QED BY <1>1, <1>2, <1>3, <2>1, <2>2, Patched, RequestProceeds
<1>4. CASE x2[x3[c].on] = R!NoVersion
  <2> DEFINE call == [ x3[c] EXCEPT !.at = "list" ]
  <2>1. x3' = [ x3 EXCEPT ![c] = call ]
    BY <1>4 DEF R!GetVersion, R!Holds
  <2>2. call \in R!Requests /\ call.at = "list" /\ call.fresh = x3[c].fresh
    BY <1>1 DEF R!Requests
  <2>3. "create" \notin x6 => ~x3[c].fresh
    BY <1>1 DEF R!IndInv, R!AnchorInv, R!CopyInv
  <2> HIDE DEF call
  <2> QED BY <1>1, <2>1, <2>2, <2>3, RequestMoves DEF R!CopyInv
<1> QED BY <1>3, <1>4

LEMMA VersionEnsured ==
  ASSUME R!IndInv, NEW c \in VersionCalls, R!ensureVersionRecord(c)
  PROVE  R!IndInv'
<1> DEFINE v == x3[c].on
           fresh == x2[v] = R!NoVersion
           effective == R!effectiveVersionRecords
<1>1. x3[c] \in R!Requests /\ x3[c].at = "list" /\ UNCHANGED << x1, x2, x5 >> /\ R!VersionTypes
  BY DEF R!IndInv, R!VersionTypes, R!ensureVersionRecord, R!Quiet
<1>2. v \in VersionIds /\ x3[c].claim \in VersionPlans \cup {NoPlan}
  BY <1>1 DEF R!Requests
<1>3. x6 \subseteq x6' /\ ((fresh /\ "create" \notin x6') => \A x \in R!Fresh : x = c)
  BY DEF R!ensureVersionRecord, R!Fresh
<1>4. CASE v \in DOMAIN effective
  <2>1. effective[v] \in R!Versions
    BY <1>1, <1>4, EffectiveTyped
  <2>2. R!Proceeds(c, R!patchVersionRecord(effective[v], x3[c].claim),
                   R!anchorImmutable(effective[v], x3[c].claim), fresh)
    BY <1>4 DEF R!ensureVersionRecord
  <2>3. ~fresh => effective[v] = x2[v]
    BY <1>1, <1>2, <1>4, Effective DEF R!Stored
  <2> HIDE DEF effective
  <2> QED BY <1>1, <1>2, <1>3, <2>1, <2>2, <2>3, Patched, RequestProceeds
<1>5. CASE v \notin DOMAIN effective
  <2>0. fresh
    BY <1>1, <1>2, <1>5, Effective DEF R!Stored
  <2> DEFINE allowed == x3[c].claim # NoPlan /\ R!findFinalizedPlan(x3[c].claim)
             record == [ status |-> "candidate", plan |-> x3[c].claim ]
  <2>1. R!Proceeds(c, record, allowed, fresh)
    BY <1>5 DEF R!ensureVersionRecord
  <2>2. CASE allowed
    <3>1. record \in R!Versions
      BY <1>2, <2>2 DEF R!Versions
    <3>2. R!Proceeds(c, record, TRUE, TRUE)
      BY <2>0, <2>1, <2>2
    <3> HIDE DEF record
    <3> QED BY <1>1, <1>3, <2>0, <3>1, <3>2, RequestProceeds
  <2>3. CASE ~allowed
    BY <1>1, <1>3, <2>1, <2>3, RequestAnswered DEF R!Proceeds
  <2> QED BY <2>2, <2>3
<1> QED BY <1>4, <1>5

(* The versions an activation lists, among them every active one stored.   *)
LEMMA ActiveListed ==
  ASSUME R!VersionTypes
  PROVE  /\ [ v \in R!resolveActiveVersion |-> R!effectiveVersionRecords[v] ] \in R!Lists
         /\ \A v \in VersionIds : x2[v].status = "active" => v \in R!resolveActiveVersion
<1>1. R!resolveActiveVersion \in SUBSET VersionIds
  BY EffectiveTyped DEF R!resolveActiveVersion
<1>2. [ v \in R!resolveActiveVersion |-> R!effectiveVersionRecords[v] ] \in [ R!resolveActiveVersion -> R!Versions ]
  BY EffectiveTyped DEF R!resolveActiveVersion
<1>3. [ v \in R!resolveActiveVersion |-> R!effectiveVersionRecords[v] ] \in R!Lists
  BY <1>1, <1>2 DEF R!Lists
<1>4. ASSUME NEW v \in VersionIds, x2[v].status = "active" PROVE v \in R!resolveActiveVersion
  <2>1. x2[v] \in R!Versions
    BY <1>4 DEF R!VersionTypes, R!NoVersion
  <2> QED BY <1>4, <2>1, Effective DEF R!resolveActiveVersion
<1> QED BY <1>3, <1>4

LEMMA CutoverListed ==
  ASSUME R!IndInv, NEW c \in VersionCalls, R!ListForCutover(c)
  PROVE  R!IndInv'
<1> DEFINE list == [ v \in R!resolveActiveVersion |-> R!effectiveVersionRecords[v] ]
           call == [ x3[c] EXCEPT !.at = "cutover", !.listed = list ]
<1>1. x3[c] \in R!Requests /\ x3[c].at = "ready" /\ UNCHANGED << x1, x2, x5 >> /\ R!VersionTypes
  BY DEF R!IndInv, R!VersionTypes, R!ListForCutover, R!Quiet
<1>2. CASE ~R!assertActivatable(x3[c].record)
  <2>1. R!Answered(c) /\ x6' = x6
    BY <1>2 DEF R!ListForCutover
  <2> QED BY <1>1, <2>1, RequestAnswered
<1>3. CASE R!assertActivatable(x3[c].record)
  <2>1. x3[c].record # R!NoVersion
    BY <1>1 DEF R!IndInv, R!PlanInv
  <2>2. x3[c].record \in R!Versions /\ x3[c].record.plan \in VersionPlans
    BY <1>1, <2>1 DEF R!Requests, R!Versions
  <2>3. R!Registered(x3[c].record.plan)
    BY <1>1, <1>3, <2>2, FinalizedIsRegistered DEF R!assertActivatable
  <2>4. /\ call \in R!Requests /\ call.at = "cutover" /\ call.listed = list /\ call.record = x3[c].record
        /\ call.fresh = x3[c].fresh /\ call.on = x3[c].on
    <3>1. list \in R!Lists
      BY <1>1, ActiveListed
    <3> HIDE DEF list
    <3> QED BY <1>1, <3>1 DEF R!Requests
  <2>5. x3' = [ x3 EXCEPT ![c] = call ] /\ x6 \subseteq x6'
    BY <1>3 DEF R!ListForCutover, R!Holds
  <2>6. "activate" \notin x6' => \A x \in R!AtCutover : x = c
    BY <1>3 DEF R!ListForCutover, R!AtCutover
  <2>7. \A v \in VersionIds : x2[v].status = "active" => v \in DOMAIN list
    BY <1>1, ActiveListed
  <2>8. ASSUME "create" \notin x6 PROVE R!CopyInv(call) /\ (call.fresh => \A x \in R!Fresh : x = c)
    <3>1. R!CopyInv(x3[c]) /\ (x3[c].fresh => \A x \in R!Fresh : x = c)
      BY <2>8 DEF R!IndInv, R!AnchorInv, R!Fresh
    <3>2. ASSUME NEW v \in DOMAIN list
          PROVE  IF x2[v] = R!NoVersion THEN x3[c].fresh ELSE list[v].plan = x2[v].plan
      <4>1. v \in DOMAIN R!effectiveVersionRecords /\ list[v] = R!effectiveVersionRecords[v]
        BY <3>2 DEF R!resolveActiveVersion
      <4>2. CASE R!Stored # {}
        <5>1. v \in R!Stored /\ list[v] = x2[v]
          BY <1>1, <4>1, <4>2, Effective
        <5> QED BY <5>1 DEF R!Stored
      <4>3. CASE R!Stored = {}
        <5>1. v \in VersionIds /\ x3[c].on \in VersionIds
          BY <1>1, <4>1, EffectiveTyped DEF R!Requests
        <5>2. x2[v] = R!NoVersion /\ x2[x3[c].on] = R!NoVersion
          BY <4>3, <5>1 DEF R!Stored
        <5> QED BY <1>1, <3>1, <5>2 DEF R!CopyInv
      <4> QED BY <4>2, <4>3
    <3> HIDE DEF list, call
    <3> QED BY <1>1, <2>4, <3>1, <3>2 DEF R!CopyInv
  <2> HIDE DEF list, call
  <2> QED BY <1>1, <2>1, <2>3, <2>4, <2>5, <2>6, <2>7, <2>8, RequestMoves
<1> QED BY <1>2, <1>3

(* A transaction that rewrites the records of a series.                    *)
LEMMA VersionsStored ==
  ASSUME R!IndInv, NEW c \in VersionCalls, NEW new \in [ VersionIds -> R!Versions \cup {R!NoVersion} ],
         R!Stores(new), R!Answered(c), UNCHANGED << x1, x6 >>,
         \A v \in VersionIds : x2[v] # R!NoVersion => new[v] # R!NoVersion,
         \A v \in VersionIds : new[v].status = "active" => R!Registered(new[v].plan),
         "activate" \notin x6 =>
           /\ \A v, w \in VersionIds : new[v].status = "active" /\ new[w].status = "active" => v = w
           /\ \A x \in R!AtCutover, v \in VersionIds :
                x # c /\ new[v].status = "active" => v \in DOMAIN x3[x].listed,
         "create" \notin x6 => \A v \in VersionIds : IF x2[v] = R!NoVersion
                                                     THEN new[v] # R!NoVersion => x3[c].fresh
                                                     ELSE new[v].plan = x2[v].plan
  PROVE  R!IndInv'
<1>1. /\ x2' = new /\ x5' = [ v \in VersionIds |-> x5[v] \cup ({ new[v].plan } \ {NoPlan}) ]
      /\ x3' = [ x3 EXCEPT ![c] = R!NoRequest ]
  BY DEF R!Stores, R!Answered, R!Holds
<1>2. R!VersionTypes /\ \A v \in VersionIds : { new[v].plan } \ {NoPlan} \subseteq VersionPlans
  BY DEF R!IndInv, R!VersionTypes, R!Versions, R!NoVersion
<1>3. R!VersionTypes'
  BY <1>1, <1>2, NoRequestTyped DEF R!VersionTypes
<1>4. \A x \in VersionCalls : x3'[x] = (IF x = c THEN R!NoRequest ELSE x3[x])
  BY <1>1, <1>2 DEF R!VersionTypes
<1>5. R!NoRequest.at = "new" /\ ~R!NoRequest.fresh
  BY DEF R!NoRequest
<1>6. R!PlanInv'
  <2>1. \A p : R!Registered(p)' <=> R!Registered(p)
    BY DEF R!Registered
  <2>2. \A x \in VersionCalls :
          /\ x3'[x].at \in { "ready", "cutover" } => x3'[x].record # R!NoVersion
          /\ x3'[x].at = "cutover" => R!Registered(x3'[x].record.plan)
    BY <1>4, <1>5 DEF R!IndInv, R!PlanInv
  <2> QED BY <1>1, <2>1, <2>2 DEF R!PlanInv
<1>7. R!AtCutover' = R!AtCutover \ {c} /\ R!Fresh' = R!Fresh \ {c}
  BY <1>4, <1>5 DEF R!AtCutover, R!Fresh
<1>8. R!CutoverInv'
  <2>1. \A x \in R!AtCutover' : x \in R!AtCutover /\ x3'[x] = x3[x] /\ x # c
    BY <1>4, <1>7 DEF R!AtCutover
  <2> QED BY <1>1, <2>1 DEF R!IndInv, R!CutoverInv
<1>9. R!AnchorInv'
  <2> SUFFICES ASSUME "create" \notin x6 PROVE R!AnchorInv'
    BY DEF R!AnchorInv
  <2>1. /\ \A a, x \in R!Fresh : a = x
        /\ \A x \in VersionCalls : R!CopyInv(x3[x])
        /\ \A v \in VersionIds : x5[v] = { x2[v].plan } \ {NoPlan}
    BY DEF R!IndInv, R!AnchorInv
  <2>2. \A a, x \in R!Fresh' : a = x
    BY <1>7, <2>1
  <2>3. ASSUME NEW x \in VersionCalls PROVE R!CopyInv(x3[x])'
    <3>1. CASE x = c
      BY <1>4, <1>5, <3>1 DEF R!CopyInv
    <3>2. CASE x # c
      <4>1. x3[x].on \in VersionIds /\ x3[x].listed \in R!Lists
        BY <1>2 DEF R!VersionTypes, R!Requests
      <4>2. DOMAIN x3[x].listed \subseteq VersionIds
        BY <4>1 DEF R!Lists
      <4>3. \A v \in VersionIds : x2[v] = R!NoVersion /\ x3[x].fresh => new[v] = R!NoVersion
        BY <2>1, <3>2 DEF R!Fresh
      <4>4. \A v \in VersionIds : x2[v] # R!NoVersion => new[v] # R!NoVersion /\ new[v].plan = x2[v].plan
        OBVIOUS
      <4>5. x3'[x] = x3[x] /\ R!CopyInv(x3[x])
        BY <1>4, <2>1, <3>2
      <4>6. x3[x].fresh => x3[x].at \in { "ready", "cutover" } /\ new[x3[x].on] = R!NoVersion
        BY <4>1, <4>3, <4>5 DEF R!CopyInv
      <4>7. (x3[x].at \in { "ready", "cutover" } /\ ~x3[x].fresh) =>
              new[x3[x].on] # R!NoVersion /\ x3[x].record.plan = new[x3[x].on].plan
        BY <4>1, <4>4, <4>5 DEF R!CopyInv
      <4>8. ASSUME x3[x].at = "cutover", NEW v \in DOMAIN x3[x].listed
            PROVE  IF new[v] = R!NoVersion THEN x3[x].fresh ELSE x3[x].listed[v].plan = new[v].plan
        BY <4>2, <4>3, <4>4, <4>5, <4>8 DEF R!CopyInv
      <4> QED BY <1>1, <4>5, <4>6, <4>7, <4>8 DEF R!CopyInv
    <3> QED BY <3>1, <3>2
  <2>4. ASSUME NEW v \in VersionIds PROVE x5'[v] = { new[v].plan } \ {NoPlan}
    <3>1. R!NoVersion.plan = NoPlan
      BY DEF R!NoVersion
    <3>2. x5'[v] = x5[v] \cup ({ new[v].plan } \ {NoPlan}) /\ x5[v] = { x2[v].plan } \ {NoPlan}
      BY <1>1, <2>1
    <3>3. CASE x2[v] = R!NoVersion
      BY <3>1, <3>2, <3>3
    <3>4. CASE x2[v] # R!NoVersion
      BY <3>2, <3>4
    <3> QED BY <3>3, <3>4
  <2> QED BY <1>1, <2>2, <2>3, <2>4 DEF R!AnchorInv
<1> QED BY <1>3, <1>6, <1>8, <1>9 DEF R!IndInv

LEMMA VersionActivated ==
  ASSUME R!IndInv, NEW c \in VersionCalls, R!activate(c)
  PROVE  R!IndInv'
<1> DEFINE call == x3[c]
           new == [ v \in VersionIds |-> R!applyCutover(v, call) ]
<1>0. call \in R!Requests /\ call.at = "cutover" /\ UNCHANGED << x1, x6 >> /\ R!Stores(new) /\ R!Answered(c)
  BY DEF R!IndInv, R!VersionTypes, R!activate
<1>1. call.record \in R!Versions /\ R!Registered(call.record.plan) /\ call.on \in VersionIds
  BY <1>0 DEF R!IndInv, R!PlanInv, R!Requests
<1>2. PICK others \in SUBSET VersionIds : call.listed \in [ others -> R!Versions ]
  BY <1>0 DEF R!Requests, R!Lists
<1>3. /\ new[call.on] = [ call.record EXCEPT !.status = "active" ]
      /\ \A v \in others : v # call.on => new[v] = [ call.listed[v] EXCEPT !.status = "deprecated" ]
      /\ \A v \in VersionIds : (v # call.on /\ v \notin others) => new[v] = x2[v]
  BY <1>1, <1>2 DEF R!applyCutover
<1>4. /\ new[call.on] \in R!Versions /\ new[call.on].plan = call.record.plan
      /\ \A v \in others : v # call.on => /\ new[v] \in R!Versions /\ new[v].plan = call.listed[v].plan
                                     /\ new[v].status = "deprecated"
  <2>1. \A record \in R!Versions, st \in { "active", "deprecated" } :
          /\ [ record EXCEPT !.status = st ] \in R!Versions
          /\ [ record EXCEPT !.status = st ].plan = record.plan
          /\ [ record EXCEPT !.status = st ].status = st
    BY DEF R!Versions
  <2>2. \A v \in others : call.listed[v] \in R!Versions
    BY <1>2
  <2>3. new[call.on] \in R!Versions /\ new[call.on].plan = call.record.plan
    BY <1>1, <1>3, <2>1
  <2>4. ASSUME NEW v \in others, v # call.on
        PROVE  new[v] \in R!Versions /\ new[v].plan = call.listed[v].plan /\ new[v].status = "deprecated"
    <3>1. new[v] = [ call.listed[v] EXCEPT !.status = "deprecated" ]
      BY <1>3, <2>4
    <3>2. PICK record \in R!Versions : record = call.listed[v]
      BY <2>2
    <3>3. new[v] = [ record EXCEPT !.status = "deprecated" ]
      BY <3>1, <3>2
    <3>4. new[v] \in R!Versions /\ new[v].plan = record.plan /\ new[v].status = "deprecated"
      BY <2>1, <3>3
    <3> QED BY <3>2, <3>4
  <2> HIDE DEF new
  <2> QED BY <2>3, <2>4
<1>5. new \in [ VersionIds -> R!Versions \cup {R!NoVersion} ]
  <2>1. \A v \in VersionIds : new[v] \in R!Versions \cup {R!NoVersion}
    BY <1>3, <1>4 DEF R!IndInv, R!VersionTypes
  <2> QED BY <2>1
<1> HIDE DEF new
<1>6. \A v \in VersionIds : x2[v] # R!NoVersion => new[v] # R!NoVersion
  BY <1>3, <1>4, NoRequestTyped
<1>7. \A v \in VersionIds : new[v].status = "active" => R!Registered(new[v].plan)
  BY <1>1, <1>3, <1>4 DEF R!IndInv, R!PlanInv
<1>8. ASSUME "activate" \notin x6
      PROVE  /\ \A v, w \in VersionIds : new[v].status = "active" /\ new[w].status = "active" => v = w
             /\ \A x \in R!AtCutover, v \in VersionIds : x # c /\ new[v].status = "active" => v \in DOMAIN x3[x].listed
  <2>1. /\ \A x \in R!AtCutover : x = c
        /\ \A v \in VersionIds : x2[v].status = "active" => v \in others
    BY <1>0, <1>2, <1>8 DEF R!IndInv, R!CutoverInv, R!AtCutover
  <2> QED BY <1>3, <1>4, <2>1
<1>9. ASSUME "create" \notin x6
      PROVE  \A v \in VersionIds : IF x2[v] = R!NoVersion THEN new[v] # R!NoVersion => call.fresh
                                   ELSE new[v].plan = x2[v].plan
  <2>1. R!CopyInv(call)
    BY <1>9 DEF R!IndInv, R!AnchorInv
  <2>2. \A v \in others : IF x2[v] = R!NoVersion THEN call.fresh ELSE call.listed[v].plan = x2[v].plan
    BY <1>0, <1>2, <2>1 DEF R!CopyInv
  <2>3. IF x2[call.on] = R!NoVersion THEN call.fresh ELSE call.record.plan = x2[call.on].plan
    BY <1>0, <2>1 DEF R!CopyInv
  <2> QED BY <1>3, <1>4, <2>2, <2>3
<1> QED BY <1>0, <1>5, <1>6, <1>7, <1>8, <1>9, VersionsStored

LEMMA VersionDeprecated ==
  ASSUME R!IndInv, NEW c \in VersionCalls, R!deprecate(c)
  PROVE  R!IndInv'
<1> DEFINE call == x3[c]
           new == [ x2 EXCEPT ![call.on] = [ call.record EXCEPT !.status = "deprecated" ] ]
<1>0. /\ call \in R!Requests /\ call.at = "ready" /\ UNCHANGED << x1, x6 >> /\ R!Stores(new) /\ R!Answered(c)
      /\ R!VersionTypes
  BY DEF R!IndInv, R!VersionTypes, R!deprecate
<1>1. call.record \in R!Versions /\ call.on \in VersionIds
  BY <1>0 DEF R!IndInv, R!PlanInv, R!Requests
<1>2. /\ [ call.record EXCEPT !.status = "deprecated" ] \in R!Versions
      /\ [ call.record EXCEPT !.status = "deprecated" ].plan = call.record.plan
      /\ [ call.record EXCEPT !.status = "deprecated" ].status = "deprecated"
  BY <1>1 DEF R!Versions
<1>3. \A v \in VersionIds : new[v] = (IF v = call.on THEN [ call.record EXCEPT !.status = "deprecated" ] ELSE x2[v])
  BY <1>0 DEF R!VersionTypes
<1>4. new \in [ VersionIds -> R!Versions \cup {R!NoVersion} ]
  BY <1>0, <1>2 DEF R!VersionTypes
<1> HIDE DEF new
<1>5. \A v \in VersionIds : x2[v] # R!NoVersion => new[v] # R!NoVersion
  BY <1>2, <1>3, NoRequestTyped
<1>6. \A v \in VersionIds : new[v].status = "active" => x2[v].status = "active" /\ new[v] = x2[v]
  BY <1>2, <1>3
<1>7. "create" \notin x6 => \A v \in VersionIds : IF x2[v] = R!NoVersion THEN new[v] # R!NoVersion => call.fresh
                                                  ELSE new[v].plan = x2[v].plan
  <2> SUFFICES ASSUME "create" \notin x6, NEW v \in VersionIds
               PROVE  IF x2[v] = R!NoVersion THEN new[v] # R!NoVersion => call.fresh ELSE new[v].plan = x2[v].plan
    OBVIOUS
  <2>1. R!CopyInv(call)
    BY DEF R!IndInv, R!AnchorInv
  <2>2. IF x2[call.on] = R!NoVersion THEN call.fresh ELSE call.record.plan = x2[call.on].plan
    BY <1>0, <2>1 DEF R!CopyInv
  <2> QED BY <1>2, <1>3, <2>2
<1>8. \A v \in VersionIds : new[v].status = "active" => R!Registered(new[v].plan)
  BY <1>6 DEF R!IndInv, R!PlanInv
<1>9. "activate" \notin x6 =>
        /\ \A v, w \in VersionIds : new[v].status = "active" /\ new[w].status = "active" => v = w
        /\ \A x \in R!AtCutover, v \in VersionIds : x # c /\ new[v].status = "active" => v \in DOMAIN x3[x].listed
  BY <1>6 DEF R!IndInv, R!CutoverInv
<1> QED BY <1>0, <1>4, <1>5, <1>7, <1>8, <1>9, VersionsStored

LEMMA VersionPlanIndexed ==
  ASSUME R!IndInv, NEW p \in VersionPlans, NEW events \in SUBSET { "committed", "finalized", "registered" },
         R!PlanIndexed(p, events)
  PROVE  R!IndInv'
<1>1. x1' = [ x1 EXCEPT ![p] = @ \cup events ] /\ UNCHANGED << x2, x3, x5, x6 >> /\ R!VersionTypes
  BY DEF R!PlanIndexed, R!IndInv
<1>2. \A q \in VersionPlans : x1[q] \subseteq x1'[q]
  BY <1>1 DEF R!VersionTypes
<1>3. R!VersionTypes'
  BY <1>1 DEF R!VersionTypes
<1>4. ASSUME NEW q \in VersionPlans, R!Registered(q) PROVE R!Registered(q)'
  BY <1>2, <1>4 DEF R!Registered
<1>5. /\ \A c \in VersionCalls : x3[c].at = "cutover" => x3[c].record.plan \in VersionPlans
      /\ \A v \in VersionIds : x2[v].status = "active" => x2[v].plan \in VersionPlans
  <2>1. \A c \in VersionCalls : x3[c].at = "cutover" => x3[c].record \in R!Versions
    BY <1>1 DEF R!IndInv, R!PlanInv, R!VersionTypes, R!Requests
  <2>2. \A v \in VersionIds : x2[v].status = "active" => x2[v] \in R!Versions
    BY <1>1 DEF R!VersionTypes, R!NoVersion
  <2> QED BY <2>1, <2>2 DEF R!Versions
<1>6. R!PlanInv'
  BY <1>1, <1>4, <1>5 DEF R!IndInv, R!PlanInv
<1> QED BY <1>1, <1>3, <1>6 DEF R!IndInv, R!CutoverInv, R!AnchorInv, R!AtCutover, R!Fresh, R!CopyInv

LEMMA VersionsStep == R!IndInv /\ [R!Next]_(R!versionVars) => R!IndInv'
<1> SUFFICES ASSUME R!IndInv, [R!Next]_(R!versionVars) PROVE R!IndInv'
  OBVIOUS
<1>1. CASE UNCHANGED R!versionVars
  BY <1>1 DEF R!versionVars, R!IndInv, R!VersionTypes, R!PlanInv, R!Registered, R!CutoverInv, R!AnchorInv,
     R!AtCutover, R!Fresh, R!CopyInv
<1>2. ASSUME NEW c \in VersionCalls, R!WriteFails(c) PROVE R!IndInv'
  BY <1>2, RequestAnswered DEF R!WriteFails, R!Quiet
<1>3. ASSUME NEW p \in VersionPlans, NEW events \in { {"committed"}, {"finalized", "registered"} },
             R!PlanIndexed(p, events)
      PROVE  R!IndInv'
  BY <1>3, VersionPlanIndexed
<1> QED BY <1>1, <1>2, <1>3, VersionRequested, VersionGot, VersionEnsured, CutoverListed, VersionActivated,
           VersionDeprecated DEF R!Next

LEMMA VersionsFollow == R!IndInv => R!VersionsSound
<1> SUFFICES ASSUME R!IndInv PROVE R!VersionsSound
  OBVIOUS
<1>1. R!VersionTypes
  BY DEF R!IndInv
<1>2. R!OrdersUseRegisteredPlans
  <2> SUFFICES ASSUME NEW v \in R!resolveActiveVersion
               PROVE  R!Registered(R!effectiveVersionRecords[v].plan)
    BY DEF R!OrdersUseRegisteredPlans, R!Registered
  <2>1. v \in DOMAIN R!effectiveVersionRecords /\ R!effectiveVersionRecords[v].status = "active"
    BY DEF R!resolveActiveVersion
  <2>2. CASE R!Stored # {}
    BY <1>1, <2>1, <2>2, Effective DEF R!IndInv, R!PlanInv, R!Stored
  <2>3. CASE R!Stored = {}
    BY <1>1, <2>1, <2>3, Effective, FinalizedIsRegistered, StoreConstants
  <2> QED BY <2>2, <2>3
<1>3. R!OneActiveVersion
  <2> SUFFICES ASSUME "activate" \notin x6 PROVE R!Cardinality(R!resolveActiveVersion) <= 1
    BY DEF R!OneActiveVersion
  <2>1. ASSUME NEW v \in R!resolveActiveVersion, NEW w \in R!resolveActiveVersion PROVE v = w
    <3>1. /\ v \in DOMAIN R!effectiveVersionRecords /\ R!effectiveVersionRecords[v].status = "active"
          /\ w \in DOMAIN R!effectiveVersionRecords /\ R!effectiveVersionRecords[w].status = "active"
      BY DEF R!resolveActiveVersion
    <3>2. CASE R!Stored # {}
      BY <1>1, <3>1, <3>2, Effective DEF R!IndInv, R!CutoverInv, R!Stored
    <3>3. CASE R!Stored = {}
      BY <1>1, <3>1, <3>3, Effective
    <3> QED BY <3>2, <3>3
  <2> QED BY <2>1, AtMostOne, SameCount
<1>4. R!AnchorKept
  <2> SUFFICES ASSUME "create" \notin x6, NEW v \in VersionIds PROVE R!Cardinality(x5[v]) <= 1
    BY DEF R!AnchorKept
  <2>1. \A p, q \in x5[v] : p = q
    BY DEF R!IndInv, R!AnchorInv
  <2> QED BY <2>1, AtMostOne, SameCount
<1> QED BY <1>2, <1>3, <1>4 DEF R!VersionsSound

(* A published schema is frozen although every operation writes its whole  *)
(* copy back; and orders go to one registered plan of a series whose       *)
(* versions keep their anchors.                                            *)
THEOREM ConsoleHonest == Spec => []ConsoleSound
<1> DEFINE Inv == (focus = "drafts" => Z!IndInv) /\ (focus = "versions" => R!IndInv)
<1>1. Init => Inv
  BY DraftsInit, VersionsInit DEF Init
<1>2. Inv /\ [Next]_allVars => Inv'
  BY FocusStep, DraftsStep, VersionsStep
<1>3. Inv => ConsoleSound
  <2>1. Z!IndInv => Z!DraftsSound
    BY DEF Z!IndInv, Z!DraftsSound, Z!DraftTypes, Z!DraftTypeOK, Z!SettledInv, Z!FrozenOncePublished
  <2> QED BY <2>1, VersionsFollow DEF ConsoleSound
<1> QED BY <1>1, <1>2, <1>3, PTL DEF Spec, allVars

-----------------------------------------------------------------------------
(* Joining a plan.                                                         *)
LEMMA JoinInit == J!Init => J!IndInv
<1> SUFFICES ASSUME J!Init PROVE J!IndInv
  OBVIOUS
<1>1. J!JoinTypes
  BY DEF J!Init, J!JoinTypes, J!Works
<1>2. /\ \A a \in ApplicationIds : x2[a].status = "none"
      /\ \A s \in Subjects : x4[s] = J!NoSupplier
      /\ \A r \in JoinRequests : x10[r].at = "idle"
  BY DEF J!Init, J!NoApplication, J!NotWorking
<1> QED BY <1>1, <1>2 DEF J!IndInv, J!OpenInv, J!Open, J!ActiveWasAuthorized, J!DirectoryInv, J!WorkInv

(* An application that was read is one that was stored.                    *)
LEMMA ApplicationRead ==
  ASSUME J!JoinTypes, NEW a \in ApplicationIds, x2[a].status # "none"
  PROVE  x2[a] \in J!Applications
BY DEF J!JoinTypes, J!NoApplication

LEMMA SupplierRead ==
  ASSUME J!JoinTypes, NEW s \in Subjects, x4[s] # J!NoSupplier
  PROVE  x4[s] \in J!Suppliers
BY DEF J!JoinTypes

(* What a request at a step carries.                                       *)
LEMMA Carried ==
  ASSUME J!JoinTypes, NEW r \in JoinRequests
  PROVE  /\ x10[r].at = "submit" => x10[r].copy \in J!Applications
         /\ x10[r].at \in { "decide", "resolve", "pair" } =>
              x10[r].app \in ApplicationIds /\ x10[r].copy \in J!Applications
         /\ x10[r].at = "pair" => x10[r].governance \in BOOLEAN /\ x10[r].operator \in BOOLEAN
         /\ x10[r].at \in { "create", "review", "register", "authorize" } =>
              x10[r] \in J!Pairing({ "create", "review", "register", "authorize" })
         /\ x10[r].at = "store" => /\ x10[r].subject \in Subjects /\ x10[r].supplier \in J!Suppliers
                                   /\ x10[r].then \in {J!NotWorking} \cup J!Pairing({ "register", "authorize" })
BY DEF J!JoinTypes, J!Works, J!Pairing, J!NotWorking

(* What was true of a supplier record stays so.                            *)
LEMMA SupplierStays ==
  ASSUME NEW s \in Subjects, NEW record, J!SupplierInv(s, record), x5[s] \subseteq x5'[s], J!Bound(s) => J!Bound(s)'
  PROVE  /\ record.review \in x5'[s] \cup { record.created }
         /\ record.by = "reviewer" => J!Bound(s)'
BY DEF J!SupplierInv

LEMMA JoinMoves ==
  ASSUME J!IndInv, J!JoinTypes', J!OpenInv', J!ActiveWasAuthorized',
         \A s \in Subjects : x5[s] \subseteq x5'[s] /\ (J!Bound(s) => J!Bound(s)'),
         \A s \in Subjects : (x4'[s] # J!NoSupplier /\ x4'[s] # x4[s]) => J!SupplierInv(s, x4[s])',
         \A q \in JoinRequests : x10'[q] # x10[q] => J!WorkInv(x10[q])'
  PROVE  J!IndInv'
<1>1. J!DirectoryInv'
  <2> SUFFICES ASSUME NEW s \in Subjects, x4'[s] # J!NoSupplier PROVE J!SupplierInv(s, x4[s])'
    BY DEF J!DirectoryInv, J!NoSupplier
  <2>1. CASE x4'[s] = x4[s]
    <3>1. J!SupplierInv(s, x4[s])
      BY <2>1 DEF J!IndInv, J!DirectoryInv
    <3> QED BY <2>1, <3>1, SupplierStays DEF J!SupplierInv
  <2> QED BY <2>1
<1>2. ASSUME NEW q \in JoinRequests PROVE J!WorkInv(x10[q])'
  <2>1. CASE x10'[q] = x10[q]
    <3>1. J!WorkInv(x10[q])
      BY DEF J!IndInv
    <3>2. x10[q].at = "store" => J!SupplierInv(x10[q].subject, x10[q].supplier)'
      <4> SUFFICES ASSUME x10[q].at = "store" PROVE J!SupplierInv(x10[q].subject, x10[q].supplier)'
        OBVIOUS
      <4>1. x10[q].subject \in Subjects /\ J!SupplierInv(x10[q].subject, x10[q].supplier)
        BY <3>1, Carried DEF J!IndInv, J!WorkInv
      <4> QED BY <2>1, <4>1, SupplierStays DEF J!SupplierInv
    <3>3. x10[q].at = "create" => x10[q].governed \/ J!Bound(x10[q].copy.subject)'
      <4> SUFFICES ASSUME x10[q].at = "create", ~x10[q].governed PROVE J!Bound(x10[q].copy.subject)'
        OBVIOUS
      <4>1. x10[q].copy.subject \in Subjects
        BY Carried DEF J!IndInv, J!Pairing, J!Applications
      <4>2. PICK s \in Subjects : s = x10[q].copy.subject
        BY <4>1
      <4>3. J!Bound(s)'
        BY <3>1, <4>2 DEF J!WorkInv
      <4>4. x10'[q].copy.subject = s
        BY <2>1, <4>2
      <4> QED BY <4>3, <4>4 DEF J!Bound
    <3> QED BY <2>1, <3>1, <3>2, <3>3 DEF J!WorkInv
  <2> QED BY <2>1
<1> QED BY <1>1, <1>2 DEF J!IndInv

(* A request moves on; reviews and broadcasts may have been added.         *)
LEMMA WorkMoves ==
  ASSUME J!IndInv, NEW r \in JoinRequests, NEW w \in J!Works, x10' = [ x10 EXCEPT ![r] = w ],
         UNCHANGED << x2, x4, x7, x9 >>, x5' \in [ Subjects -> SUBSET J!ReviewStatus ],
         \A s \in Subjects : x5[s] \subseteq x5'[s], x8' \subseteq J!Identities,
         w.at = "store" => /\ w.supplier.review \in x5'[w.subject] \cup { w.supplier.created }
                           /\ w.supplier.by = "reviewer" => J!Bound(w.subject),
         w.at = "create" => w.governed \/ J!Bound(w.copy.subject),
         w.at \in { "submit", "decide" } => w.copy.status # "active"
  PROVE  J!IndInv'
<1>1. J!JoinTypes'
  BY DEF J!IndInv, J!JoinTypes
<1>2. J!OpenInv' /\ J!ActiveWasAuthorized'
  BY DEF J!IndInv, J!OpenInv, J!ActiveWasAuthorized
<1>3. \A s \in Subjects : J!Bound(s)' <=> J!Bound(s)
  BY DEF J!Bound
<1>4. \A q \in JoinRequests : x10'[q] = (IF q = r THEN w ELSE x10[q])
  BY DEF J!IndInv, J!JoinTypes
<1>5. ASSUME NEW q \in JoinRequests, x10'[q] # x10[q] PROVE J!WorkInv(x10[q])'
  <2>1. x10'[q] = w
    BY <1>4, <1>5
  <2>2. w.at = "store" => J!SupplierInv(w.subject, w.supplier)'
    BY DEF J!SupplierInv, J!Bound
  <2>3. w.at = "create" => w.governed \/ J!Bound(w.copy.subject)'
    BY DEF J!Bound
  <2> QED BY <2>1, <2>2, <2>3 DEF J!WorkInv, J!SupplierInv, J!Bound
<1> QED BY <1>1, <1>2, <1>3, <1>5, JoinMoves

(* A request that only takes note of what it read.                         *)
LEMMA WorkReads ==
  ASSUME J!IndInv, NEW r \in JoinRequests, NEW w \in J!Works, x10' = [ x10 EXCEPT ![r] = w ],
         UNCHANGED << x2, x4, x5, x7, x8, x9 >>, w.at \notin { "store", "create", "submit", "decide" }
  PROVE  J!IndInv'
<1>1. x5 \in [ Subjects -> SUBSET J!ReviewStatus ] /\ x8 \subseteq J!Identities
  BY DEF J!IndInv, J!JoinTypes
<1> QED BY <1>1, WorkMoves

(* A whole copy is written to the applications.                            *)
LEMMA ApplicationPut ==
  ASSUME J!IndInv, NEW r \in JoinRequests, NEW w \in J!Works, x10' = [ x10 EXCEPT ![r] = w ],
         w.at \notin { "store", "create", "submit", "decide" }, UNCHANGED << x4, x5, x7, x8, x9 >>,
         NEW a \in ApplicationIds, NEW record \in J!Applications, J!putApplication(a, record),
         record.status = "active" =>
           /\ \E g \in x9 : g.wallet = record.address /\ g.place = "slot"
           /\ x7[record.subject][record.address] # "none"
  PROVE  J!IndInv'
<1>1. CASE ~J!openApplicationUnique(a, record)
  BY <1>1, WorkReads DEF J!putApplication
<1>2. CASE J!openApplicationUnique(a, record)
  <2>1. x2' = [ x2 EXCEPT ![a] = record ]
    BY <1>2 DEF J!putApplication
  <2>2. \A b \in ApplicationIds : x2'[b] = (IF b = a THEN record ELSE x2[b])
    BY <2>1 DEF J!IndInv, J!JoinTypes
  <2>3. J!JoinTypes'
    BY <2>1 DEF J!IndInv, J!JoinTypes
  <2>4. J!OpenInv'
    <3>1. record.status \in J!Open =>
            \A b \in ApplicationIds : (x2[b].status \in J!Open /\ x2[b].address = record.address) => b = a
      BY <1>2 DEF J!openApplicationUnique, J!OpenOf
    <3> QED BY <2>2, <3>1 DEF J!IndInv, J!OpenInv
  <2>5. J!ActiveWasAuthorized'
    BY <2>2 DEF J!IndInv, J!ActiveWasAuthorized
  <2>6. \A s \in Subjects : J!Bound(s)' <=> J!Bound(s)
    BY DEF J!Bound
  <2>7. \A q \in JoinRequests : x10'[q] # x10[q] => x10'[q] = w
    BY DEF J!IndInv, J!JoinTypes
  <2>8. \A q \in JoinRequests : x10'[q] # x10[q] => J!WorkInv(x10[q])'
    BY <2>7 DEF J!WorkInv
  <2> QED BY <2>3, <2>4, <2>5, <2>6, <2>8, JoinMoves
<1> QED BY <1>1, <1>2

(* What a request may carry to its next step.                              *)
LEMMA WorkShapes ==
  /\ J!NotWorking \in J!Works
  /\ \A copy \in J!Applications : [ at |-> "submit", copy |-> copy ] \in J!Works
  /\ \A a \in ApplicationIds, copy \in J!Applications, step \in { "decide", "resolve" } :
       [ at |-> step, app |-> a, copy |-> copy ] \in J!Works
  /\ \A a \in ApplicationIds, copy \in J!Applications, g, o \in BOOLEAN :
       [ at |-> "pair", app |-> a, copy |-> copy, governance |-> g, operator |-> o ] \in J!Works
  /\ \A job \in J!Pairing({ "create", "review", "register", "authorize" }) : job \in J!Works
  /\ \A s \in Subjects, record \in J!Suppliers, next \in {J!NotWorking} \cup J!Pairing({ "register", "authorize" }) :
       [ at |-> "store", subject |-> s, then |-> next, supplier |-> record ] \in J!Works
BY DEF J!Works

LEMMA Submitted ==
  ASSUME J!IndInv, NEW r \in JoinRequests, NEW wallet \in JoinWallets, NEW subject \in Subjects,
         J!submitApplication(r, wallet, subject)
  PROVE  J!IndInv'
<1> DEFINE w == [ at |-> "submit", copy |-> [ status |-> "applied", address |-> wallet, subject |-> subject ] ]
<1>1. w \in J!Works
  BY WorkShapes DEF J!Applications, J!ApplicationStatus
<1>2. x5 \in [ Subjects -> SUBSET J!ReviewStatus ] /\ x8 \subseteq J!Identities
  BY DEF J!IndInv, J!JoinTypes
<1>3. x10' = [ x10 EXCEPT ![r] = w ] /\ UNCHANGED << x2, x4, x5, x7, x8, x9 >>
  BY DEF J!submitApplication, J!Go, J!directoryVars, J!chainVars
<1> QED BY <1>1, <1>2, <1>3, WorkMoves

(* The decisions of a reviewer and of the applicant.                       *)
LEMMA Decided ==
  ASSUME J!IndInv, NEW r \in JoinRequests, NEW a \in ApplicationIds, x2[a].status # "none",
         NEW status \in { "under_review", "rejected", "revoked" }, J!Decides(r, a, status)
  PROVE  J!IndInv'
<1> DEFINE w == [ at |-> "decide", app |-> a, copy |-> [ x2[a] EXCEPT !.status = status ] ]
<1>1. [ x2[a] EXCEPT !.status = status ] \in J!Applications /\ w.copy.status = status
  BY ApplicationRead DEF J!IndInv, J!Applications, J!ApplicationStatus
<1>2. w \in J!Works
  BY <1>1, WorkShapes
<1>3. x5 \in [ Subjects -> SUBSET J!ReviewStatus ] /\ x8 \subseteq J!Identities
  BY DEF J!IndInv, J!JoinTypes
<1>4. x10' = [ x10 EXCEPT ![r] = w ] /\ UNCHANGED << x2, x4, x5, x7, x8, x9 >>
  BY DEF J!Decides, J!Go, J!directoryVars, J!chainVars
<1> QED BY <1>1, <1>2, <1>3, <1>4, WorkMoves

LEMMA Approved ==
  ASSUME J!IndInv, NEW r \in JoinRequests, NEW a \in ApplicationIds, NEW governance \in BOOLEAN,
         NEW operator \in BOOLEAN, J!approveApplication(r, a, governance, operator)
  PROVE  J!IndInv'
<1> DEFINE w == [ at |-> "pair", app |-> a, copy |-> x2[a], governance |-> governance, operator |-> operator ]
<1>1. x2[a] \in J!Applications
  BY ApplicationRead DEF J!IndInv, J!approveApplication
<1>2. w \in J!Works
  BY <1>1, WorkShapes
<1>3. x10' = [ x10 EXCEPT ![r] = w ] /\ UNCHANGED << x2, x4, x5, x7, x8, x9 >>
  BY DEF J!approveApplication, J!Go, J!directoryVars, J!chainVars
<1> QED BY <1>2, <1>3, WorkReads

LEMMA ReadForDetail ==
  ASSUME J!IndInv, NEW r \in JoinRequests, NEW a \in ApplicationIds, J!ReadApplication(r, a)
  PROVE  J!IndInv'
<1> DEFINE w == [ at |-> "resolve", app |-> a, copy |-> x2[a] ]
<1>1. x2[a] \in J!Applications
  BY ApplicationRead DEF J!IndInv, J!ReadApplication
<1>2. w \in J!Works
  BY <1>1, WorkShapes
<1>3. x10' = [ x10 EXCEPT ![r] = w ] /\ UNCHANGED << x2, x4, x5, x7, x8, x9 >>
  BY DEF J!ReadApplication, J!Go, J!directoryVars, J!chainVars
<1> QED BY <1>2, <1>3, WorkReads

(* Copies written back: a submission, a decision, an approval.             *)
LEMMA CopyWritten ==
  ASSUME J!IndInv, NEW r \in JoinRequests,
         \/ \E a \in ApplicationIds : J!SubmitWrites(r, a)
         \/ J!DecisionWrites(r)
         \/ J!ApprovalWrites(r)
  PROVE  J!IndInv'
<1> USE DEF J!directoryVars, J!chainVars, J!Done, J!Go
<1>1. J!JoinTypes /\ J!WorkInv(x10[r])
  BY DEF J!IndInv
<1>2. J!NotWorking \in J!Works /\ J!NotWorking.at \notin { "store", "create", "submit", "decide" }
  BY WorkShapes DEF J!NotWorking
<1>3. ASSUME NEW a \in ApplicationIds, J!SubmitWrites(r, a) PROVE J!IndInv'
  <2>1. x10[r].copy \in J!Applications /\ x10[r].copy.status # "active"
    BY <1>1, <1>3, Carried DEF J!SubmitWrites, J!WorkInv
  <2>2. /\ x10' = [ x10 EXCEPT ![r] = J!NotWorking ] /\ J!putApplication(a, x10[r].copy)
        /\ UNCHANGED << x4, x5, x7, x8, x9 >>
    BY <1>3 DEF J!SubmitWrites
  <2> QED BY <1>2, <2>1, <2>2, ApplicationPut
<1>4. CASE J!DecisionWrites(r)
  <2>1. x10[r].app \in ApplicationIds /\ x10[r].copy \in J!Applications /\ x10[r].copy.status # "active"
    BY <1>1, <1>4, Carried DEF J!DecisionWrites, J!WorkInv
  <2>2. /\ x10' = [ x10 EXCEPT ![r] = J!NotWorking ] /\ J!putApplication(x10[r].app, x10[r].copy)
        /\ UNCHANGED << x4, x5, x7, x8, x9 >>
    BY <1>4 DEF J!DecisionWrites
  <2> QED BY <1>2, <2>1, <2>2, ApplicationPut
<1>5. CASE J!ApprovalWrites(r)
  <2> DEFINE record == [ x10[r].copy EXCEPT !.status = "authorized" ]
  <2>1. x10[r].app \in ApplicationIds /\ x10[r].copy \in J!Applications
    BY <1>1, <1>5, Carried DEF J!ApprovalWrites, J!Pairing
  <2>2. record \in J!Applications /\ record.status = "authorized"
    BY <2>1 DEF J!Applications, J!ApplicationStatus
  <2>3. /\ x10' = [ x10 EXCEPT ![r] = J!NotWorking ] /\ J!putApplication(x10[r].app, record)
        /\ UNCHANGED << x4, x5, x7, x8, x9 >>
    BY <1>5 DEF J!ApprovalWrites
  <2> HIDE DEF record
  <2> QED BY <1>2, <2>1, <2>2, <2>3, ApplicationPut
<1> QED BY <1>3, <1>4, <1>5

(* An application looked at becomes active only with its grant and its     *)
(* binding.                                                                *)
LEMMA Resolved ==
  ASSUME J!IndInv, NEW r \in JoinRequests, J!resolveApplicationDetail(r)
  PROVE  J!IndInv'
<1> DEFINE status == J!Converged(x10[r].copy)
<1> DEFINE record == [ x10[r].copy EXCEPT !.status = status ]
<1>1. x10[r].app \in ApplicationIds /\ x10[r].copy \in J!Applications
  BY Carried DEF J!IndInv, J!resolveApplicationDetail
<1>2. J!NotWorking \in J!Works /\ J!NotWorking.at \notin { "store", "create", "submit", "decide" }
  BY WorkShapes DEF J!NotWorking
<1>3. x10' = [ x10 EXCEPT ![r] = J!NotWorking ] /\ UNCHANGED << x4, x5, x7, x8, x9 >>
  BY DEF J!resolveApplicationDetail, J!directoryVars, J!chainVars, J!Done, J!Go
<1>4. CASE UNCHANGED x2
  BY <1>2, <1>3, <1>4, WorkReads
<1>5. CASE status # x10[r].copy.status /\ J!putApplication(x10[r].app, record)
  <2>1. status \in { "revoked", "active" }
    BY <1>5 DEF J!Converged
  <2>2. record \in J!Applications /\ record.status = status /\ record.address = x10[r].copy.address
        /\ record.subject = x10[r].copy.subject
    BY <1>1, <2>1 DEF J!Applications, J!ApplicationStatus
  <2>3. ASSUME status = "active"
        PROVE  /\ \E g \in x9 : g.wallet = x10[r].copy.address /\ g.place = "slot"
               /\ x7[x10[r].copy.subject][x10[r].copy.address] # "none"
    <3>1. /\ x10[r].copy.address \in J!ActiveOf(x10[r].copy.subject)
          /\ J!findOnChainAuthorizationEvidence(x10[r].copy.address)
      BY <1>5, <2>3 DEF J!Converged
    <3> QED BY <3>1 DEF J!ActiveOf, J!findOnChainAuthorizationEvidence
  <2> HIDE DEF record, status
  <2> QED BY <1>1, <1>2, <1>3, <1>5, <2>2, <2>3, ApplicationPut
<1>6. UNCHANGED x2 \/ (status # x10[r].copy.status /\ J!putApplication(x10[r].app, record))
  BY DEF J!resolveApplicationDetail
<1> QED BY <1>4, <1>5, <1>6

(* The pairing goes on only with the authority it needs.                   *)
LEMMA Paired ==
  ASSUME J!IndInv, NEW r \in JoinRequests, J!ensureIdentityPairing(r)
  PROVE  J!IndInv'
<1> DEFINE job == x10[r]
           subject == job.copy.subject
           bound == J!ActiveOf(subject) = {job.copy.address}
           known == x4[subject] # J!NoSupplier
           needsReview == ~known \/ x4[subject].review # "approved_for_broadcast"
           next == CASE ~known -> "create" [] known /\ bound -> "authorize"
                     [] known /\ ~bound /\ needsReview -> "review" [] OTHER -> "register"
           w == [ at |-> next, app |-> job.app, copy |-> job.copy, bound |-> bound,
                  governed |-> job.governance /\ job.operator ]
<1>1. /\ job.app \in ApplicationIds /\ job.copy \in J!Applications
      /\ job.governance \in BOOLEAN /\ job.operator \in BOOLEAN
  BY Carried DEF J!IndInv, J!ensureIdentityPairing
<1>2. next \in { "create", "review", "register", "authorize" }
  OBVIOUS
<1>3. w \in J!Pairing({ "create", "review", "register", "authorize" })
  BY <1>1, <1>2 DEF J!Pairing
<1>4. w \in J!Works
  BY <1>3, WorkShapes
<1>5. UNCHANGED << x2, x4, x5, x7, x8, x9 >>
  BY DEF J!ensureIdentityPairing, J!directoryVars, J!chainVars
<1>6. CASE x10' = [ x10 EXCEPT ![r] = J!NotWorking ]
  BY <1>5, <1>6, WorkShapes, WorkReads DEF J!NotWorking
<1>7. CASE J!AuthorityHeld(job, bound, needsReview) /\ x10' = [ x10 EXCEPT ![r] = w ]
  <2>1. subject \in Subjects
    BY <1>1 DEF J!Applications
  <2>2. bound => J!Bound(subject)
    BY DEF J!ActiveOf, J!Bound
  <2>3. next = "create" => ~known
    OBVIOUS
  <2>4. next = "create" => w.governed \/ J!Bound(w.copy.subject)
    BY <1>7, <2>2, <2>3 DEF J!AuthorityHeld
  <2>5. x5 \in [ Subjects -> SUBSET J!ReviewStatus ] /\ x8 \subseteq J!Identities
    BY DEF J!IndInv, J!JoinTypes
  <2>6. w.at = next
    OBVIOUS
  <2>7. w.at \notin { "store", "submit", "decide" } /\ (w.at = "create" => w.governed \/ J!Bound(w.copy.subject))
    BY <1>2, <2>4, <2>6
  <2>8. x10' = [ x10 EXCEPT ![r] = w ]
    BY <1>7
  <2> HIDE DEF w, next, known, bound, needsReview
  <2> QED BY <1>4, <1>5, <2>5, <2>7, <2>8, WorkMoves
<1>8. x10' = [ x10 EXCEPT ![r] = J!NotWorking ]
      \/ (J!AuthorityHeld(job, bound, needsReview) /\ x10' = [ x10 EXCEPT ![r] = w ])
  BY DEF J!ensureIdentityPairing, J!Go
<1> QED BY <1>6, <1>7, <1>8

(* A record of the directory is written whole.                             *)
LEMMA SupplierPut ==
  ASSUME J!IndInv, NEW s \in Subjects, NEW record \in J!Suppliers, x4' = [ x4 EXCEPT ![s] = record ],
         UNCHANGED << x2, x5, x7, x8, x9 >>, J!SupplierInv(s, record),
         x10' \in [ JoinRequests -> J!Works ],
         \A q \in JoinRequests : x10'[q] # x10[q] => x10'[q].at \notin { "store", "create", "submit", "decide" }
  PROVE  J!IndInv'
<1>1. J!JoinTypes'
  BY DEF J!IndInv, J!JoinTypes
<1>2. J!OpenInv' /\ J!ActiveWasAuthorized'
  BY DEF J!IndInv, J!OpenInv, J!ActiveWasAuthorized
<1>3. \A t \in Subjects : J!Bound(t)' <=> J!Bound(t)
  BY DEF J!Bound
<1>4. \A t \in Subjects : x4'[t] # x4[t] => (t = s /\ x4'[t] = record)
  BY DEF J!IndInv, J!JoinTypes
<1>5. J!SupplierInv(s, record)'
  BY DEF J!SupplierInv, J!Bound
<1>6. \A t \in Subjects : (x4'[t] # J!NoSupplier /\ x4'[t] # x4[t]) => J!SupplierInv(t, x4[t])'
  BY <1>4, <1>5 DEF J!SupplierInv, J!Bound
<1>7. \A q \in JoinRequests : x10'[q] # x10[q] => J!WorkInv(x10[q])'
  BY DEF J!WorkInv
<1> QED BY <1>1, <1>2, <1>3, <1>6, <1>7, JoinMoves

LEMMA SupplierCreated ==
  ASSUME J!IndInv, NEW subject \in Subjects, NEW wallet \in JoinWallets \cup {NoWallet},
         NEW status \in { "submitted", "approved_for_broadcast" }, J!createSupplier(subject, wallet, status)
  PROVE  J!IndInv'
<1> DEFINE record == J!createMetadataRecord(status, wallet, "operator")
<1>1. record \in J!Suppliers /\ J!SupplierInv(subject, record)
  BY DEF J!createMetadataRecord, J!Suppliers, J!ReviewStatus, J!SupplierInv
<1>2. x4' = [ x4 EXCEPT ![subject] = record ] /\ UNCHANGED << x2, x5, x7, x8, x9, x10 >>
  BY DEF J!createSupplier, J!chainVars
<1>3. x10' \in [ JoinRequests -> J!Works ] /\ \A q \in JoinRequests : x10'[q] = x10[q]
  BY <1>2 DEF J!IndInv, J!JoinTypes
<1> HIDE DEF record
<1> QED BY <1>1, <1>2, <1>3, SupplierPut

(* The approval creates the supplier it had the authority for.             *)
LEMMA PairingCreated ==
  ASSUME J!IndInv, NEW r \in JoinRequests, J!PairingCreates(r)
  PROVE  J!IndInv'
<1> DEFINE s == x10[r].copy.subject
           record == J!createMetadataRecord(IF x10[r].bound THEN "approved_for_broadcast" ELSE "submitted",
                       x10[r].copy.address, IF x10[r].governed THEN "governance" ELSE "reviewer")
           w == [ x10[r] EXCEPT !.at = IF x10[r].bound THEN "authorize" ELSE "review" ]
<1>1. x10[r] \in J!Pairing({ "create", "review", "register", "authorize" }) /\ x10[r].at = "create"
  BY Carried DEF J!IndInv, J!PairingCreates
<1>2. s \in Subjects /\ x10[r].copy.address \in JoinWallets /\ x10[r].bound \in BOOLEAN /\ x10[r].governed \in BOOLEAN
  BY <1>1 DEF J!Pairing, J!Applications
<1>3. x10[r].governed \/ J!Bound(s)
  BY <1>1 DEF J!IndInv, J!WorkInv
<1>4. UNCHANGED << x2, x5, x7, x8, x9 >>
  BY DEF J!PairingCreates, J!chainVars
<1>5. CASE x4[s] = J!NoSupplier
  <2>1. x4' = [ x4 EXCEPT ![s] = record ] /\ x10' = [ x10 EXCEPT ![r] = w ]
    BY <1>5 DEF J!PairingCreates, J!Go
  <2>2. record \in J!Suppliers
    BY <1>2 DEF J!createMetadataRecord, J!Suppliers, J!ReviewStatus
  <2>3. J!SupplierInv(s, record)
    BY <1>2, <1>3 DEF J!createMetadataRecord, J!SupplierInv
  <2>4. w \in J!Pairing({ "create", "review", "register", "authorize" }) /\ w.at \in { "authorize", "review" }
    BY <1>1 DEF J!Pairing
  <2>5. w \in J!Works
    BY <2>4, WorkShapes
  <2>6. x10' \in [ JoinRequests -> J!Works ] /\ \A q \in JoinRequests : x10'[q] # x10[q] => x10'[q] = w
    BY <2>1, <2>5 DEF J!IndInv, J!JoinTypes
  <2> HIDE DEF record, w, s
  <2> QED BY <1>2, <1>4, <2>1, <2>2, <2>3, <2>4, <2>6, SupplierPut
<1>6. CASE x4[s] # J!NoSupplier
  <2>1. UNCHANGED x4 /\ x10' = [ x10 EXCEPT ![r] = J!NotWorking ]
    BY <1>6 DEF J!PairingCreates, J!Done, J!Go
  <2> QED BY <1>4, <2>1, WorkShapes, WorkReads DEF J!NotWorking
<1> QED BY <1>5, <1>6

LEMMA SupplierStored ==
  ASSUME J!IndInv, NEW r \in JoinRequests, J!putSupplier(r)
  PROVE  J!IndInv'
<1>1. /\ x10[r].subject \in Subjects /\ x10[r].supplier \in J!Suppliers
      /\ x10[r].then \in {J!NotWorking} \cup J!Pairing({ "register", "authorize" })
  BY Carried DEF J!IndInv, J!putSupplier
<1>2. J!SupplierInv(x10[r].subject, x10[r].supplier)
  BY DEF J!IndInv, J!WorkInv, J!putSupplier
<1>3. /\ x4' = [ x4 EXCEPT ![x10[r].subject] = x10[r].supplier ] /\ x10' = [ x10 EXCEPT ![r] = x10[r].then ]
      /\ UNCHANGED << x2, x5, x7, x8, x9 >>
  BY DEF J!putSupplier, J!Go, J!chainVars
<1>4. x10[r].then \in J!Works /\ x10[r].then.at \in { "idle", "register", "authorize" }
  BY <1>1 DEF J!Works, J!Pairing, J!NotWorking
<1>5. x10' \in [ JoinRequests -> J!Works ] /\ \A q \in JoinRequests : x10'[q] # x10[q] => x10'[q] = x10[r].then
  BY <1>3, <1>4 DEF J!IndInv, J!JoinTypes
<1> QED BY <1>1, <1>2, <1>3, <1>4, <1>5, SupplierPut

(* The governance accepts a review before the directory is to show it.     *)
LEMMA ReviewAccepted ==
  ASSUME J!IndInv, NEW r \in JoinRequests, NEW subject \in Subjects, NEW status \in J!ReviewStatus, NEW accepted \in BOOLEAN,
         NEW record, x4[subject] # J!NoSupplier => record \in J!Suppliers /\ record.review = status
                                                     /\ record.by = x4[subject].by,
         NEW next \in {J!NotWorking} \cup J!Pairing({ "register", "authorize" }),
         J!Reviews(r, subject, status, [ at |-> "store", subject |-> subject, then |-> next, supplier |-> record ], accepted),
         UNCHANGED << x2, x4, x7, x8, x9 >>
  PROVE  J!IndInv'
<1> DEFINE w == [ at |-> "store", subject |-> subject, then |-> next, supplier |-> record ]
<1>1. x4[subject] # J!NoSupplier
  BY DEF J!Reviews
<1>2. w \in J!Works
  BY <1>1, WorkShapes
<1>3. record.by = "reviewer" => J!Bound(subject)
  BY <1>1 DEF J!IndInv, J!DirectoryInv, J!SupplierInv
<1>4. x5 \in [ Subjects -> SUBSET J!ReviewStatus ] /\ x8' \subseteq J!Identities
  BY DEF J!IndInv, J!JoinTypes
<1>5. CASE accepted
  <2>1. x5' = [ x5 EXCEPT ![subject] = @ \cup {status} ] /\ x10' = [ x10 EXCEPT ![r] = w ]
    BY <1>5 DEF J!Reviews, J!Go, J!GovernanceFirst
  <2>2. /\ x5' \in [ Subjects -> SUBSET J!ReviewStatus ] /\ \A s \in Subjects : x5[s] \subseteq x5'[s]
        /\ status \in x5'[subject]
    BY <1>4, <2>1
  <2>3. record.review \in x5'[subject] \cup { record.created }
    BY <1>1, <2>2
  <2>4. w.at = "store" /\ w.supplier = record /\ w.subject = subject
    OBVIOUS
  <2> HIDE DEF w
  <2> QED BY <1>2, <1>3, <1>4, <2>1, <2>2, <2>3, <2>4, WorkMoves
<1>6. CASE ~accepted
  <2>1. UNCHANGED x5 /\ x10' = [ x10 EXCEPT ![r] = J!NotWorking ]
    BY <1>6 DEF J!Reviews, J!Done, J!Go, J!GovernanceFirst
  <2> QED BY <2>1, WorkShapes, WorkReads DEF J!NotWorking
<1> QED BY <1>5, <1>6

LEMMA Reviewed ==
  ASSUME J!IndInv, NEW r \in JoinRequests, NEW subject \in Subjects, NEW ok \in BOOLEAN,
         NEW status \in { "approved_for_broadcast", "rejected" }, J!reviewSupplier(r, subject, status, ok)
  PROVE  J!IndInv'
<1> DEFINE record == J!mergeReviewMetadata(x4[subject], status, x4[subject].wallet)
<1>1. x4[subject] # J!NoSupplier => record \in J!Suppliers /\ record.review = status /\ record.by = x4[subject].by
  BY SupplierRead DEF J!IndInv, J!Suppliers, J!mergeReviewMetadata, J!ReviewStatus
<1>2. UNCHANGED << x2, x4, x7, x8, x9 >>
  BY DEF J!reviewSupplier, J!chainVars
<1>3. J!Reviews(r, subject, status, [ at |-> "store", subject |-> subject, then |-> J!NotWorking, supplier |-> record ], ok)
  BY DEF J!reviewSupplier
<1>4. status \in J!ReviewStatus
  BY DEF J!ReviewStatus
<1> HIDE DEF record
<1> QED BY <1>1, <1>2, <1>3, <1>4, ReviewAccepted

LEMMA PairingReviewed ==
  ASSUME J!IndInv, NEW r \in JoinRequests, NEW ok \in BOOLEAN, J!PairingReviews(r, ok)
  PROVE  J!IndInv'
<1> DEFINE subject == x10[r].copy.subject
           record == J!mergeReviewMetadata(x4[subject], "approved_for_broadcast", x10[r].copy.address)
           next == [ x10[r] EXCEPT !.at = "register" ]
<1>1. x10[r] \in J!Pairing({ "create", "review", "register", "authorize" })
  BY Carried DEF J!IndInv, J!PairingReviews
<1>2. subject \in Subjects /\ x10[r].copy.address \in JoinWallets
  BY <1>1 DEF J!Pairing, J!Applications
<1>3. next \in J!Pairing({ "register", "authorize" })
  BY <1>1 DEF J!Pairing
<1>4. x4[subject] # J!NoSupplier => record \in J!Suppliers /\ record.review = "approved_for_broadcast"
                                      /\ record.by = x4[subject].by
  <2>1. x4[subject] # J!NoSupplier => x4[subject] \in J!Suppliers
    BY <1>2, SupplierRead DEF J!IndInv
  <2>2. \A current \in J!Suppliers, wallet \in JoinWallets :
          [ current EXCEPT !.review = "approved_for_broadcast", !.wallet = wallet ] \in J!Suppliers
    BY DEF J!Suppliers, J!ReviewStatus
  <2> HIDE DEF subject
  <2> QED BY <1>2, <2>1, <2>2 DEF J!Suppliers, J!mergeReviewMetadata
<1>5. UNCHANGED << x2, x4, x7, x8, x9 >>
  BY DEF J!PairingReviews, J!chainVars
<1>6. J!Reviews(r, subject, "approved_for_broadcast",
                [ at |-> "store", subject |-> subject, then |-> next, supplier |-> record ], ok)
  BY DEF J!PairingReviews
<1>7. "approved_for_broadcast" \in J!ReviewStatus
  BY DEF J!ReviewStatus
<1> HIDE DEF record, next, subject
<1> QED BY <1>2, <1>3, <1>4, <1>5, <1>6, <1>7, ReviewAccepted

(* A request is to move the supplier it read to another wallet.            *)
LEMMA SupplierKept ==
  ASSUME J!IndInv, NEW r \in JoinRequests, NEW subject \in Subjects, x4[subject] # J!NoSupplier,
         NEW wallet \in JoinWallets, NEW next \in {J!NotWorking} \cup J!Pairing({ "register", "authorize" }),
         x10' = [ x10 EXCEPT ![r] = [ at |-> "store", subject |-> subject, then |-> next,
                                      supplier |-> [ x4[subject] EXCEPT !.wallet = wallet ] ] ],
         UNCHANGED << x2, x4, x5, x7, x9 >>, x8' \subseteq J!Identities
  PROVE  J!IndInv'
<1> DEFINE record == [ x4[subject] EXCEPT !.wallet = wallet ]
           w == [ at |-> "store", subject |-> subject, then |-> next, supplier |-> record ]
<1>1. record \in J!Suppliers /\ record.review = x4[subject].review /\ record.by = x4[subject].by
      /\ record.created = x4[subject].created
  BY SupplierRead DEF J!IndInv, J!Suppliers
<1>2. w \in J!Works
  BY <1>1, WorkShapes
<1>3. J!SupplierInv(subject, x4[subject])
  BY DEF J!IndInv, J!DirectoryInv
<1>4. record.review \in x5[subject] \cup { record.created } /\ (record.by = "reviewer" => J!Bound(subject))
  BY <1>1, <1>3 DEF J!SupplierInv
<1>5. x5' \in [ Subjects -> SUBSET J!ReviewStatus ] /\ x5' = x5
  BY DEF J!IndInv, J!JoinTypes
<1>6. w.at = "store" /\ w.supplier = record /\ w.subject = subject /\ x10' = [ x10 EXCEPT ![r] = w ]
  OBVIOUS
<1> HIDE DEF w, record
<1> QED BY <1>2, <1>4, <1>5, <1>6, WorkMoves

LEMMA ProfileSaved ==
  ASSUME J!IndInv, NEW r \in JoinRequests, NEW subject \in Subjects, NEW wallet \in JoinWallets,
         J!saveNotificationProfile(r, subject, wallet)
  PROVE  J!IndInv'
<1>1. /\ x4[subject] # J!NoSupplier /\ UNCHANGED << x2, x4, x5, x7, x8, x9 >>
      /\ x10' = [ x10 EXCEPT ![r] = [ at |-> "store", subject |-> subject, then |-> J!NotWorking,
                                      supplier |-> [ x4[subject] EXCEPT !.wallet = wallet ] ] ]
  BY DEF J!saveNotificationProfile, J!Go, J!directoryVars, J!chainVars
<1>2. x8' \subseteq J!Identities
  BY <1>1 DEF J!IndInv, J!JoinTypes
<1> QED BY <1>1, <1>2, SupplierKept

LEMMA Registered ==
  ASSUME J!IndInv, NEW r \in JoinRequests, NEW subject \in Subjects, NEW wallet \in JoinWallets, NEW lands \in BOOLEAN,
         NEW next \in {J!NotWorking} \cup J!Pairing({ "register", "authorize" }),
         J!Registers(r, subject, wallet, next, lands), UNCHANGED << x2, x4, x5, x7, x9 >>
  PROVE  J!IndInv'
<1>1. x4[subject] # J!NoSupplier
  BY DEF J!Registers
<1>2. CASE /\ x4[subject].review = "approved_for_broadcast" /\ x6[subject] = "approved_for_broadcast"
  <2>1. x8 \subseteq J!Identities /\ [ subject |-> subject, wallet |-> wallet, status |-> "active" ] \in J!Identities
    BY DEF J!IndInv, J!JoinTypes, J!Identities
  <2>2. x8' \subseteq J!Identities
    BY <1>2, <2>1 DEF J!Registers
  <2>3. x10' = [ x10 EXCEPT ![r] = [ at |-> "store", subject |-> subject, then |-> next,
                                     supplier |-> [ x4[subject] EXCEPT !.wallet = wallet ] ] ]
    BY <1>2 DEF J!Registers, J!Go, J!mergeRequestMetadata
  <2> QED BY <1>1, <2>2, <2>3, SupplierKept
<1>3. CASE ~(x4[subject].review = "approved_for_broadcast" /\ x6[subject] = "approved_for_broadcast")
  <2>1. UNCHANGED x8 /\ x10' = [ x10 EXCEPT ![r] = J!NotWorking ]
    BY <1>3 DEF J!Registers, J!Done, J!Go
  <2> QED BY <2>1, WorkShapes, WorkReads DEF J!NotWorking
<1> QED BY <1>2, <1>3

LEMMA PairingRegistered ==
  ASSUME J!IndInv, NEW r \in JoinRequests, NEW ok \in BOOLEAN, J!PairingRegisters(r, ok)
  PROVE  J!IndInv'
<1> DEFINE next == [ x10[r] EXCEPT !.at = "authorize" ]
<1>1. x10[r] \in J!Pairing({ "create", "review", "register", "authorize" })
  BY Carried DEF J!IndInv, J!PairingRegisters
<1>2. x10[r].copy.subject \in Subjects /\ x10[r].copy.address \in JoinWallets
  BY <1>1 DEF J!Pairing, J!Applications
<1>3. next \in J!Pairing({ "register", "authorize" })
  BY <1>1 DEF J!Pairing
<1>4. /\ J!Registers(r, x10[r].copy.subject, x10[r].copy.address, next, ok)
      /\ UNCHANGED << x2, x4, x5, x7, x9 >>
  BY DEF J!PairingRegisters, J!directoryVars
<1> HIDE DEF next
<1> QED BY <1>2, <1>3, <1>4, Registered

LEMMA RegistrationRequested ==
  ASSUME J!IndInv, NEW r \in JoinRequests, NEW subject \in Subjects, NEW ok \in BOOLEAN,
         J!requestIdentityRegistration(r, subject, ok)
  PROVE  J!IndInv'
<1>1. /\ x4[subject] # J!NoSupplier /\ x4[subject].wallet # NoWallet
      /\ J!Registers(r, subject, x4[subject].wallet, J!NotWorking, ok)
      /\ UNCHANGED << x2, x4, x5, x7, x9 >>
  BY DEF J!requestIdentityRegistration, J!directoryVars
<1>2. x4[subject].wallet \in JoinWallets
  BY <1>1, SupplierRead DEF J!IndInv, J!Suppliers
<1> QED BY <1>1, <1>2, Registered

LEMMA RevocationRequested ==
  ASSUME J!IndInv, NEW r \in JoinRequests, NEW subject \in Subjects, NEW wallet \in JoinWallets, NEW ok \in BOOLEAN,
         J!requestIdentityRevocation(r, subject, wallet, ok)
  PROVE  J!IndInv'
<1> DEFINE record == [ x4[subject] EXCEPT !.review = "revoked" ]
           w == [ at |-> "store", subject |-> subject, then |-> J!NotWorking, supplier |-> record ]
<1>1. x4[subject] # J!NoSupplier /\ UNCHANGED << x2, x4, x7, x9 >>
  BY DEF J!requestIdentityRevocation
<1>2. record \in J!Suppliers /\ record.review = "revoked" /\ record.by = x4[subject].by
  BY <1>1, SupplierRead DEF J!IndInv, J!Suppliers, J!ReviewStatus
<1>3. CASE ok
  <2>1. /\ x8' = x8 \cup { [ subject |-> subject, wallet |-> wallet, status |-> "revoked" ] }
        /\ x5' = [ x5 EXCEPT ![subject] = @ \cup {"revoked"} ] /\ x10' = [ x10 EXCEPT ![r] = w ]
    BY <1>3 DEF J!requestIdentityRevocation, J!GovernanceFirst, J!Go
  <2>2. x8' \subseteq J!Identities
    BY <2>1 DEF J!IndInv, J!JoinTypes, J!Identities
  <2>3. /\ x5' \in [ Subjects -> SUBSET J!ReviewStatus ] /\ \A s \in Subjects : x5[s] \subseteq x5'[s]
        /\ "revoked" \in x5'[subject]
    BY <2>1 DEF J!IndInv, J!JoinTypes, J!ReviewStatus
  <2>4. J!SupplierInv(subject, x4[subject])
    BY <1>1 DEF J!IndInv, J!DirectoryInv
  <2>5. record.by = "reviewer" => J!Bound(subject)
    BY <1>2, <2>4 DEF J!SupplierInv
  <2>6. w \in J!Works
    BY <1>2, WorkShapes
  <2>7. w.at = "store" /\ w.supplier = record /\ w.subject = subject
    OBVIOUS
  <2> HIDE DEF w, record
  <2> QED BY <1>1, <1>2, <2>1, <2>2, <2>3, <2>5, <2>6, <2>7, WorkMoves
<1>4. CASE ~ok
  <2>1. UNCHANGED << x5, x8 >> /\ x10' = [ x10 EXCEPT ![r] = J!NotWorking ]
    BY <1>4 DEF J!requestIdentityRevocation, J!GovernanceFirst, J!Done, J!Go
  <2> QED BY <1>1, <2>1, WorkShapes, WorkReads DEF J!NotWorking
<1> QED BY <1>3, <1>4

(* What happens outside: the registry, the orders and the plan's listing.  *)
LEMMA IdentitySeen ==
  ASSUME J!IndInv, NEW t \in x8, J!IdentityIndexed(t)
  PROVE  J!IndInv'
<1>1. t.subject \in Subjects /\ t.wallet \in JoinWallets /\ t.status \in { "active", "revoked" }
  BY DEF J!IndInv, J!JoinTypes, J!Identities
<1>2. /\ x7' = [ x7 EXCEPT ![t.subject][t.wallet] = t.status ] /\ x8' \subseteq x8
      /\ UNCHANGED << x2, x4, x5, x9, x10 >>
  BY DEF J!IdentityIndexed, J!directoryVars
<1>3. \A s \in Subjects, u \in JoinWallets :
        x7'[s][u] = (IF s = t.subject /\ u = t.wallet THEN t.status ELSE x7[s][u])
  BY <1>1, <1>2 DEF J!IndInv, J!JoinTypes
<1>4. \A s \in Subjects, u \in JoinWallets : x7[s][u] # "none" => x7'[s][u] # "none"
  BY <1>1, <1>3
<1>5. x7' \in [ Subjects -> [ JoinWallets -> { "none", "active", "revoked" } ] ]
  <2>1. ASSUME NEW f \in [ Subjects -> [ JoinWallets -> { "none", "active", "revoked" } ] ]
        PROVE  [ f EXCEPT ![t.subject][t.wallet] = t.status ]
                 \in [ Subjects -> [ JoinWallets -> { "none", "active", "revoked" } ] ]
    BY <1>1
  <2> QED BY <1>2, <2>1 DEF J!IndInv, J!JoinTypes
<1>6. J!JoinTypes'
  BY <1>2, <1>5 DEF J!IndInv, J!JoinTypes
<1>7. J!OpenInv'
  BY <1>2 DEF J!IndInv, J!OpenInv
<1>8. J!ActiveWasAuthorized'
  <2> SUFFICES ASSUME NEW a \in ApplicationIds, x2'[a].status = "active"
               PROVE  /\ \E g \in x9' : g.wallet = x2'[a].address /\ g.place = "slot"
                      /\ x7'[x2'[a].subject][x2'[a].address] # "none"
    BY DEF J!ActiveWasAuthorized
  <2>1. x2[a].status # "none" /\ x2'[a] = x2[a]
    BY <1>2
  <2>2. x2[a].subject \in Subjects /\ x2[a].address \in JoinWallets
    BY <2>1, ApplicationRead DEF J!IndInv, J!Applications
  <2>3. /\ \E g \in x9 : g.wallet = x2[a].address /\ g.place = "slot"
        /\ x7[x2[a].subject][x2[a].address] # "none"
    BY <2>1 DEF J!IndInv, J!ActiveWasAuthorized
  <2> QED BY <1>2, <1>4, <2>1, <2>2, <2>3
<1>9. \A s \in Subjects : J!Bound(s) => J!Bound(s)'
  BY <1>4 DEF J!Bound
<1> QED BY <1>2, <1>6, <1>7, <1>8, <1>9, JoinMoves

LEMMA OutsideMoves ==
  ASSUME J!IndInv, UNCHANGED << x2, x4, x5, x7, x8, x10 >>, x9 \subseteq x9'
  PROVE  J!IndInv'
<1>1. J!JoinTypes' /\ J!OpenInv' /\ J!ActiveWasAuthorized'
  BY DEF J!IndInv, J!JoinTypes, J!OpenInv, J!ActiveWasAuthorized
<1>2. \A s \in Subjects : J!Bound(s) => J!Bound(s)'
  BY DEF J!Bound
<1> QED BY <1>1, <1>2, JoinMoves

LEMMA JoinStep == J!IndInv /\ [J!Next]_(J!joinVars) => J!IndInv'
<1> SUFFICES ASSUME J!IndInv, [J!Next]_(J!joinVars) PROVE J!IndInv'
  OBVIOUS
<1>1. CASE UNCHANGED J!joinVars
  BY <1>1, OutsideMoves DEF J!joinVars
<1>2. CASE J!EntryTurns
  BY <1>2, OutsideMoves DEF J!EntryTurns, J!directoryVars, J!chainVars
<1>3. CASE \E t \in x8 : J!IdentityIndexed(t)
  BY <1>3, IdentitySeen
<1>4. CASE \E wallet \in JoinWallets, place \in { "slot", "elsewhere" } : J!OrderGrants(wallet, place)
  BY <1>4, OutsideMoves DEF J!OrderGrants, J!directoryVars
<1>5. CASE \E subject \in Subjects, wallet \in JoinWallets \cup {NoWallet},
              status \in { "submitted", "approved_for_broadcast" } : J!createSupplier(subject, wallet, status)
  BY <1>5, SupplierCreated
<1>6. ASSUME NEW r \in JoinRequests, NEW wallet \in JoinWallets, NEW subject \in Subjects,
             J!submitApplication(r, wallet, subject)
      PROVE  J!IndInv'
  BY <1>6, Submitted
<1>7. ASSUME NEW r \in JoinRequests, NEW a \in ApplicationIds,
             \/ J!SubmitWrites(r, a)
             \/ J!startReview(r, a)
             \/ J!rejectApplication(r, a)
             \/ J!revokeApplication(r, a)
             \/ \E governance, operator \in BOOLEAN : J!approveApplication(r, a, governance, operator)
             \/ J!ReadApplication(r, a)
      PROVE  J!IndInv'
  <2>1. CASE J!SubmitWrites(r, a)
    BY <2>1, CopyWritten
  <2>2. CASE J!startReview(r, a) \/ J!rejectApplication(r, a) \/ J!revokeApplication(r, a)
    <3>1. /\ x2[a].status # "none"
          /\ \E status \in { "under_review", "rejected", "revoked" } : J!Decides(r, a, status)
      BY <2>2 DEF J!startReview, J!rejectApplication, J!revokeApplication, J!Open
    <3> QED BY <3>1, Decided
  <2>3. CASE \E governance, operator \in BOOLEAN : J!approveApplication(r, a, governance, operator)
    BY <2>3, Approved
  <2>4. CASE J!ReadApplication(r, a)
    BY <2>4, ReadForDetail
  <2> QED BY <1>7, <2>1, <2>2, <2>3, <2>4
<1>8. ASSUME NEW r \in JoinRequests,
             \/ J!DecisionWrites(r)
             \/ J!ensureIdentityPairing(r)
             \/ J!PairingCreates(r)
             \/ J!ApprovalWrites(r)
             \/ J!putSupplier(r)
             \/ J!resolveApplicationDetail(r)
      PROVE  J!IndInv'
  BY <1>8, CopyWritten, Paired, PairingCreated, SupplierStored, Resolved
<1>9. ASSUME NEW r \in JoinRequests, NEW ok \in BOOLEAN, J!PairingReviews(r, ok) \/ J!PairingRegisters(r, ok)
      PROVE  J!IndInv'
  BY <1>9, PairingReviewed, PairingRegistered
<1>10. ASSUME NEW r \in JoinRequests, NEW ok \in BOOLEAN, NEW subject \in Subjects,
              \/ \E status \in { "approved_for_broadcast", "rejected" } : J!reviewSupplier(r, subject, status, ok)
              \/ J!requestIdentityRegistration(r, subject, ok)
              \/ \E wallet \in JoinWallets : J!requestIdentityRevocation(r, subject, wallet, ok)
       PROVE  J!IndInv'
  BY <1>10, Reviewed, RegistrationRequested, RevocationRequested
<1>11. ASSUME NEW r \in JoinRequests, NEW subject \in Subjects, NEW wallet \in JoinWallets,
              J!saveNotificationProfile(r, subject, wallet)
       PROVE  J!IndInv'
  BY <1>11, ProfileSaved
<1> QED BY <1>1, <1>2, <1>3, <1>4, <1>5, <1>6, <1>7, <1>8, <1>9, <1>10, <1>11 DEF J!Next

LEMMA JoinFollows == J!IndInv => J!JoinSound
<1> SUFFICES ASSUME J!IndInv PROVE J!JoinSound
  OBVIOUS
<1>1. J!OneOpenApplication
  <2> SUFFICES ASSUME NEW wallet \in JoinWallets PROVE J!Cardinality(J!OpenOf(wallet)) <= 1
    BY DEF J!OneOpenApplication
  <2>1. \A a, b \in J!OpenOf(wallet) : a = b
    BY DEF J!IndInv, J!OpenInv, J!OpenOf
  <2> QED BY <2>1, AtMostOne, SameCount
<1>2. J!NoHalfCommit
  BY DEF J!IndInv, J!DirectoryInv, J!SupplierInv, J!Bound, J!NoHalfCommit
<1>3. J!MetadataFollowsGovernance
  BY DEF J!IndInv, J!DirectoryInv, J!SupplierInv, J!MetadataFollowsGovernance
<1> QED BY <1>1, <1>2, <1>3 DEF J!IndInv, J!JoinSound

(* Applications, suppliers, reviews and bindings agree although they are   *)
(* separate writes of concurrent requests from copies read before: one     *)
(* open application for a wallet, no supplier created without authority,   *)
(* no status in the directory that the governance did not accept, and no   *)
(* active application without its grant and binding.                       *)
THEOREM JoinHonest == Spec => []JoinSound
<1> DEFINE Inv == focus = "join" => J!IndInv
<1>1. Init => Inv
  BY JoinInit DEF Init
<1>2. Inv /\ [Next]_allVars => Inv'
  BY FocusStep, JoinStep
<1>3. Inv => JoinSound
  BY JoinFollows DEF JoinSound
<1> QED BY <1>1, <1>2, <1>3, PTL DEF Spec, allVars

-----------------------------------------------------------------------------
(* The validator of product schemas.                                       *)
LEMMA NamesFinite == IsFiniteSet(StageNames) /\ IsFiniteSet(SlotNames) /\ SlotNames # {}
BY StoreConstants

LEMMA PluginsFinite == IsFiniteSet(SlotNames \X V!Plugins)
<1> DEFINE f == [ p \in V!Plugins |-> << p.explicit, p.stages >> ]
<1>1. IsFiniteSet(BOOLEAN)
  <2>1. BOOLEAN = {TRUE} \cup {FALSE}
    OBVIOUS
  <2>2. IsFiniteSet({TRUE})
    BY FS_Singleton
  <2>3. IsFiniteSet({FALSE})
    BY FS_Singleton
  <2>4. IsFiniteSet({TRUE} \cup {FALSE})
    BY <2>2, <2>3, FS_Union
  <2> QED BY <2>1, <2>4
<1>2. IsFiniteSet(BOOLEAN \X SUBSET StageNames)
  BY <1>1, NamesFinite, FS_SUBSET, FS_Product
<1>3. f \in Injection(V!Plugins, BOOLEAN \X SUBSET StageNames)
  <2>1. f \in [ V!Plugins -> BOOLEAN \X SUBSET StageNames ]
    BY DEF V!Plugins
  <2>2. \A p, q \in V!Plugins : f[p] = f[q] => p = q
    BY DEF V!Plugins
  <2> HIDE DEF f
  <2> QED BY <2>1, <2>2 DEF Injection, IsInjective
<1>4. IsFiniteSet(V!Plugins)
  BY <1>2, <1>3, FS_Injection
<1> QED BY <1>4, NamesFinite, FS_Product

(* How many are there: none, one, several.                                 *)
LEMMA Counted ==
  ASSUME NEW X, IsFiniteSet(X)
  PROVE  /\ V!Cardinality(X) \in Nat
         /\ V!Cardinality(X) = 0 <=> X = {}
         /\ V!Cardinality(X) = 1 <=> (\E x \in X : \A y \in X : y = x)
         /\ V!Cardinality(X) > 1 <=> (\E x, y \in X : x # y)
<1>1. /\ V!Cardinality(X) = Cardinality(X) /\ Cardinality(X) \in Nat
  BY SameCount, FS_CardinalityType
<1>2. Cardinality(X) = 0 <=> X = {}
  BY FS_EmptySet
<1>3. Cardinality(X) = 1 <=> (\E x \in X : \A y \in X : y = x)
  <2>1. Cardinality(X) = 1 <=> \E x : X = {x}
    BY FS_Singleton
  <2>2. (\E x : X = {x}) <=> (\E x \in X : \A y \in X : y = x)
    <3>1. ASSUME NEW x \in X, \A y \in X : y = x PROVE X = {x}
      BY <3>1
    <3> QED BY <3>1
  <2> QED BY <2>1, <2>2
<1>4. Cardinality(X) > 1 <=> (\E x, y \in X : x # y)
  <2>1. (\E x, y \in X : x # y) <=> ~(X = {} \/ \E x \in X : \A y \in X : y = x)
    OBVIOUS
  <2> QED BY <1>1, <1>2, <1>3, <2>1
<1> QED BY <1>1, <1>2, <1>3, <1>4

LEMMA NoReferenceIssues ==
  ASSUME NEW sc
  PROVE  V!ReferenceIssues(sc) = {} <=>
           /\ sc.matches /\ ~sc.system /\ sc.slots # {} /\ sc.submitter \cup sc.permissions \subseteq sc.slots
BY DEF V!ReferenceIssues

LEMMA NoPluginIssues ==
  ASSUME NEW sc \in V!Schemas
  PROVE  V!PluginIssues(sc) = {} <=>
           /\ \A x \in sc.slots : sc.plugins[x] # {}
           /\ \A x \in sc.slots : \A p \in sc.plugins[x] : p.explicit /\ p.stages # {} /\ p.stages \subseteq sc.stages
<1> DEFINE missing == {"slot_missing_capability_plugin" : x \in {x \in sc.slots : sc.plugins[x] = {}}}
           of(p) == (IF p.explicit THEN {} ELSE {"capability_plugin_not_explicit"})
                      \cup (IF p.stages # {} /\ p.stages \subseteq sc.stages THEN {} ELSE {"stage_not_covered"})
           all == UNION {sc.plugins[x] : x \in sc.slots}
<1>1. V!PluginIssues(sc) = missing \cup UNION {of(p) : p \in all}
  BY DEF V!PluginIssues
<1>2. missing = {} <=> \A x \in sc.slots : sc.plugins[x] # {}
  OBVIOUS
<1>3. \A p : of(p) = {} <=> (p.explicit /\ p.stages # {} /\ p.stages \subseteq sc.stages)
  OBVIOUS
<1>4. UNION {of(p) : p \in all} = {} <=> \A p \in all : of(p) = {}
  <2> HIDE DEF of, all
  <2> QED OBVIOUS
<1>5. (\A p \in all : of(p) = {}) <=> \A x \in sc.slots : \A p \in sc.plugins[x] : of(p) = {}
  <2> HIDE DEF of
  <2> QED OBVIOUS
<1> HIDE DEF missing, of, all
<1> QED BY <1>1, <1>2, <1>3, <1>4, <1>5

(* The plugins of a schema, each with its slot.                            *)
OwnersIn(sc) == {o \in SlotNames \X V!Plugins : o[1] \in sc.slots /\ o[2] \in sc.plugins[o[1]]}

LEMMA NoCoverageIssues ==
  ASSUME NEW sc \in V!Schemas
  PROVE  V!CoverageIssues(sc) = {} <=>
           \A s \in sc.stages : \E o \in OwnersIn(sc) : /\ s \in o[2].stages
                                                        /\ \A q \in OwnersIn(sc) : s \in q[2].stages => q = o
<1> DEFINE of(s) == (IF V!stageCoverage(sc, s) = 0 THEN {"stage_not_covered"} ELSE {})
                      \cup (IF V!stageCoverage(sc, s) > 1 THEN {"duplicate_stage_capability"} ELSE {})
           cover(s) == {o \in SlotNames \X V!Plugins :
                          o[1] \in sc.slots /\ o[2] \in sc.plugins[o[1]] /\ s \in o[2].stages}
<1>1. V!CoverageIssues(sc) = UNION {of(s) : s \in sc.stages}
  BY DEF V!CoverageIssues
<1>2. UNION {of(s) : s \in sc.stages} = {} <=> \A s \in sc.stages : of(s) = {}
  <2> HIDE DEF of
  <2> QED OBVIOUS
<1>3. ASSUME NEW s \in sc.stages
      PROVE  of(s) = {} <=> \E o \in OwnersIn(sc) : /\ s \in o[2].stages
                                                    /\ \A q \in OwnersIn(sc) : s \in q[2].stages => q = o
  <2>1. IsFiniteSet(cover(s)) /\ V!stageCoverage(sc, s) = V!Cardinality(cover(s))
    <3>1. cover(s) \in SUBSET (SlotNames \X V!Plugins)
      OBVIOUS
    <3> QED BY <3>1, PluginsFinite, FS_Subset DEF V!stageCoverage
  <2>2. of(s) = {} <=> (V!Cardinality(cover(s)) # 0 /\ ~(V!Cardinality(cover(s)) > 1))
    BY <2>1
  <2>3. of(s) = {} <=> (cover(s) # {} /\ \A x, y \in cover(s) : x = y)
    <3> HIDE DEF of, cover
    <3> QED BY <2>1, <2>2, Counted
  <2>4. cover(s) = {o \in OwnersIn(sc) : s \in o[2].stages}
    BY DEF OwnersIn
  <2> HIDE DEF of, cover
  <2> QED BY <2>3, <2>4
<1> HIDE DEF of
<1> QED BY <1>1, <1>2, <1>3

LEMMA NoSelectorIssues ==
  ASSUME NEW sc \in V!Schemas
  PROVE  V!validateSelectorBindings(sc) = {} <=>
           /\ sc.bindings \subseteq sc.stages \X sc.stages
           /\ {b \in sc.stages \X StageNames : b[2] \in sc.targets[b[1]]}
                \subseteq IF sc.bindings = {} THEN sc.stages \X sc.stages ELSE sc.bindings
<1>1. /\ sc.bindings \subseteq StageNames \X StageNames /\ sc.stages \subseteq StageNames
      /\ \A s \in StageNames : sc.targets[s] \subseteq StageNames
  BY DEF V!Schemas
<1>2. (\A b \in sc.bindings : b[1] \in sc.stages /\ b[2] \in sc.stages) <=> sc.bindings \subseteq sc.stages \X sc.stages
  BY <1>1
<1>3. ASSUME sc.bindings \subseteq sc.stages \X sc.stages
      PROVE  (\A s \in sc.stages : \A t \in sc.targets[s] :
                 t \in sc.stages /\ (sc.bindings # {} => <<s, t>> \in sc.bindings)) <=>
             ({b \in sc.stages \X StageNames : b[2] \in sc.targets[b[1]]}
                \subseteq IF sc.bindings = {} THEN sc.stages \X sc.stages ELSE sc.bindings)
  <2> DEFINE selects == {b \in sc.stages \X StageNames : b[2] \in sc.targets[b[1]]}
  <2>1. \A s, t : <<s, t>> \in selects <=> (s \in sc.stages /\ t \in sc.targets[s])
    BY <1>1
  <2>2. \A b \in selects : b = <<b[1], b[2]>>
    OBVIOUS
  <2> HIDE DEF selects
  <2>3. CASE sc.bindings = {}
    <3>1. ASSUME \A s \in sc.stages : \A t \in sc.targets[s] : t \in sc.stages, NEW b \in selects
          PROVE  b \in sc.stages \X sc.stages
      <4>1. b = <<b[1], b[2]>> /\ b[1] \in sc.stages /\ b[2] \in sc.targets[b[1]]
        BY <2>1, <2>2
      <4> QED BY <3>1, <4>1
    <3>2. ASSUME selects \subseteq sc.stages \X sc.stages, NEW s \in sc.stages, NEW t \in sc.targets[s]
          PROVE  t \in sc.stages
      <4>1. <<s, t>> \in selects
        BY <2>1
      <4> QED BY <3>2, <4>1
    <3>3. selects \subseteq sc.stages \X sc.stages <=> \A s \in sc.stages : \A t \in sc.targets[s] : t \in sc.stages
      BY <3>1, <3>2
    <3> QED BY <2>3, <3>3 DEF selects
  <2>4. CASE sc.bindings # {}
    <3>1. selects \subseteq sc.bindings <=> \A s \in sc.stages : \A t \in sc.targets[s] : <<s, t>> \in sc.bindings
      <4>1. ASSUME \A s \in sc.stages : \A t \in sc.targets[s] : <<s, t>> \in sc.bindings, NEW b \in selects
            PROVE  b \in sc.bindings
        <5>1. b = <<b[1], b[2]>> /\ b[1] \in sc.stages /\ b[2] \in sc.targets[b[1]]
          BY <2>1, <2>2
        <5> QED BY <4>1, <5>1
      <4>2. ASSUME selects \subseteq sc.bindings, NEW s \in sc.stages, NEW t \in sc.targets[s]
            PROVE  <<s, t>> \in sc.bindings
        <5>1. <<s, t>> \in selects
          BY <2>1
        <5> QED BY <4>2, <5>1
      <4> QED BY <4>1, <4>2
    <3>2. \A s, t : <<s, t>> \in sc.bindings => t \in sc.stages
      BY <1>3
    <3> QED BY <2>4, <3>1, <3>2 DEF selects
  <2> QED BY <2>3, <2>4
<1>4. V!validateSelectorBindings(sc) = {} <=>
        /\ \A b \in sc.bindings : b[1] \in sc.stages /\ b[2] \in sc.stages
        /\ \A s \in sc.stages : \A t \in sc.targets[s] :
             t \in sc.stages /\ (sc.bindings # {} => <<s, t>> \in sc.bindings)
  BY DEF V!validateSelectorBindings
<1> QED BY <1>2, <1>3, <1>4

(* The slots whose manifest lets them appoint the executor of a stage.     *)
AppointsIn(sc) == {a \in sc.slots \X StageNames : sc.manifests[a[1]].patches /\ a[2] \in sc.manifests[a[1]].stages}
SlotsOver(sc, s) == {x \in sc.slots : sc.manifests[x].patches /\ s \in sc.manifests[x].stages}

LEMMA NoSelectionIssues ==
  ASSUME NEW sc \in V!Schemas
  PROVE  V!validateStageExecutorSelection(sc) = {} <=>
           /\ \A a, b \in AppointsIn(sc) : a[2] \in sc.stages /\ (a[2] = b[2] => a = b)
           /\ \A s \in sc.stages :
                /\ sc.assignment[s] = "selected" => \E a \in AppointsIn(sc) : a[2] = s
                /\ sc.assignment[s] = "static" => \A a \in AppointsIn(sc) : a[2] # s
<1>1. sc.slots \subseteq SlotNames /\ sc.stages \subseteq StageNames
  BY DEF V!Schemas
<1>2. \A s : IsFiniteSet(SlotsOver(sc, s))
  <2> SUFFICES ASSUME NEW s PROVE IsFiniteSet(SlotsOver(sc, s))
    OBVIOUS
  <2>1. SlotsOver(sc, s) \in SUBSET SlotNames
    BY <1>1 DEF SlotsOver
  <2> QED BY <2>1, NamesFinite, FS_Subset
<1>3. V!validateStageExecutorSelection(sc) = {} <=>
        /\ \A s \in StageNames \ sc.stages : SlotsOver(sc, s) = {}
        /\ \A s \in sc.stages :
             /\ sc.assignment[s] = "selected" => V!Cardinality(SlotsOver(sc, s)) = 1
             /\ sc.assignment[s] = "static" => SlotsOver(sc, s) = {}
             /\ ~(V!Cardinality(SlotsOver(sc, s)) > 1)
  BY DEF V!validateStageExecutorSelection, SlotsOver
<1>4. \A x, s : <<x, s>> \in AppointsIn(sc) <=> (s \in StageNames /\ x \in SlotsOver(sc, s))
  BY DEF AppointsIn, SlotsOver
<1>5. \A a \in AppointsIn(sc) : a = <<a[1], a[2]>>
  BY DEF AppointsIn
<1>6. ASSUME NEW s \in StageNames
      PROVE  /\ SlotsOver(sc, s) = {} <=> \A a \in AppointsIn(sc) : a[2] # s
             /\ (\A x, y \in SlotsOver(sc, s) : x = y) <=> \A a, b \in AppointsIn(sc) : (a[2] = s /\ b[2] = s) => a = b
  <2>1. ASSUME SlotsOver(sc, s) = {}, NEW a \in AppointsIn(sc), a[2] = s
        PROVE  FALSE
    <3>1. a = <<a[1], s>>
      BY <1>5, <2>1
    <3>2. a[1] \in SlotsOver(sc, s)
      BY <1>4, <3>1
    <3> QED BY <2>1, <3>2
  <2>2. ASSUME \A a \in AppointsIn(sc) : a[2] # s, NEW x \in SlotsOver(sc, s)
        PROVE  FALSE
    <3>1. <<x, s>> \in AppointsIn(sc)
      BY <1>4
    <3> QED BY <2>2, <3>1
  <2>3. ASSUME \A x, y \in SlotsOver(sc, s) : x = y, NEW a \in AppointsIn(sc), NEW b \in AppointsIn(sc), a[2] = s, b[2] = s
        PROVE  a = b
    <3>1. a = <<a[1], s>> /\ b = <<b[1], s>>
      BY <1>5, <2>3
    <3>2. a[1] \in SlotsOver(sc, s) /\ b[1] \in SlotsOver(sc, s)
      BY <1>4, <3>1
    <3> QED BY <2>3, <3>1, <3>2
  <2>4. ASSUME \A a, b \in AppointsIn(sc) : (a[2] = s /\ b[2] = s) => a = b,
               NEW x \in SlotsOver(sc, s), NEW y \in SlotsOver(sc, s)
        PROVE  x = y
    <3>1. <<x, s>> \in AppointsIn(sc) /\ <<y, s>> \in AppointsIn(sc)
      BY <1>4
    <3>2. <<x, s>> = <<y, s>>
      BY <2>4, <3>1
    <3> QED BY <3>2
  <2> QED BY <2>1, <2>2, <2>3, <2>4
<1>7. ASSUME NEW s \in StageNames
      PROVE  /\ V!Cardinality(SlotsOver(sc, s)) = 1 <=>
                  (\E a \in AppointsIn(sc) : a[2] = s)
                  /\ \A a, b \in AppointsIn(sc) : (a[2] = s /\ b[2] = s) => a = b
             /\ ~(V!Cardinality(SlotsOver(sc, s)) > 1) <=>
                  \A a, b \in AppointsIn(sc) : (a[2] = s /\ b[2] = s) => a = b
  <2>1. /\ V!Cardinality(SlotsOver(sc, s)) = 1 <=> (\E x \in SlotsOver(sc, s) : \A y \in SlotsOver(sc, s) : y = x)
        /\ V!Cardinality(SlotsOver(sc, s)) > 1 <=> (\E x, y \in SlotsOver(sc, s) : x # y)
    BY <1>2, Counted
  <2>2. (\E x \in SlotsOver(sc, s) : \A y \in SlotsOver(sc, s) : y = x) <=>
           (SlotsOver(sc, s) # {} /\ \A x, y \in SlotsOver(sc, s) : x = y)
    OBVIOUS
  <2> QED BY <1>6, <2>1, <2>2
<1>8. \A a \in AppointsIn(sc) : a[2] \in StageNames
  BY DEF AppointsIn
<1>9. (\A s \in StageNames \ sc.stages : SlotsOver(sc, s) = {}) <=> \A a \in AppointsIn(sc) : a[2] \in sc.stages
  BY <1>6, <1>8
<1>10. ASSUME \A a \in AppointsIn(sc) : a[2] \in sc.stages
       PROVE  (\A s \in sc.stages : \A a, b \in AppointsIn(sc) : (a[2] = s /\ b[2] = s) => a = b) <=>
              \A a, b \in AppointsIn(sc) : a[2] = b[2] => a = b
  BY <1>10
<1>11. \A s \in sc.stages :
         ( /\ sc.assignment[s] = "selected" => V!Cardinality(SlotsOver(sc, s)) = 1
           /\ sc.assignment[s] = "static" => SlotsOver(sc, s) = {}
           /\ ~(V!Cardinality(SlotsOver(sc, s)) > 1) ) <=>
         ( /\ sc.assignment[s] = "selected" => \E a \in AppointsIn(sc) : a[2] = s
           /\ sc.assignment[s] = "static" => \A a \in AppointsIn(sc) : a[2] # s
           /\ \A a, b \in AppointsIn(sc) : (a[2] = s /\ b[2] = s) => a = b )
  BY <1>1, <1>6, <1>7
<1> QED BY <1>3, <1>9, <1>10, <1>11

(* One responsible plugin for each stage: as a function, as Serviceable    *)
(* says it, or stage by stage.                                             *)
LEMMA OwnerFunction ==
  ASSUME NEW sc \in V!Schemas
  PROVE  (\E owner \in [ sc.stages -> OwnersIn(sc) ] :
             \A o \in OwnersIn(sc), s \in sc.stages : s \in o[2].stages <=> o = owner[s]) <=>
         \A s \in sc.stages : \E o \in OwnersIn(sc) : /\ s \in o[2].stages
                                                      /\ \A q \in OwnersIn(sc) : s \in q[2].stages => q = o
<1>1. ASSUME NEW owner \in [ sc.stages -> OwnersIn(sc) ],
             \A o \in OwnersIn(sc), s \in sc.stages : s \in o[2].stages <=> o = owner[s],
             NEW s \in sc.stages
      PROVE  \E o \in OwnersIn(sc) : /\ s \in o[2].stages
                                     /\ \A q \in OwnersIn(sc) : s \in q[2].stages => q = o
  <2>1. owner[s] \in OwnersIn(sc)
    OBVIOUS
  <2> QED BY <1>1, <2>1
<1>2. ASSUME \A s \in sc.stages : \E o \in OwnersIn(sc) : /\ s \in o[2].stages
                                                          /\ \A q \in OwnersIn(sc) : s \in q[2].stages => q = o
      PROVE  \E owner \in [ sc.stages -> OwnersIn(sc) ] :
               \A o \in OwnersIn(sc), s \in sc.stages : s \in o[2].stages <=> o = owner[s]
  <2> DEFINE owner == [ s \in sc.stages |-> CHOOSE o \in OwnersIn(sc) : s \in o[2].stages ]
  <2>1. \A s \in sc.stages : owner[s] \in OwnersIn(sc) /\ s \in owner[s][2].stages
    BY <1>2
  <2>2. owner \in [ sc.stages -> OwnersIn(sc) ]
    BY <2>1
  <2> HIDE DEF owner
  <2>3. \A o \in OwnersIn(sc), s \in sc.stages : s \in o[2].stages <=> o = owner[s]
    BY <1>2, <2>1
  <2> QED BY <2>2, <2>3
<1> QED BY <1>1, <1>2

(* The algorithm and the reference agree on every schema.                  *)
LEMMA ValidIffServiceable ==
  ASSUME NEW sc \in V!Schemas
  PROVE  V!validateProductSchemaBundle(sc) = {} <=> V!Serviceable(sc)
<1> DEFINE Owned == \A s \in sc.stages : \E o \in OwnersIn(sc) : /\ s \in o[2].stages
                                           /\ \A q \in OwnersIn(sc) : s \in q[2].stages => q = o
           Referenced == sc.matches /\ ~sc.system /\ sc.slots # {} /\ sc.submitter \cup sc.permissions \subseteq sc.slots
           Plugged == /\ \A x \in sc.slots : sc.plugins[x] # {}
                      /\ \A x \in sc.slots : \A p \in sc.plugins[x] : p.explicit /\ p.stages # {} /\ p.stages \subseteq sc.stages
           Selected == /\ sc.bindings \subseteq sc.stages \X sc.stages
                       /\ {b \in sc.stages \X StageNames : b[2] \in sc.targets[b[1]]}
                            \subseteq IF sc.bindings = {} THEN sc.stages \X sc.stages ELSE sc.bindings
           Appointed == /\ \A a, b \in AppointsIn(sc) : a[2] \in sc.stages /\ (a[2] = b[2] => a = b)
                        /\ \A s \in sc.stages :
                             /\ sc.assignment[s] = "selected" => \E a \in AppointsIn(sc) : a[2] = s
                             /\ sc.assignment[s] = "static" => \A a \in AppointsIn(sc) : a[2] # s
           Function == \E owner \in [ sc.stages -> OwnersIn(sc) ] :
                         \A o \in OwnersIn(sc), s \in sc.stages : s \in o[2].stages <=> o = owner[s]
<1>1. V!validateProductSchemaBundle(sc) = {} <=> Referenced /\ Plugged /\ Owned /\ Selected /\ Appointed
  <2>1. V!validateProductSchemaBundle(sc) = {} <=>
          /\ V!ReferenceIssues(sc) = {} /\ V!PluginIssues(sc) = {} /\ V!CoverageIssues(sc) = {}
          /\ V!validateSelectorBindings(sc) = {} /\ V!validateStageExecutorSelection(sc) = {}
    BY DEF V!validateProductSchemaBundle
  <2>2. V!ReferenceIssues(sc) = {} <=> Referenced
    BY NoReferenceIssues
  <2>3. V!PluginIssues(sc) = {} <=> Plugged
    BY NoPluginIssues
  <2>4. V!CoverageIssues(sc) = {} <=> Owned
    BY NoCoverageIssues
  <2>5. V!validateSelectorBindings(sc) = {} <=> Selected
    BY NoSelectorIssues
  <2>6. V!validateStageExecutorSelection(sc) = {} <=> Appointed
    BY NoSelectionIssues
  <2> HIDE DEF Referenced, Plugged, Owned, Selected, Appointed
  <2> QED BY <2>1, <2>2, <2>3, <2>4, <2>5, <2>6
<1>2. Plugged <=> /\ \A x \in sc.slots : \E o \in OwnersIn(sc) : o[1] = x
                  /\ \A o \in OwnersIn(sc) : o[2].explicit /\ o[2].stages \in (SUBSET sc.stages) \ {{}}
  <2>1. \A x, p : <<x, p>> \in OwnersIn(sc) <=> (x \in sc.slots /\ p \in sc.plugins[x])
    BY DEF OwnersIn, V!Schemas
  <2>2. \A o \in OwnersIn(sc) : o = <<o[1], o[2]>>
    BY DEF OwnersIn
  <2>3. (\A x \in sc.slots : sc.plugins[x] # {}) <=> \A x \in sc.slots : \E o \in OwnersIn(sc) : o[1] = x
    <3>1. ASSUME NEW x \in sc.slots, sc.plugins[x] # {}
          PROVE  \E o \in OwnersIn(sc) : o[1] = x
      <4>1. PICK p \in sc.plugins[x] : TRUE
        BY <3>1
      <4>2. <<x, p>> \in OwnersIn(sc) /\ <<x, p>>[1] = x
        BY <2>1
      <4> QED BY <4>2
    <3>2. ASSUME NEW o \in OwnersIn(sc) PROVE sc.plugins[o[1]] # {}
      <4>1. o[2] \in sc.plugins[o[1]]
        BY <2>1, <2>2
      <4> QED BY <4>1
    <3> QED BY <3>1, <3>2
  <2>4. (\A x \in sc.slots : \A p \in sc.plugins[x] : p.explicit /\ p.stages # {} /\ p.stages \subseteq sc.stages) <=>
        \A o \in OwnersIn(sc) : o[2].explicit /\ o[2].stages \in (SUBSET sc.stages) \ {{}}
    <3>1. ASSUME \A x \in sc.slots : \A p \in sc.plugins[x] : p.explicit /\ p.stages # {} /\ p.stages \subseteq sc.stages,
                 NEW o \in OwnersIn(sc)
          PROVE  o[2].explicit /\ o[2].stages \in (SUBSET sc.stages) \ {{}}
      <4>1. o[1] \in sc.slots /\ o[2] \in sc.plugins[o[1]]
        BY <2>1, <2>2
      <4>2. o[2].explicit /\ o[2].stages # {} /\ o[2].stages \subseteq sc.stages
        BY <3>1, <4>1
      <4> QED BY <4>2
    <3>2. ASSUME \A o \in OwnersIn(sc) : o[2].explicit /\ o[2].stages \in (SUBSET sc.stages) \ {{}},
                 NEW x \in sc.slots, NEW p \in sc.plugins[x]
          PROVE  p.explicit /\ p.stages # {} /\ p.stages \subseteq sc.stages
      <4>1. <<x, p>> \in OwnersIn(sc) /\ <<x, p>>[2] = p
        BY <2>1
      <4>2. p.explicit /\ p.stages \in (SUBSET sc.stages) \ {{}}
        BY <3>2, <4>1
      <4> QED BY <4>2
    <3> QED BY <3>1, <3>2
  <2> QED BY <2>3, <2>4
<1>3. Owned <=> Function
  BY OwnerFunction
<1>4. Appointed <=> /\ \A a, b \in AppointsIn(sc) : a[2] \in sc.stages /\ (a[2] = b[2] => a = b)
                    /\ \A s \in sc.stages :
                         CASE sc.assignment[s] = "selected" -> \E a \in AppointsIn(sc) : a[2] = s
                           [] sc.assignment[s] = "static"   -> \A a \in AppointsIn(sc) : a[2] # s
                           [] OTHER -> TRUE
  OBVIOUS
<1>5. V!Serviceable(sc) <=>
        /\ Referenced
        /\ \A x \in sc.slots : \E o \in OwnersIn(sc) : o[1] = x
        /\ \A o \in OwnersIn(sc) : o[2].explicit /\ o[2].stages \in (SUBSET sc.stages) \ {{}}
        /\ Function
        /\ \A a, b \in AppointsIn(sc) : a[2] \in sc.stages /\ (a[2] = b[2] => a = b)
        /\ \A s \in sc.stages :
             CASE sc.assignment[s] = "selected" -> \E a \in AppointsIn(sc) : a[2] = s
               [] sc.assignment[s] = "static"   -> \A a \in AppointsIn(sc) : a[2] # s
               [] OTHER -> TRUE
        /\ Selected
  BY DEF V!Serviceable, OwnersIn, AppointsIn
<1> HIDE DEF Referenced, Plugged, Owned, Selected, Appointed, Function
<1> QED BY <1>1, <1>2, <1>3, <1>4, <1>5

LEMMA SchemaInit == V!Init => V!IndInv
<1> SUFFICES ASSUME V!Init PROVE V!IndInv
  OBVIOUS
<1>1. V!OneSlot \in SlotNames
  BY NamesFinite DEF V!OneSlot
<1>2. V!NoManifest \in [patches : BOOLEAN, stages : SUBSET StageNames]
      /\ V!Manifests \subseteq [patches : BOOLEAN, stages : SUBSET StageNames]
  <2>1. V!NoManifest \in [patches : BOOLEAN, stages : SUBSET StageNames]
    BY DEF V!NoManifest
  <2>2. [patches : {TRUE}, stages : SUBSET StageNames] \subseteq [patches : BOOLEAN, stages : SUBSET StageNames]
    OBVIOUS
  <2> QED BY <2>1, <2>2 DEF V!Manifests
<1>3. \A P \in SUBSET StageNames : [explicit |-> TRUE, stages |-> P] \in V!Plugins
  BY DEF V!Plugins
<1>4. V!Sound \in V!Schemas
  BY <1>1, <1>2, <1>3 DEF V!Sound, V!Schemas
<1>5. x1 \in V!Schemas
  <2> DEFINE served(assignment, manifests, stages, serve) ==
        [V!Sound EXCEPT !.slots = {serve[s] : s \in stages}, !.stages = stages,
            !.assignment = assignment, !.manifests = manifests,
            !.plugins = [x \in SlotNames |-> {[explicit |-> TRUE,
                           stages |-> {s \in stages : serve[s] = x}]}]]
  <2>1. ASSUME NEW slots \in SUBSET SlotNames, NEW stages \in SUBSET StageNames,
               NEW plugins \in [SlotNames -> V!PluginSets], NEW matches \in BOOLEAN
        PROVE  [V!Sound EXCEPT !.slots = slots, !.stages = stages, !.plugins = plugins, !.matches = matches] \in V!Schemas
    <3>1. plugins \in [SlotNames -> SUBSET V!Plugins]
      BY DEF V!PluginSets
    <3> QED BY <1>4, <3>1 DEF V!Schemas
  <2>2. ASSUME NEW assignment \in [StageNames -> {"unset", "static", "selected"}],
               NEW manifests \in [SlotNames -> V!Manifests], NEW stages \in SUBSET StageNames,
               NEW serve \in [StageNames -> SlotNames]
        PROVE  served(assignment, manifests, stages, serve) \in V!Schemas
    <3>1. {serve[s] : s \in stages} \in SUBSET SlotNames
      OBVIOUS
    <3>2. manifests \in [SlotNames -> [patches : BOOLEAN, stages : SUBSET StageNames]]
      BY <1>2
    <3>3. [x \in SlotNames |-> {[explicit |-> TRUE, stages |-> {s \in stages : serve[s] = x}]}]
            \in [SlotNames -> SUBSET V!Plugins]
      <4>1. ASSUME NEW x \in SlotNames
            PROVE  {[explicit |-> TRUE, stages |-> {s \in stages : serve[s] = x}]} \in SUBSET V!Plugins
        <5>1. {s \in stages : serve[s] = x} \in SUBSET StageNames
          OBVIOUS
        <5> QED BY <1>3, <5>1
      <4> QED BY <4>1
    <3> QED BY <1>4, <3>1, <3>2, <3>3 DEF V!Schemas
  <2>3. ASSUME NEW targets \in [StageNames -> SUBSET StageNames],
               NEW bindings \in SUBSET (StageNames \X StageNames),
               NEW permissions \in SUBSET SlotNames, NEW system \in BOOLEAN,
               NEW submitter \in {{}} \cup {{x} : x \in SlotNames}
        PROVE  [V!Sound EXCEPT !.targets = targets, !.bindings = bindings,
                    !.permissions = permissions, !.system = system, !.submitter = submitter] \in V!Schemas
    <3>1. submitter \in SUBSET SlotNames
      <4>1. CASE submitter = {}
        BY <4>1
      <4>2. CASE \E x \in SlotNames : submitter = {x}
        BY <4>2
      <4> QED BY <4>1, <4>2
    <3> QED BY <1>4, <3>1 DEF V!Schemas
  <2>4. CASE \E slots \in SUBSET SlotNames, stages \in SUBSET StageNames,
                plugins \in [SlotNames -> V!PluginSets], matches \in BOOLEAN :
                x1 = [V!Sound EXCEPT !.slots = slots, !.stages = stages, !.plugins = plugins, !.matches = matches]
    <3>1. PICK slots \in SUBSET SlotNames, stages \in SUBSET StageNames,
               plugins \in [SlotNames -> V!PluginSets], matches \in BOOLEAN :
               x1 = [V!Sound EXCEPT !.slots = slots, !.stages = stages, !.plugins = plugins, !.matches = matches]
      BY <2>4
    <3> QED BY <2>1, <3>1
  <2>5. CASE \E assignment \in [StageNames -> {"unset", "static", "selected"}],
                manifests \in [SlotNames -> V!Manifests], stages \in SUBSET StageNames,
                serve \in [StageNames -> SlotNames] :
                x1 = served(assignment, manifests, stages, serve)
    <3>1. PICK assignment \in [StageNames -> {"unset", "static", "selected"}],
               manifests \in [SlotNames -> V!Manifests], stages \in SUBSET StageNames,
               serve \in [StageNames -> SlotNames] :
               x1 = served(assignment, manifests, stages, serve)
      BY <2>5
    <3> HIDE DEF served
    <3> QED BY <2>2, <3>1
  <2>6. CASE \E targets \in [StageNames -> SUBSET StageNames],
                bindings \in SUBSET (StageNames \X StageNames),
                permissions \in SUBSET SlotNames, system \in BOOLEAN,
                submitter \in {{}} \cup {{x} : x \in SlotNames} :
                x1 = [V!Sound EXCEPT !.targets = targets, !.bindings = bindings,
                        !.permissions = permissions, !.system = system, !.submitter = submitter]
    <3>1. PICK targets \in [StageNames -> SUBSET StageNames],
               bindings \in SUBSET (StageNames \X StageNames),
               permissions \in SUBSET SlotNames, system \in BOOLEAN,
               submitter \in {{}} \cup {{x} : x \in SlotNames} :
               x1 = [V!Sound EXCEPT !.targets = targets, !.bindings = bindings,
                       !.permissions = permissions, !.system = system, !.submitter = submitter]
      BY <2>6
    <3> QED BY <2>3, <3>1
  <2> QED BY <2>4, <2>5, <2>6 DEF V!Init
<1> QED BY <1>5 DEF V!Init, V!IndInv

LEMMA SchemaStep == V!IndInv /\ [V!Next]_(V!schemaVars) => V!IndInv'
<1> SUFFICES ASSUME V!IndInv, [V!Next]_(V!schemaVars) PROVE V!IndInv'
  OBVIOUS
<1>1. CASE V!Next
  <2>1. x1' = x1 /\ x2' = IF V!validateProductSchemaBundle(x1) = {} THEN "ok" ELSE "refused"
    BY <1>1 DEF V!Next, V!Validate
  <2> QED BY <2>1 DEF V!IndInv
<1>2. CASE UNCHANGED V!schemaVars
  <2>1. x1' = x1 /\ x2' = x2
    BY <1>2 DEF V!schemaVars
  <2> QED BY <2>1 DEF V!IndInv
<1> QED BY <1>1, <1>2

(* The validator accepts exactly the serviceable schemas, whatever the     *)
(* numbers of stages, slots and plugins (validateProductSchemaBundle).     *)
THEOREM AcceptsExactly == Spec => []AcceptsServiceable
<1> DEFINE Inv == focus = "schemas" => V!IndInv
<1>1. Init => Inv
  BY SchemaInit DEF Init
<1>2. Inv /\ [Next]_allVars => Inv'
  BY FocusStep, SchemaStep
<1>3. Inv => AcceptsServiceable
  BY ValidIffServiceable DEF AcceptsServiceable, V!AcceptsServiceable, V!IndInv
<1> QED BY <1>1, <1>2, <1>3, PTL DEF Spec, allVars

-----------------------------------------------------------------------------
(* Access to the console.                                                  *)

(* What the tables of routes have in common.                               *)
Lanes == { "store", "admin", "ops", "participant", "evidence" }
Capabilities == { "none" } \cup A!ADMIN_CAPABILITIES \cup A!GovernanceOnly
RouteRecords ==
  [ lane : Lanes, capability : Capabilities, named : BOOLEAN, principal : BOOLEAN, anchored : BOOLEAN,
    tags : BOOLEAN, confirmed : BOOLEAN, audited : BOOLEAN, writes : BOOLEAN ]
Shaped(route) ==
  /\ route \in RouteRecords
  /\ route.lane # "store" => route.capability = "none" /\ ~route.anchored /\ ~route.audited
  /\ route.lane = "store" /\ route.writes => route.capability # "store.read"

(* The kinds of routes.                                                    *)
LEMMA PlainShaped ==
  A!Plain \in RouteRecords /\ A!Plain.lane = "store" /\ A!Plain.capability = "none" /\ ~A!Plain.writes
    /\ ~A!Plain.anchored /\ ~A!Plain.audited
BY DEF A!Plain, RouteRecords, Lanes, Capabilities

LEMMA KindsShaped ==
  ASSUME NEW c \in Capabilities
  PROVE  /\ A!Query(c) \in RouteRecords /\ A!Query(c).lane = "store" /\ ~A!Query(c).writes
         /\ A!AuditedQuery(c) \in RouteRecords /\ A!AuditedQuery(c).lane = "store" /\ ~A!AuditedQuery(c).writes
         /\ A!Write(c) \in RouteRecords /\ A!Write(c).lane = "store" /\ A!Write(c).capability = c
<1>1. A!Query(c) \in RouteRecords /\ A!Query(c).lane = "store" /\ ~A!Query(c).writes
  BY PlainShaped DEF A!Query, RouteRecords
<1>2. A!AuditedQuery(c) \in RouteRecords /\ A!AuditedQuery(c).lane = "store" /\ ~A!AuditedQuery(c).writes
  BY PlainShaped DEF A!AuditedQuery, RouteRecords
<1>3. A!Write(c) \in RouteRecords /\ A!Write(c).lane = "store" /\ A!Write(c).capability = c
  BY PlainShaped DEF A!Write, RouteRecords
<1> QED BY <1>1, <1>2, <1>3

LEMMA AnchoredWriteShaped == Shaped(A!AnchoredWrite)
BY PlainShaped DEF A!AnchoredWrite, RouteRecords, Shaped

LEMMA WriteShaped ==
  ASSUME NEW c \in Capabilities, c # "store.read"
  PROVE  /\ Shaped(A!Write(c))
         /\ Shaped([ A!Write(c) EXCEPT !.confirmed = TRUE ])
         /\ Shaped([ A!Write(c) EXCEPT !.principal = TRUE ])
         /\ Shaped([ A!Write(c) EXCEPT !.audited = FALSE ])
         /\ Shaped([ A!Write(c) EXCEPT !.confirmed = TRUE, !.tags = TRUE ])
<1>0. A!Write(c) \in RouteRecords /\ A!Write(c).lane = "store" /\ A!Write(c).capability = c
  BY KindsShaped
<1> USE <1>0 DEF RouteRecords, Shaped
<1>1. Shaped(A!Write(c))
  OBVIOUS
<1>2. Shaped([ A!Write(c) EXCEPT !.confirmed = TRUE ])
  OBVIOUS
<1>3. Shaped([ A!Write(c) EXCEPT !.principal = TRUE ])
  OBVIOUS
<1>4. Shaped([ A!Write(c) EXCEPT !.audited = FALSE ])
  OBVIOUS
<1>5. Shaped([ A!Write(c) EXCEPT !.confirmed = TRUE, !.tags = TRUE ])
  OBVIOUS
<1> HIDE DEF Shaped
<1> QED BY <1>1, <1>2, <1>3, <1>4, <1>5

LEMMA QueryShaped ==
  ASSUME NEW c \in Capabilities
  PROVE  /\ Shaped(A!Query(c)) /\ Shaped(A!AuditedQuery(c))
         /\ Shaped([ A!Query(c) EXCEPT !.named = TRUE ])
<1>0. A!Query(c) \in RouteRecords /\ A!Query(c).lane = "store" /\ ~A!Query(c).writes
      /\ A!AuditedQuery(c) \in RouteRecords /\ A!AuditedQuery(c).lane = "store" /\ ~A!AuditedQuery(c).writes
  BY KindsShaped
<1> USE <1>0 DEF RouteRecords, Shaped
<1>1. Shaped(A!Query(c)) /\ Shaped(A!AuditedQuery(c))
  OBVIOUS
<1>2. Shaped([ A!Query(c) EXCEPT !.named = TRUE ])
  OBVIOUS
<1> HIDE DEF Shaped
<1> QED BY <1>1, <1>2

LEMMA LaneShaped ==
  ASSUME NEW lane \in Lanes, lane # "store"
  PROVE  /\ Shaped([ A!Plain EXCEPT !.lane = lane ])
         /\ Shaped([ A!Plain EXCEPT !.lane = lane, !.writes = TRUE ])
<1>1. Shaped([ A!Plain EXCEPT !.lane = lane ])
  BY PlainShaped DEF RouteRecords, Shaped
<1>2. Shaped([ A!Plain EXCEPT !.lane = lane, !.writes = TRUE ])
  BY PlainShaped DEF RouteRecords, Shaped
<1> QED BY <1>1, <1>2

(* The capabilities the tables name.                                      *)
LEMMA Named ==
  { "none", "store.audit.read", "store.docking.create", "store.docking.read", "store.docking.save",
    "store.docking.validate", "store.draft.compile", "store.draft.import",
    "store.draft.review", "store.draft.schema.save", "store.listing.manage", "store.read",
    "store.supplier.create", "store.supplier.identity.register",
    "store.supplier.identity.revoke", "store.supplier.notification_profile.update",
    "store.supplier.review", "store.version.activate", "store.version.deprecate" } \subseteq Capabilities
BY DEF Capabilities, A!ADMIN_CAPABILITIES, A!OPERATOR_CAPABILITIES, A!READ_CAPABILITIES, A!PublicRead, A!GovernanceOnly

(* The tables, route by route.                                             *)
LEMMA GroupsShaped == \A group \in A!Groups : \A op \in DOMAIN group : Shaped(group[op])
<1>1. ASSUME NEW op \in DOMAIN A!consoleRoutes PROVE Shaped(A!consoleRoutes[op])
  <2>1. op \in { "auditLog", "dryRun", "productSchema" }
    BY DEF A!consoleRoutes
  <2>2. CASE op = "auditLog"
    BY <2>2, Named, QueryShaped DEF Lanes, A!consoleRoutes
  <2>3. CASE op = "dryRun"
    BY <2>3, Named, QueryShaped DEF Lanes, A!consoleRoutes
  <2>4. CASE op = "productSchema"
    BY <2>4, Named, QueryShaped DEF Lanes, A!consoleRoutes
  <2> QED BY <2>1, <2>2, <2>3, <2>4
<1>2. ASSUME NEW op \in DOMAIN A!runtimeRoutes PROVE Shaped(A!runtimeRoutes[op])
  <2>1. op = "runtimeSummary"
    BY DEF A!runtimeRoutes
  <2> QED BY <2>1, Named, QueryShaped DEF Lanes, A!runtimeRoutes
<1>3. ASSUME NEW op \in DOMAIN A!versionRoutes PROVE Shaped(A!versionRoutes[op])
  <2>1. op \in { "activate", "deprecate" }
    BY DEF A!versionRoutes
  <2>2. CASE op = "activate"
    BY <2>2, Named, WriteShaped DEF Lanes, A!versionRoutes
  <2>3. CASE op = "deprecate"
    BY <2>3, Named, WriteShaped DEF Lanes, A!versionRoutes
  <2> QED BY <2>1, <2>2, <2>3
<1>4. ASSUME NEW op \in DOMAIN A!draftRoutes PROVE Shaped(A!draftRoutes[op])
  <2>1. op \in { "importDraft", "getDraft", "saveSchema", "validateSchema" }
    BY DEF A!draftRoutes
  <2>2. CASE op = "importDraft"
    BY <2>2, Named, WriteShaped DEF Lanes, A!draftRoutes
  <2>3. CASE op = "getDraft"
    BY <2>3, Named, QueryShaped DEF Lanes, A!draftRoutes
  <2>4. CASE op = "saveSchema"
    BY <2>4, Named, WriteShaped DEF Lanes, A!draftRoutes
  <2>5. CASE op = "validateSchema"
    BY <2>5, Named, WriteShaped DEF Lanes, A!draftRoutes
  <2> QED BY <2>1, <2>2, <2>3, <2>4, <2>5
<1>5. ASSUME NEW op \in DOMAIN A!compileRoutes PROVE Shaped(A!compileRoutes[op])
  <2>1. op \in { "compilePreview", "submitReview" }
    BY DEF A!compileRoutes
  <2>2. CASE op = "compilePreview"
    BY <2>2, Named, WriteShaped DEF Lanes, A!compileRoutes
  <2>3. CASE op = "submitReview"
    BY <2>3, Named, WriteShaped DEF Lanes, A!compileRoutes
  <2> QED BY <2>1, <2>2, <2>3
<1>6. ASSUME NEW op \in DOMAIN A!supplierRoutes PROVE Shaped(A!supplierRoutes[op])
  <2>1. op \in { "listSuppliers", "createSupplier", "supplierAudits", "prepareProfile", "saveProfile" }
    BY DEF A!supplierRoutes
  <2>2. CASE op = "listSuppliers"
    BY <2>2, Named, QueryShaped DEF Lanes, A!supplierRoutes
  <2>3. CASE op = "createSupplier"
    BY <2>3, Named, WriteShaped DEF Lanes, A!supplierRoutes
  <2>4. CASE op = "supplierAudits"
    BY <2>4, Named, QueryShaped DEF Lanes, A!supplierRoutes
  <2>5. CASE op = "prepareProfile"
    BY <2>5, Named, QueryShaped DEF Lanes, A!supplierRoutes
  <2>6. CASE op = "saveProfile"
    BY <2>6, Named, WriteShaped DEF Lanes, A!supplierRoutes
  <2> QED BY <2>1, <2>2, <2>3, <2>4, <2>5, <2>6
<1>7. ASSUME NEW op \in DOMAIN A!supplierActionRoutes PROVE Shaped(A!supplierActionRoutes[op])
  <2>1. op \in { "reviewSupplier", "registerIdentity", "revokeIdentity" }
    BY DEF A!supplierActionRoutes
  <2>2. CASE op = "reviewSupplier"
    BY <2>2, Named, WriteShaped DEF Lanes, A!supplierActionRoutes
  <2>3. CASE op = "registerIdentity"
    BY <2>3, Named, WriteShaped DEF Lanes, A!supplierActionRoutes
  <2>4. CASE op = "revokeIdentity"
    BY <2>4, Named, WriteShaped DEF Lanes, A!supplierActionRoutes
  <2> QED BY <2>1, <2>2, <2>3, <2>4
<1>8. ASSUME NEW op \in DOMAIN A!dockingRoutes PROVE Shaped(A!dockingRoutes[op])
  <2>1. op \in { "createDocking", "getDocking", "validateDocking", "saveDraftMap" }
    BY DEF A!dockingRoutes
  <2>2. CASE op = "createDocking"
    BY <2>2, Named, WriteShaped DEF Lanes, A!dockingRoutes
  <2>3. CASE op = "getDocking"
    BY <2>3, Named, QueryShaped DEF Lanes, A!dockingRoutes
  <2>4. CASE op = "validateDocking"
    BY <2>4, Named, WriteShaped DEF Lanes, A!dockingRoutes
  <2>5. CASE op = "saveDraftMap"
    BY <2>5, Named, WriteShaped DEF Lanes, A!dockingRoutes
  <2> QED BY <2>1, <2>2, <2>3, <2>4, <2>5
<1>9. ASSUME NEW op \in DOMAIN A!listingRoutes PROVE Shaped(A!listingRoutes[op])
  <2>1. op \in { "importListing", "importOwnListing", "reviewListing" }
    BY DEF A!listingRoutes
  <2>2. CASE op = "importListing"
    BY <2>2, Named, WriteShaped DEF Lanes, A!listingRoutes
  <2>3. CASE op = "importOwnListing"
    BY <2>3, Named, AnchoredWriteShaped DEF Lanes, A!listingRoutes
  <2>4. CASE op = "reviewListing"
    BY <2>4, Named, WriteShaped DEF Lanes, A!listingRoutes
  <2> QED BY <2>1, <2>2, <2>3, <2>4
<1>10. ASSUME NEW op \in DOMAIN A!decorationRoutes PROVE Shaped(A!decorationRoutes[op])
  <2>1. op \in { "saveDecoration", "restoreVersion", "delegate", "revokeDelegation" }
    BY DEF A!decorationRoutes
  <2>2. CASE op = "saveDecoration"
    BY <2>2, Named, AnchoredWriteShaped DEF Lanes, A!decorationRoutes
  <2>3. CASE op = "restoreVersion"
    BY <2>3, Named, AnchoredWriteShaped DEF Lanes, A!decorationRoutes
  <2>4. CASE op = "delegate"
    BY <2>4, Named, AnchoredWriteShaped DEF Lanes, A!decorationRoutes
  <2>5. CASE op = "revokeDelegation"
    BY <2>5, Named, AnchoredWriteShaped DEF Lanes, A!decorationRoutes
  <2> QED BY <2>1, <2>2, <2>3, <2>4, <2>5
<1>11. ASSUME NEW op \in DOMAIN A!joinRoutes PROVE Shaped(A!joinRoutes[op])
  <2>1. op \in { "submitApplication", "reviewApplication" }
    BY DEF A!joinRoutes
  <2>2. CASE op = "submitApplication"
    BY <2>2, Named, AnchoredWriteShaped DEF Lanes, A!joinRoutes
  <2>3. CASE op = "reviewApplication"
    BY <2>3, Named, AnchoredWriteShaped DEF Lanes, A!joinRoutes
  <2> QED BY <2>1, <2>2, <2>3
<1>12. ASSUME NEW op \in DOMAIN A!governanceRoutes PROVE Shaped(A!governanceRoutes[op])
  <2>1. op = "reviewZhixu"
    BY DEF A!governanceRoutes
  <2> QED BY <2>1, Named, LaneShaped DEF Lanes, A!governanceRoutes
<1>13. ASSUME NEW op \in DOMAIN A!opsRoutes PROVE Shaped(A!opsRoutes[op])
  <2>1. op = "runReconcile"
    BY DEF A!opsRoutes
  <2> QED BY <2>1, Named, LaneShaped DEF Lanes, A!opsRoutes
<1>14. ASSUME NEW op \in DOMAIN A!participantRoutes PROVE Shaped(A!participantRoutes[op])
  <2>1. op \in { "readActivity", "uploadEvidence" }
    BY DEF A!participantRoutes
  <2>2. CASE op = "readActivity"
    BY <2>2, Named, LaneShaped DEF Lanes, A!participantRoutes
  <2>3. CASE op = "uploadEvidence"
    BY <2>3, Named, LaneShaped DEF Lanes, A!participantRoutes
  <2> QED BY <2>1, <2>2, <2>3
<1> QED BY <1>1, <1>2, <1>3, <1>4, <1>5, <1>6, <1>7, <1>8, <1>9, <1>10, <1>11, <1>12, <1>13, <1>14 DEF A!Groups

LEMMA RouteShaped ==
  ASSUME NEW op \in RouteNames
  PROVE  Shaped(A!Route(op))
<1>1. \E group \in A!Groups : op \in DOMAIN group
  BY RoutesExist DEF A!KnownRoutes
<1>2. PICK group \in A!Groups : op \in DOMAIN group /\ A!Route(op) = group[op]
  BY <1>1 DEF A!Route
<1> QED BY <1>2, GroupsShaped

(* The tables of capabilities.                                             *)
LEMMA Tables ==
  /\ A!PublicRead = { "store.read" }
  /\ A!PublicRead \subseteq A!READ_CAPABILITIES /\ A!READ_CAPABILITIES \subseteq A!OPERATOR_CAPABILITIES
  /\ A!OPERATOR_CAPABILITIES \subseteq A!ADMIN_CAPABILITIES
  /\ A!GovernanceOnly \cap A!ADMIN_CAPABILITIES = {}
  /\ "store.draft.import" \in A!OPERATOR_CAPABILITIES \ A!READ_CAPABILITIES
  /\ "store.draft.review" \in A!GovernanceOnly
  /\ "store.docking.read" \in A!READ_CAPABILITIES
<1> USE DEF A!PublicRead, A!READ_CAPABILITIES, A!OPERATOR_CAPABILITIES, A!ADMIN_CAPABILITIES, A!GovernanceOnly
<1>1. A!GovernanceOnly \cap A!ADMIN_CAPABILITIES = {}
  OBVIOUS
<1>2. "store.draft.import" \in A!OPERATOR_CAPABILITIES \ A!READ_CAPABILITIES
  OBVIOUS
<1> QED BY <1>1, <1>2

(* A level and what it lets do, on the scale of access.ts.                 *)
Coherent(access) ==
  /\ \A c \in access.capabilities \ A!PublicRead :
       /\ c \in A!GovernanceOnly => access.governance
       /\ c \notin A!GovernanceOnly =>
            /\ c \in A!ADMIN_CAPABILITIES
            /\ c \in A!ADMIN_CAPABILITIES \ A!OPERATOR_CAPABILITIES => access.level = "store_admin"
            /\ c \notin A!READ_CAPABILITIES => access.level \in { "store_operator", "store_admin" }
            /\ access.level # "anonymous_read"
  /\ access.canWrite <=> access.capabilities \ A!READ_CAPABILITIES # {}

Accesses ==
  [ level : { "anonymous_read", "store_read", "store_operator", "store_admin" }, named : BOOLEAN,
    capabilities : SUBSET (A!ADMIN_CAPABILITIES \cup A!GovernanceOnly), governance : BOOLEAN,
    canWrite : BOOLEAN, anchor : { "none" } ]

(* Whose capabilities these are: of nobody in particular, of a token, of   *)
(* headers that are believed on local; governance is for the listed.       *)
Founded(access) ==
  /\ access.governance => A!governanceAdminAllowed
  /\ A!Strict => \/ access.capabilities \subseteq A!PublicRead
                 \/ x2.jwt = "valid" /\ x1.evidence

LEMMA AnonymousFounded ==
  /\ A!anonymousAccess \in Accesses
  /\ Coherent(A!anonymousAccess) /\ Founded(A!anonymousAccess)
BY Tables DEF A!anonymousAccess, A!Access, Accesses, Coherent, Founded

LEMMA HeadersFounded ==
  LET access == A!resolveStoreAccessFromHeaders
  IN access \in Accesses /\ Coherent(access) /\ Founded(access)
<1> DEFINE admin == A!Access("store_admin", TRUE, A!ADMIN_CAPABILITIES \cup A!GovernanceOnly, TRUE, TRUE)
           staff == A!Access("store_admin", TRUE, A!ADMIN_CAPABILITIES, FALSE, TRUE)
           operator == A!Access("store_operator", TRUE, A!OPERATOR_CAPABILITIES, FALSE, TRUE)
           reader == A!Access("store_read", TRUE, A!READ_CAPABILITIES, FALSE, FALSE)
<1>1. admin \in Accesses /\ Coherent(admin)
  BY Tables DEF A!Access, Accesses, Coherent
<1>2. staff \in Accesses /\ Coherent(staff)
  BY Tables DEF A!Access, Accesses, Coherent
<1>3. operator \in Accesses /\ Coherent(operator)
  BY Tables DEF A!Access, Accesses, Coherent
<1>4. reader \in Accesses /\ Coherent(reader)
  BY Tables DEF A!Access, Accesses, Coherent
<1>5. /\ admin.governance = TRUE /\ staff.governance = FALSE
      /\ operator.governance = FALSE /\ reader.governance = FALSE
  BY DEF A!Access
<1> HIDE DEF admin, staff, operator, reader
<1>6. CASE ~A!devHeaderAuthEnabled
  BY <1>6, AnonymousFounded DEF A!resolveStoreAccessFromHeaders
<1>7. CASE A!devHeaderAuthEnabled
  <2>1. ~A!Strict
    BY <1>7 DEF A!devHeaderAuthEnabled
  <2>2. CASE A!adminPrincipalFromHeaders
    <3>1. A!resolveStoreAccessFromHeaders = admin
      BY <1>7, <2>2 DEF A!resolveStoreAccessFromHeaders, admin
    <3>2. A!governanceAdminAllowed
      BY <2>2 DEF A!adminPrincipalFromHeaders
    <3> QED BY <1>1, <2>1, <3>1, <3>2 DEF Founded
  <2>3. CASE ~A!adminPrincipalFromHeaders
    <3>1. A!resolveStoreAccessFromHeaders \in { A!anonymousAccess, staff, operator, reader }
      BY <1>7, <2>3 DEF A!resolveStoreAccessFromHeaders, staff, operator, reader
    <3> QED BY <1>2, <1>3, <1>4, <1>5, <2>1, <3>1, AnonymousFounded DEF Founded
  <2> QED BY <2>2, <2>3
<1> QED BY <1>6, <1>7

LEMMA TokenFounded ==
  ASSUME ~A!jwtConfigBlocked, x1.mode = "jwt", x1.evidence \in BOOLEAN
  PROVE  LET access == A!resolveStoreAccessFromJwt
         IN access \in Accesses /\ Coherent(access) /\ Founded(access)
<1>1. CASE x2.jwt # "valid"
  BY <1>1, AnonymousFounded DEF A!resolveStoreAccessFromJwt
<1>2. CASE x2.jwt = "valid"
  <2> DEFINE roles == A!canonicalStoreRoles
             capabilities == A!capabilitiesForStoreRoles(roles)
             level == A!accessLevelForStoreRoles(roles)
             access == A!storeAccessFromJwtPayload
  <2>1. access = A!Access(level, TRUE, capabilities, "governance_admin" \in roles, A!JwtCanWrite(capabilities))
    BY DEF A!storeAccessFromJwtPayload
  <2>2. "governance_admin" \in roles => A!governanceAdminAllowed
    BY DEF A!canonicalStoreRoles
  <2>3. capabilities = A!PublicRead
          \cup (IF "store_reader" \in roles THEN A!READ_CAPABILITIES ELSE {})
          \cup (IF "store_operator" \in roles THEN A!OPERATOR_CAPABILITIES ELSE {})
          \cup (IF "store_admin" \in roles THEN A!ADMIN_CAPABILITIES ELSE {})
          \cup (IF "governance_admin" \in roles THEN A!READ_CAPABILITIES \cup A!GovernanceOnly ELSE {})
    BY DEF A!capabilitiesForStoreRoles
  <2>4. /\ level \in { "store_read", "store_operator", "store_admin" }
        /\ "store_admin" \in roles <=> level = "store_admin"
        /\ "store_operator" \in roles => level \in { "store_operator", "store_admin" }
    BY DEF A!accessLevelForStoreRoles
  <2>5. access = [ level |-> level, named |-> TRUE, capabilities |-> capabilities,
                   governance |-> "governance_admin" \in roles,
                   canWrite |-> capabilities \ A!READ_CAPABILITIES # {}, anchor |-> "none" ]
    BY <2>1 DEF A!Access, A!JwtCanWrite
  <2> HIDE DEF roles, capabilities, level, access
  <2>6. capabilities \in SUBSET (A!ADMIN_CAPABILITIES \cup A!GovernanceOnly)
    BY <2>3, Tables
  <2>7. access \in Accesses
    BY <2>4, <2>5, <2>6 DEF Accesses
  <2>8. Coherent(access)
    <3>1. ASSUME NEW c \in capabilities, c \notin A!PublicRead, c \in A!GovernanceOnly
          PROVE  "governance_admin" \in roles
      BY <2>3, <3>1, Tables
    <3>2. ASSUME NEW c \in capabilities, c \notin A!PublicRead, c \notin A!GovernanceOnly
          PROVE  /\ c \in A!ADMIN_CAPABILITIES
                 /\ c \in A!ADMIN_CAPABILITIES \ A!OPERATOR_CAPABILITIES => level = "store_admin"
                 /\ c \notin A!READ_CAPABILITIES => level \in { "store_operator", "store_admin" }
                 /\ level # "anonymous_read"
      BY <2>3, <2>4, <3>2, Tables
    <3>3. /\ access.capabilities = capabilities /\ access.level = level
          /\ access.governance <=> "governance_admin" \in roles
          /\ access.canWrite <=> capabilities \ A!READ_CAPABILITIES # {}
      BY <2>5
    <3> QED BY <3>1, <3>2, <3>3 DEF Coherent
  <2>9. Founded(access)
    <3>1. access.governance <=> "governance_admin" \in roles
      BY <2>5
    <3>2. A!Strict => x2.jwt = "valid" /\ x1.evidence
      BY <1>2 DEF A!jwtConfigBlocked
    <3> QED BY <2>2, <3>1, <3>2 DEF Founded
  <2> QED BY <1>2, <2>7, <2>8, <2>9 DEF A!resolveStoreAccessFromJwt, access
<1> QED BY <1>1, <1>2

LEMMA BaseFounded ==
  ASSUME A!CallerInv
  PROVE  A!BaseAccess \in Accesses /\ Coherent(A!BaseAccess) /\ Founded(A!BaseAccess)
<1>1. x1.evidence \in BOOLEAN /\ x1.mode \in { "dev_headers", "jwt" }
  BY DEF A!CallerInv, A!Deployments
<1>2. CASE A!jwtConfigBlocked
  BY <1>2, AnonymousFounded DEF A!BaseAccess
<1>3. CASE x1.mode = "jwt" /\ ~A!jwtConfigBlocked
  <2>1. A!BaseAccess = A!resolveStoreAccessFromJwt
    BY <1>3 DEF A!BaseAccess
  <2> QED BY <1>1, <1>3, <2>1, TokenFounded
<1>4. CASE x1.mode # "jwt"
  <2>1. A!BaseAccess = A!resolveStoreAccessFromHeaders
    BY <1>4 DEF A!BaseAccess, A!jwtConfigBlocked
  <2> QED BY <2>1, HeadersFounded
<1> QED BY <1>2, <1>3, <1>4

(* What a wallet's list adds.                                              *)
LEMMA WalletAdds ==
  ASSUME NEW list \in { "plain", "operator", "admin" }
  PROVE  LET level == A!walletSessionAccessLevel(list)
             added == A!capabilitiesForAccessLevel(level)
         IN /\ level \in { "store_read", "store_operator", "store_admin" }
            /\ added \subseteq A!ADMIN_CAPABILITIES
            /\ level = "store_read" => added = A!PublicRead
            /\ level = "store_operator" => added \subseteq A!OPERATOR_CAPABILITIES
            /\ level \in { "store_operator", "store_admin" } <=> added \ A!READ_CAPABILITIES # {}
<1>1. CASE list = "plain"
  BY <1>1, Tables DEF A!walletSessionAccessLevel, A!capabilitiesForAccessLevel
<1>2. CASE list = "operator"
  BY <1>2, Tables DEF A!walletSessionAccessLevel, A!capabilitiesForAccessLevel
<1>3. CASE list = "admin"
  BY <1>3, Tables DEF A!walletSessionAccessLevel, A!capabilitiesForAccessLevel
<1> QED BY <1>1, <1>2, <1>3

(* Who a request is resolved to.                                           *)
LEMMA IdentityResolved ==
  ASSUME A!CallerInv
  PROVE  /\ Coherent(A!resolve)
         /\ A!resolve.level \in { "anonymous_read", "store_read", "store_operator", "store_admin" }
         /\ A!resolve.anchor \in { "none", "wallet", "dev" }
         /\ A!resolve.anchor = "none" => x3 = "none"
         /\ A!Strict => A!resolve.anchor # "dev"
         /\ \A c \in A!resolve.capabilities :
              \/ c \in A!BaseAccess.capabilities
              \/ x3 # "none" /\ c \in A!capabilitiesForAccessLevel(A!walletSessionAccessLevel(x3))
<1> DEFINE base == A!BaseAccess
<1>1. base \in Accesses /\ Coherent(base)
  BY BaseFounded
<1>2. x3 \in { "none", "plain", "operator", "admin" }
  BY DEF A!CallerInv
<1>3. CASE x3 # "none"
  <2> DEFINE level == A!walletSessionAccessLevel(x3)
             added == A!capabilitiesForAccessLevel(level)
             merged == A!mergeWalletSessionIntoAccess(base)
  <2>1. /\ level \in { "store_read", "store_operator", "store_admin" }
        /\ added \subseteq A!ADMIN_CAPABILITIES
        /\ level = "store_read" => added = A!PublicRead
        /\ level = "store_operator" => added \subseteq A!OPERATOR_CAPABILITIES
        /\ level \in { "store_operator", "store_admin" } <=> added \ A!READ_CAPABILITIES # {}
    BY <1>2, <1>3, WalletAdds
  <2>2. merged = [ base EXCEPT !.level = A!maxAccessLevel(base.level, level), !.named = TRUE,
                               !.capabilities = @ \cup added,
                               !.canWrite = @ \/ level \in { "store_operator", "store_admin" },
                               !.anchor = "wallet" ]
    BY DEF A!mergeWalletSessionIntoAccess
  <2> HIDE DEF base, level, added, merged
  <2>3. /\ merged.level = A!maxAccessLevel(base.level, level)
        /\ merged.capabilities = base.capabilities \cup added
        /\ merged.governance = base.governance
        /\ merged.anchor = "wallet"
        /\ merged.canWrite <=> (base.canWrite \/ level \in { "store_operator", "store_admin" })
    BY <1>1, <2>2 DEF Accesses
  <2>4. /\ merged.level \in { base.level, level } \ { "anonymous_read" }
        /\ base.level = "store_admin" \/ level = "store_admin" => merged.level = "store_admin"
        /\ base.level = "store_operator" \/ level = "store_operator"
             => merged.level \in { "store_operator", "store_admin" }
    <3>1. base.level \in { "anonymous_read", "store_read", "store_operator", "store_admin" }
      BY <1>1 DEF Accesses
    <3> QED BY <2>1, <2>3, <3>1 DEF A!maxAccessLevel, A!Rank
  <2>5. base.level \in { "anonymous_read", "store_read", "store_operator", "store_admin" }
        /\ base.capabilities \subseteq A!ADMIN_CAPABILITIES \cup A!GovernanceOnly
    BY <1>1 DEF Accesses
  <2>6. Coherent(merged)
    <3>1. ASSUME NEW c \in merged.capabilities \ A!PublicRead
          PROVE  /\ c \in A!GovernanceOnly => merged.governance
                 /\ c \notin A!GovernanceOnly =>
                      /\ c \in A!ADMIN_CAPABILITIES
                      /\ c \in A!ADMIN_CAPABILITIES \ A!OPERATOR_CAPABILITIES => merged.level = "store_admin"
                      /\ c \notin A!READ_CAPABILITIES => merged.level \in { "store_operator", "store_admin" }
                      /\ merged.level # "anonymous_read"
      <4>1. CASE c \in base.capabilities
        <5>1. /\ c \in A!GovernanceOnly => base.governance
              /\ c \notin A!GovernanceOnly =>
                   /\ c \in A!ADMIN_CAPABILITIES
                   /\ c \in A!ADMIN_CAPABILITIES \ A!OPERATOR_CAPABILITIES => base.level = "store_admin"
                   /\ c \notin A!READ_CAPABILITIES => base.level \in { "store_operator", "store_admin" }
          BY <1>1, <4>1 DEF Coherent
        <5> QED BY <2>3, <2>4, <5>1
      <4>2. CASE c \in added
        <5>1. c \in A!ADMIN_CAPABILITIES /\ c \notin A!GovernanceOnly
          BY <2>1, <4>2, Tables
        <5>2. level # "store_read"
          BY <2>1, <4>2
        <5>3. c \in A!ADMIN_CAPABILITIES \ A!OPERATOR_CAPABILITIES => level = "store_admin"
          BY <2>1, <4>2, <5>2
        <5> QED BY <2>1, <2>4, <5>1, <5>2, <5>3
      <4> QED BY <2>3, <4>1, <4>2
    <3>2. merged.canWrite <=> merged.capabilities \ A!READ_CAPABILITIES # {}
      <4>1. base.canWrite <=> base.capabilities \ A!READ_CAPABILITIES # {}
        BY <1>1 DEF Coherent
      <4> QED BY <2>1, <2>3, <4>1
    <3> QED BY <3>1, <3>2 DEF Coherent
  <2>7. A!resolve = merged
    BY <1>3 DEF A!resolve, merged, base
  <2>8. merged.level \in { "anonymous_read", "store_read", "store_operator", "store_admin" }
    BY <2>1, <2>4, <2>5
  <2> QED BY <1>3, <2>3, <2>6, <2>7, <2>8 DEF base, added, level
<1>4. CASE x3 = "none"
  <2>1. A!resolve = base \/ (A!resolve = [ base EXCEPT !.anchor = "dev" ] /\ ~A!Strict)
    BY <1>4 DEF A!resolve
  <2> HIDE DEF base
  <2>2. /\ A!resolve.level = base.level /\ A!resolve.capabilities = base.capabilities
        /\ A!resolve.governance = base.governance /\ A!resolve.canWrite = base.canWrite
        /\ A!resolve.anchor \in { "none", "dev" }
        /\ A!Strict => A!resolve.anchor = "none"
    BY <1>1, <2>1 DEF Accesses
  <2>3. Coherent(A!resolve)
    BY <1>1, <2>2 DEF Coherent
  <2>4. base.level \in { "anonymous_read", "store_read", "store_operator", "store_admin" }
    BY <1>1 DEF Accesses
  <2> QED BY <1>4, <2>2, <2>3, <2>4 DEF base
<1> QED BY <1>3, <1>4

LEMMA AccessInit == A!Init => A!IndInv
BY DEF A!Init, A!IndInv, A!CallerInv, A!AnswersMatchTrail, A!Idle

(* The audit store either takes the record or fails the call.              *)
LEMMA Recorded ==
  ASSUME NEW outcome, NEW whenStored, NEW whenNot, A!recordStoreAudit(outcome, whenStored, whenNot)
  PROVE  \/ x4' = whenStored /\ x5' = x5 \cup { outcome }
         \/ x4' = whenNot /\ x5' = x5
BY DEF A!recordStoreAudit

(* The stages of a call, and what its fields hold.                         *)
LEMMA Stages ==
  /\ A!Checked \subseteq A!CallStages
  /\ { "authorize", "admin", "ops", "participant", "evidence", "done" } \subseteq A!CallStages
  /\ A!CallStages \cap { "idle" } = {}
  /\ { "wallet", "dev", "own", "other", "admin" } \subseteq A!CallActors
  /\ { 0, 200, 400, 401, 403, 409, 503 } \subseteq A!CallStatuses
BY DEF A!CallStages, A!Checked, A!CallActors, A!CallStatuses

LEMMA CallMade ==
  ASSUME NEW c \in A!Calls PROVE c # A!Idle
BY Stages DEF A!Calls, A!Idle

(* A call that is over.                                                    *)
LEMMA CallDone ==
  ASSUME x4 \in A!Calls, NEW status \in A!CallStatuses
  PROVE  /\ A!Done(status) \in A!Calls /\ A!Done(status).at = "done" /\ A!Done(status).status = status
         /\ A!Done(status).op = x4.op /\ A!Done(status).actor = x4.actor
         /\ A!Done(status).wallet = x4.wallet /\ A!Done(status).acted = x4.acted
<1> DEFINE done == A!Done(status)
<1>1. done = [ x4 EXCEPT !.at = "done", !.status = status ]
  BY DEF A!Done
<1>2. "done" \in A!CallStages
  BY Stages
<1> HIDE DEF done
<1>3. done \in A!Calls
  BY <1>1, <1>2 DEF A!Calls
<1>4. /\ done.at = "done" /\ done.status = status /\ done.op = x4.op /\ done.actor = x4.actor
      /\ done.wallet = x4.wallet /\ done.acted = x4.acted
  BY <1>1 DEF A!Calls
<1> QED BY <1>3, <1>4 DEF done

(* A call that is refused or fails before its action.                      *)
LEMMA TurnedAway ==
  ASSUME A!IndInv, x4 # A!Idle, ~x4.acted, x4.actor # "other",
         NEW status \in { 400, 401, 403, 503 }, x4' = A!Done(status),
         UNCHANGED << x1, x2, x3 >>
  PROVE  A!IndInv'
<1>1. x4 \in A!Calls
  BY DEF A!IndInv
<1>2. /\ x4' \in A!Calls /\ x4'.at = "done" /\ x4'.acted = FALSE /\ x4'.actor = x4.actor
      /\ x4'.status = status /\ x4'.op = x4.op /\ x4' # A!Idle
  <2>1. status \in A!CallStatuses
    BY Stages
  <2>2. /\ x4' \in A!Calls /\ x4'.at = "done" /\ x4'.acted = x4.acted /\ x4'.actor = x4.actor
        /\ x4'.status = status /\ x4'.op = x4.op
    BY <1>1, <2>1, CallDone
  <2>3. x4.acted = FALSE
    BY <1>1 DEF A!Calls
  <2> QED BY <2>2, <2>3, CallMade
<1>3. A!CallerInv'
  BY DEF A!IndInv, A!CallerInv, A!Deployments, A!Callers
<1>4. A!LaneInv'
  BY <1>2 DEF A!LaneInv, A!Checked
<1>5. A!PassedInv'
  BY <1>2 DEF A!PassedInv, A!Checked, A!PastAnchor
<1>6. A!AnswersMatchTrail'
  BY <1>2 DEF A!AnswersMatchTrail
<1> QED BY <1>2, <1>3, <1>4, <1>5, <1>6 DEF A!IndInv

(* A check that is passed: the call moves on to one that comes later.      *)
LEMMA MovesOn ==
  ASSUME A!IndInv, x4 # A!Idle, ~x4.acted, x4.at \in A!Checked \cup { "authorize" },
         NEW at \in A!Checked \ { "audit", "failing" },
         x4' \in A!Calls, x4'.at = at, x4'.op = x4.op, ~x4'.acted,
         A!Route(x4.op).capability # "none" => A!Entitled(A!Route(x4.op).capability)',
         at \in A!PastAnchor /\ A!Route(x4.op).anchored /\ A!Strict => x4'.actor = "wallet",
         x4'.actor # "other",
         UNCHANGED << x1, x2, x3 >>
  PROVE  A!IndInv'
<1>1. x4' # A!Idle /\ x4'.at # "done"
  BY CallMade DEF A!Checked
<1>2. A!CallerInv'
  BY DEF A!IndInv, A!CallerInv, A!Deployments, A!Callers
<1>3. A!Route(x4.op).lane = "store"
  BY DEF A!IndInv, A!LaneInv
<1>4. A!LaneInv'
  BY <1>3 DEF A!LaneInv, A!Checked
<1>5. A!PassedInv'
  BY DEF A!PassedInv, A!Strict
<1>6. A!AnswersMatchTrail'
  BY <1>1 DEF A!AnswersMatchTrail
<1> QED BY <1>1, <1>2, <1>4, <1>5, <1>6 DEF A!IndInv

LEMMA SameBase ==
  ASSUME UNCHANGED << x1, x2 >>
  PROVE  A!BaseAccess' = A!BaseAccess
<1>1. A!Strict' = A!Strict /\ A!governanceAdminAllowed' = A!governanceAdminAllowed
  BY DEF A!Strict, A!governanceAdminAllowed
<1>2. A!adminPrincipalFromHeaders' = A!adminPrincipalFromHeaders
  BY <1>1 DEF A!adminPrincipalFromHeaders
<1>3. A!canonicalStoreRoles' = A!canonicalStoreRoles
  BY <1>1 DEF A!canonicalStoreRoles
<1>4. A!resolveStoreAccessFromJwt' = A!resolveStoreAccessFromJwt
  BY <1>3 DEF A!resolveStoreAccessFromJwt, A!storeAccessFromJwtPayload
<1>5. A!resolveStoreAccessFromHeaders' = A!resolveStoreAccessFromHeaders
  BY <1>1, <1>2 DEF A!resolveStoreAccessFromHeaders, A!devHeaderAuthEnabled
<1>6. A!jwtConfigBlocked' = A!jwtConfigBlocked
  BY <1>1 DEF A!jwtConfigBlocked
<1> QED BY <1>4, <1>5, <1>6 DEF A!BaseAccess

(* Past a check that asks nothing of the identity.                         *)
LEMMA PassedOn ==
  ASSUME A!IndInv, x4 # A!Idle, ~x4.acted, x4.actor # "other", x4.at \in A!Checked,
         NEW at \in A!Checked \ { "audit", "failing" }, x4' = [ x4 EXCEPT !.at = at ],
         at \in A!PastAnchor => x4.at \in A!PastAnchor,
         UNCHANGED << x1, x2, x3 >>
  PROVE  A!IndInv'
<1>1. x4 \in A!Calls /\ A!PassedInv
  BY DEF A!IndInv
<1>2. /\ x4' \in A!Calls /\ x4'.at = at /\ x4'.op = x4.op /\ ~x4'.acted
      /\ x4'.actor = x4.actor /\ x4'.wallet = x4.wallet
  <2>1. at \in A!CallStages
    BY Stages
  <2> QED BY <1>1, <2>1 DEF A!Calls
<1>3. A!Route(x4.op).capability # "none" => A!Entitled(A!Route(x4.op).capability)'
  BY <1>1, <1>2, SameBase DEF A!PassedInv, A!Entitled
<1>4. at \in A!PastAnchor /\ A!Route(x4.op).anchored /\ A!Strict => x4'.actor = "wallet"
  BY <1>1, <1>2 DEF A!PassedInv
<1> QED BY <1>2, <1>3, <1>4, MovesOn

(* Past the check for an address that a session proved.                    *)
LEMMA Anchored ==
  ASSUME A!IndInv, x4 # A!Idle, ~x4.acted, x4.at = "anchor",
         NEW at \in { "tags", "confirm", "act" }, NEW anchor \in { "wallet", "dev" },
         x4' = [ x4 EXCEPT !.at = at, !.actor = anchor ], A!Strict => anchor = "wallet",
         UNCHANGED << x1, x2, x3 >>
  PROVE  A!IndInv'
<1>1. x4 \in A!Calls /\ A!PassedInv
  BY DEF A!IndInv
<1>2. at \in A!Checked \ { "audit", "failing" } /\ x4.at \in A!Checked
  BY DEF A!Checked
<1>3. /\ x4' \in A!Calls /\ x4'.at = at /\ x4'.op = x4.op /\ ~x4'.acted
      /\ x4'.actor = anchor /\ x4'.wallet = x4.wallet
  <2>1. at \in A!CallStages /\ anchor \in A!CallActors
    BY <1>2, Stages
  <2>2. x4' \in A!Calls
    BY <1>1, <2>1 DEF A!Calls
  <2> QED BY <1>1, <2>2 DEF A!Calls
<1>4. A!Route(x4.op).capability # "none" => A!Entitled(A!Route(x4.op).capability)'
  BY <1>1, <1>2, <1>3, SameBase DEF A!PassedInv, A!Entitled
<1> QED BY <1>2, <1>3, <1>4, MovesOn

(* From the action on: what the call was entitled to stays so.             *)
LEMMA Worked ==
  ASSUME A!IndInv, x4 # A!Idle, x4.at \in A!PastAnchor, x4.actor # "other", A!Route(x4.op).lane = "store",
         x4' \in A!Calls, x4' # A!Idle, x4'.at \in { "audit", "failing", "done" },
         x4'.op = x4.op, x4'.actor = x4.actor, x4'.wallet = x4.wallet,
         x4'.acted => A!Route(x4.op).writes, A!AnswersMatchTrail',
         UNCHANGED << x1, x2, x3 >>
  PROVE  A!IndInv'
<1>1. A!PassedInv /\ x4.at \in A!Checked
  BY DEF A!IndInv, A!PastAnchor
<1>2. A!CallerInv'
  BY DEF A!IndInv, A!CallerInv, A!Deployments, A!Callers
<1>3. A!LaneInv'
  BY DEF A!LaneInv
<1>4. A!PassedInv'
  <2>1. A!Route(x4'.op).capability # "none" => A!Entitled(A!Route(x4.op).capability)'
    BY <1>1, SameBase DEF A!PassedInv, A!Entitled
  <2>2. A!Route(x4'.op).anchored /\ A!Strict' => x4'.actor = "wallet"
    BY <1>1 DEF A!PassedInv, A!Strict
  <2> QED BY <2>1, <2>2 DEF A!PassedInv, A!Entitled
<1> QED BY <1>2, <1>3, <1>4 DEF A!IndInv

(* A request outside the console is done in one step.                      *)
LEMMA Elsewhere ==
  ASSUME A!IndInv, x4 # A!Idle, x4.at = A!Route(x4.op).lane,
         x4.at \in { "admin", "ops", "participant", "evidence" },
         x4' \in A!Calls, x4'.at = "done", x4'.op = x4.op, x4'.status = 200,
         x4.at \in { "admin", "ops" } => A!adminPrincipalFromHeaders,
         x4'.actor = "other" => ~A!Strict /\ x3 = "none",
         UNCHANGED << x1, x2, x3 >>
  PROVE  A!IndInv'
<1>1. Shaped(A!Route(x4.op))
  BY RouteShaped DEF A!Calls
<1>2. A!CallerInv'
  BY DEF A!IndInv, A!CallerInv, A!Deployments, A!Callers
<1>3. A!LaneInv'
  BY <1>1 DEF A!LaneInv, A!Checked, A!adminPrincipalFromHeaders, A!governanceAdminAllowed, A!Strict
<1>4. A!PassedInv'
  BY <1>1 DEF A!PassedInv, A!Strict, Shaped, A!Checked, A!PastAnchor
<1>5. A!AnswersMatchTrail'
  BY <1>1 DEF A!AnswersMatchTrail, Shaped
<1> QED BY <1>2, <1>3, <1>4, <1>5 DEF A!IndInv

LEMMA CallArrives == A!IndInv /\ A!Arrive => A!IndInv'
<1> SUFFICES ASSUME A!IndInv, A!Arrive PROVE A!IndInv'
  OBVIOUS
<1>1. A!CallerInv'
  BY DEF A!Arrive, A!IndInv, A!CallerInv, A!Deployments, A!Callers
<1>2. PICK op \in RouteNames :
        /\ x4' \in A!Calls /\ x4'.op = op /\ ~x4'.acted /\ x4'.actor = "none"
        /\ x4'.at = CASE A!Route(op).lane # "store" -> A!Route(op).lane
                      [] A!Route(op).lane = "store" /\ A!Route(op).capability = "none" -> "anchor"
                      [] OTHER -> "authorize"
  <2> DEFINE first(op) == CASE A!Route(op).lane # "store" -> A!Route(op).lane
                            [] A!Route(op).lane = "store" /\ A!Route(op).capability = "none" -> "anchor"
                            [] OTHER -> "authorize"
  <2>1. PICK op \in RouteNames, claimed \in { "none", "own", "other" }, tags \in BOOLEAN, confirms \in BOOLEAN :
          /\ claimed # "none" => A!Route(op).lane \in { "participant", "evidence" }
          /\ tags => A!Route(op).tags
          /\ confirms => A!Route(op).confirmed
          /\ x4' = [ at |-> first(op), op |-> op, claimed |-> claimed, tags |-> tags, confirms |-> confirms,
                     acted |-> FALSE, actor |-> "none", wallet |-> "none", held |-> FALSE, status |-> 0 ]
    BY Zenon DEF A!Arrive
  <2>2. A!Route(op).lane \in Lanes
    BY RouteShaped DEF Shaped, RouteRecords
  <2>3. first(op) \in { "authorize", "anchor", "admin", "ops", "participant", "evidence" }
    BY <2>2 DEF Lanes
  <2>4. first(op) \in A!CallStages /\ "none" \in A!CallActors /\ "none" \in A!CallWallets /\ 0 \in A!CallStatuses
    BY <2>3 DEF A!CallStages, A!Checked, A!CallActors, A!CallWallets, A!CallStatuses
  <2> HIDE DEF first
  <2>5. x4' \in A!Calls
    BY <2>1, <2>4 DEF A!Calls
  <2>6. x4'.at = first(op) /\ x4'.op = op /\ ~x4'.acted /\ x4'.actor = "none"
    BY <2>1
  <2> QED BY <2>5, <2>6 DEF first
<1>3. A!Route(op).lane \in { "store", "admin", "ops", "participant", "evidence" }
  BY RouteShaped DEF Shaped, RouteRecords, Lanes
<1>4. A!LaneInv'
  BY <1>2, <1>3 DEF A!LaneInv, A!Checked
<1>5. A!PassedInv'
  BY <1>2, <1>3 DEF A!PassedInv, A!Checked, A!PastAnchor
<1>6. A!AnswersMatchTrail'
  BY <1>2, <1>3 DEF A!AnswersMatchTrail
<1> QED BY <1>1, <1>2, <1>4, <1>5, <1>6 DEF A!IndInv

LEMMA AccessStep == A!IndInv /\ [A!Next]_(A!accessVars) => A!IndInv'
<1> SUFFICES ASSUME A!IndInv, [A!Next]_(A!accessVars) PROVE A!IndInv'
  OBVIOUS
<1>0. /\ A!CallerInv
      /\ x4 # A!Idle => x4 \in A!Calls /\ A!LaneInv /\ A!PassedInv
  BY DEF A!IndInv
<1>a. ASSUME NEW at, x4.at = at, at # "idle" PROVE x4 # A!Idle
  BY <1>a DEF A!Idle
<1>b. ASSUME x4 # A!Idle, x4.at \in A!Checked \cup { "authorize" }
      PROVE  /\ x4 \in A!Calls /\ x4.op \in RouteNames /\ A!Route(x4.op).lane = "store"
             /\ x4.actor # "other"
             /\ x4.at \notin { "audit", "failing" } => ~x4.acted
  BY <1>0, <1>b DEF A!LaneInv, A!PassedInv, A!Calls, A!Checked
<1>1. CASE A!Arrive
  BY <1>1, CallArrives
<1>2. CASE A!authorizeStoreCapability
  <2> DEFINE route == A!Route(x4.op)
  <2>1. x4.at = "authorize" /\ UNCHANGED << x1, x2, x3 >>
    BY <1>2 DEF A!authorizeStoreCapability
  <2>2. x4 # A!Idle /\ x4 \in A!Calls /\ ~x4.acted /\ x4.actor # "other"
    BY <1>a, <1>b, <2>1
  <2>3. CASE route.capability \in A!resolve.capabilities /\ (route.named => A!resolve.named)
    <3>1. x4' = [ x4 EXCEPT !.at = IF route.principal THEN "principal"
                                   ELSE IF route.anchored THEN "anchor" ELSE "act",
                            !.wallet = x3, !.held = A!resolve.governance ]
      BY <1>2, <2>3 DEF A!authorizeStoreCapability
    <3> HIDE DEF route
    <3>2. /\ x4'.at \in { "principal", "anchor", "act" } /\ x4'.op = x4.op /\ ~x4'.acted
          /\ x4'.actor = x4.actor /\ x4'.wallet = x3
          /\ x4'.at = "act" => ~route.anchored
      BY <2>2, <3>1 DEF A!Calls
    <3>3. x4' \in A!Calls
      <4>1. x3 \in { "none", "plain", "operator", "admin" }
        BY <1>0 DEF A!CallerInv
      <4>2. A!resolve.governance \in BOOLEAN
        <5>1. A!BaseAccess \in Accesses
          BY <1>0, BaseFounded
        <5>2. A!resolve.governance = A!BaseAccess.governance
          BY <5>1 DEF A!resolve, A!mergeWalletSessionIntoAccess, Accesses
        <5> QED BY <5>1, <5>2 DEF Accesses
      <4> DEFINE at == IF route.principal THEN "principal" ELSE IF route.anchored THEN "anchor" ELSE "act"
      <4>3. at \in A!CallStages
        BY DEF A!CallStages, A!Checked
      <4>4. x3 \in A!CallWallets
        BY <4>1 DEF A!CallWallets
      <4>5. x4' = [ x4 EXCEPT !.at = at, !.wallet = x3, !.held = A!resolve.governance ]
        BY <3>1
      <4> HIDE DEF at
      <4> QED BY <2>2, <4>2, <4>3, <4>4, <4>5 DEF A!Calls
    <3>4. A!Entitled(route.capability)'
      <4>1. \/ route.capability \in A!BaseAccess.capabilities
            \/ x3 # "none" /\ route.capability \in A!capabilitiesForAccessLevel(A!walletSessionAccessLevel(x3))
        BY <1>0, <2>3, IdentityResolved
      <4>2. A!BaseAccess' = A!BaseAccess
        BY <2>1, SameBase
      <4>3. route' = route
        BY <3>2 DEF route
      <4> QED BY <3>2, <4>1, <4>2, <4>3 DEF A!Entitled
    <3>5. x4'.at \in A!PastAnchor /\ route.anchored => FALSE
      BY <3>2 DEF A!PastAnchor, A!Checked
    <3>6. x4'.at \in A!Checked \ { "audit", "failing" } /\ x4.at \in A!Checked \cup { "authorize" }
      BY <2>1, <3>2 DEF A!Checked
    <3> QED BY <2>1, <2>2, <3>2, <3>3, <3>4, <3>5, <3>6, MovesOn DEF route
  <2>4. CASE ~(route.capability \in A!resolve.capabilities /\ (route.named => A!resolve.named))
    <3>1. \/ x4' = A!Done(401)
          \/ A!recordStoreAudit("blocked", A!Done(A!Refused), A!Done(503))
      BY <1>2, <2>4 DEF A!authorizeStoreCapability
    <3>2. \E status \in { 401, 403, 503 } : x4' = A!Done(status)
      BY <3>1, Recorded DEF A!Refused
    <3> QED BY <2>1, <2>2, <3>2, TurnedAway
  <2> QED BY <2>3, <2>4
<1>3. CASE A!RequirePrincipal
  <2>1. x4.at = "principal" /\ UNCHANGED << x1, x2, x3 >>
    BY <1>3 DEF A!RequirePrincipal
  <2>2. x4 # A!Idle /\ x4 \in A!Calls /\ ~x4.acted /\ x4.actor # "other" /\ x4.at \in A!Checked
    BY <1>a, <1>b, <2>1 DEF A!Checked
  <2>3. CASE x4.held
    <3>1. x4' = [ x4 EXCEPT !.at = "anchor" ]
      BY <1>3, <2>3 DEF A!RequirePrincipal
    <3> QED BY <1>0, <2>1, <2>2, <3>1, PassedOn DEF A!Checked, A!PastAnchor
  <2>4. CASE ~x4.held
    <3>1. \E status \in { 403, 503 } : x4' = A!Done(status)
      BY <1>3, <2>4, Recorded DEF A!RequirePrincipal
    <3> QED BY <2>1, <2>2, <3>1, TurnedAway
  <2> QED BY <2>3, <2>4
<1>4. CASE A!requireAnchoredStoreAddress
  <2>1. x4.at = "anchor" /\ UNCHANGED << x1, x2, x3 >>
    BY <1>4 DEF A!requireAnchoredStoreAddress
  <2>2. x4 # A!Idle /\ x4 \in A!Calls /\ ~x4.acted /\ x4.actor # "other" /\ x4.at \in A!Checked
    BY <1>a, <1>b, <2>1 DEF A!Checked
  <2>3. CASE A!resolve.anchor # "none"
    <3>1. PICK at \in { "tags", "confirm", "act" } : x4' = [ x4 EXCEPT !.at = at, !.actor = A!resolve.anchor ]
      BY <1>4, <2>3 DEF A!requireAnchoredStoreAddress
    <3>2. A!resolve.anchor \in { "wallet", "dev" } /\ (A!Strict => A!resolve.anchor = "wallet")
      BY <1>0, <2>3, IdentityResolved
    <3> QED BY <1>0, <2>1, <2>2, <3>1, <3>2, Anchored
  <2>4. CASE A!resolve.anchor = "none"
    <3>1. \E status \in { 401, 403, 503 } : x4' = A!Done(status)
      BY <1>4, <2>4, Recorded DEF A!requireAnchoredStoreAddress, A!Refused
    <3> QED BY <2>1, <2>2, <3>1, TurnedAway
  <2> QED BY <2>3, <2>4
<1>5. CASE A!AuthorizeTags \/ A!requireStoreConfirmation
  <2>1. x4.at \in { "tags", "confirm" } /\ UNCHANGED << x1, x2, x3 >>
    BY <1>5 DEF A!AuthorizeTags, A!requireStoreConfirmation
  <2>2. x4 # A!Idle /\ x4 \in A!Calls /\ ~x4.acted /\ x4.actor # "other" /\ x4.at \in A!Checked
    BY <1>a, <1>b, <2>1 DEF A!Checked
  <2>3. \/ \E at \in { "confirm", "act" } : x4' = [ x4 EXCEPT !.at = at ]
        \/ \E status \in { 400, 401, 403, 503 } : x4' = A!Done(status)
    BY <1>5, Recorded DEF A!AuthorizeTags, A!requireStoreConfirmation, A!Refused
  <2>4. ASSUME NEW at \in { "confirm", "act" }, x4' = [ x4 EXCEPT !.at = at ] PROVE A!IndInv'
    BY <1>0, <2>1, <2>2, <2>4, PassedOn DEF A!Checked, A!PastAnchor
  <2> QED BY <2>1, <2>2, <2>3, <2>4, TurnedAway
<1>6. ASSUME NEW succeeds \in BOOLEAN, A!Act(succeeds) PROVE A!IndInv'
  <2>1. x4.at = "act" /\ UNCHANGED << x1, x2, x3, x5 >>
    BY <1>6 DEF A!Act
  <2>2. x4 # A!Idle /\ x4 \in A!Calls /\ x4.op \in RouteNames /\ x4.actor # "other" /\ A!Route(x4.op).lane = "store"
    BY <1>a, <1>b, <2>1 DEF A!Checked
  <2>3. /\ x4' \in A!Calls /\ x4' # A!Idle /\ x4'.at \in { "audit", "failing", "done" }
        /\ x4'.op = x4.op /\ x4'.actor = x4.actor /\ x4'.wallet = x4.wallet
        /\ x4'.acted => A!Route(x4.op).writes
        /\ x4'.at = "done" => x4'.status \in { 200, 409 } /\ ~A!Route(x4.op).audited
    <3> DEFINE audited == A!Route(x4.op).audited
               writes == A!Route(x4.op).writes
    <3>1. x4' = [ x4 EXCEPT !.acted = succeeds /\ writes,
                            !.at = IF audited THEN (IF succeeds THEN "audit" ELSE "failing") ELSE "done",
                            !.status = IF audited THEN 0 ELSE IF succeeds THEN 200 ELSE 409 ]
      BY <1>6 DEF A!Act
    <3>2. writes \in BOOLEAN
      BY <2>2, RouteShaped DEF Shaped, RouteRecords
    <3> HIDE DEF audited, writes
    <3>3. x4' \in A!Calls
      <4> DEFINE at == IF audited THEN (IF succeeds THEN "audit" ELSE "failing") ELSE "done"
                 status == IF audited THEN 0 ELSE IF succeeds THEN 200 ELSE 409
      <4>1. at \in A!CallStages /\ status \in A!CallStatuses
        BY DEF A!CallStages, A!Checked, A!CallStatuses
      <4>2. x4' = [ x4 EXCEPT !.acted = succeeds /\ writes, !.at = at, !.status = status ]
        BY <3>1
      <4>3. (succeeds /\ writes) \in BOOLEAN
        OBVIOUS
      <4> HIDE DEF at, status
      <4> QED BY <2>2, <4>1, <4>2, <4>3 DEF A!Calls
    <3>4. /\ x4'.at \in { "audit", "failing", "done" }
          /\ x4'.op = x4.op /\ x4'.actor = x4.actor /\ x4'.wallet = x4.wallet
          /\ x4'.acted => writes
          /\ x4'.at = "done" => x4'.status \in { 200, 409 } /\ ~audited
      BY <2>2, <3>1, <3>2 DEF A!Calls
    <3>5. x4' # A!Idle
      BY <3>4 DEF A!Idle
    <3> QED BY <3>3, <3>4, <3>5 DEF audited, writes
  <2>4. A!AnswersMatchTrail'
    BY <2>3 DEF A!AnswersMatchTrail
  <2>5. x4.at \in A!PastAnchor
    BY <2>1 DEF A!PastAnchor, A!Checked
  <2> QED BY <2>1, <2>2, <2>3, <2>4, <2>5, Worked
<1>7. CASE A!recordStoreCapabilitySuccess \/ A!recordStoreCapabilityFailure
  <2>1. x4.at \in { "audit", "failing" } /\ UNCHANGED << x1, x2, x3 >>
    BY <1>7 DEF A!recordStoreCapabilitySuccess, A!recordStoreCapabilityFailure
  <2>2. x4 # A!Idle /\ x4 \in A!Calls /\ x4.op \in RouteNames /\ x4.actor # "other" /\ A!Route(x4.op).lane = "store"
    BY <1>a, <1>b, <2>1 DEF A!Checked
  <2>3. \/ x4' = A!Done(200) /\ "succeeded" \in x5'
        \/ x4' = A!Done(503)
        \/ x4' = [ x4 EXCEPT !.at = "failing" ]
    BY <1>7, Recorded DEF A!recordStoreCapabilitySuccess, A!recordStoreCapabilityFailure
  <2>4. /\ x4' \in A!Calls /\ x4'.at \in { "failing", "done" }
        /\ x4'.op = x4.op /\ x4'.actor = x4.actor /\ x4'.wallet = x4.wallet /\ x4'.acted = x4.acted
        /\ x4'.at = "done" => x4'.status = 503 \/ (x4'.status = 200 /\ "succeeded" \in x5')
    <3>1. /\ { "failing", "done" } \subseteq A!CallStages /\ { 200, 503 } \subseteq A!CallStatuses
      BY Stages DEF A!Checked
    <3>2. CASE x4' = [ x4 EXCEPT !.at = "failing" ]
      BY <2>2, <3>1, <3>2 DEF A!Calls
    <3>3. ASSUME NEW status \in { 200, 503 }, x4' = A!Done(status)
          PROVE  /\ x4' \in A!Calls /\ x4'.at = "done" /\ x4'.status = status
                 /\ x4'.op = x4.op /\ x4'.actor = x4.actor /\ x4'.wallet = x4.wallet /\ x4'.acted = x4.acted
      BY <2>2, <3>1, <3>3, CallDone
    <3> QED BY <2>3, <3>2, <3>3
  <2>5. x4' # A!Idle
    BY <2>4 DEF A!Idle
  <2>6. A!AnswersMatchTrail'
    BY <2>4 DEF A!AnswersMatchTrail
  <2>7. x4.at \in A!PastAnchor
    BY <2>1 DEF A!PastAnchor, A!Checked
  <2>8. x4'.acted => A!Route(x4.op).writes
    BY <1>0, <2>2, <2>4 DEF A!LaneInv
  <2> QED BY <2>1, <2>2, <2>4, <2>5, <2>6, <2>7, <2>8, Worked
<1>8. ASSUME NEW preflight \in BOOLEAN, A!AdminRequest(preflight) PROVE A!IndInv'
  <2>1. x4.at \in { "admin", "ops" } /\ UNCHANGED << x1, x2, x3 >>
    BY <1>8 DEF A!AdminRequest
  <2>2. x4 # A!Idle /\ x4 \in A!Calls /\ x4.at = A!Route(x4.op).lane /\ ~x4.acted /\ x4.actor # "other"
    BY <1>0, <1>a, <2>1 DEF A!LaneInv, A!PassedInv
  <2>3. \/ x4' = [ A!Done(200) EXCEPT !.acted = TRUE ] /\ A!adminPrincipalFromHeaders
        \/ \E status \in { 403, 503 } : x4' = A!Done(status)
    BY <1>8 DEF A!AdminRequest
  <2>4. CASE x4' = [ A!Done(200) EXCEPT !.acted = TRUE ] /\ A!adminPrincipalFromHeaders
    <3>1. /\ x4' \in A!Calls /\ x4'.at = "done" /\ x4'.op = x4.op /\ x4'.actor = x4.actor /\ x4'.status = 200
      <4>1. 200 \in A!CallStatuses
        BY Stages
      <4>2. /\ A!Done(200) \in A!Calls /\ A!Done(200).at = "done" /\ A!Done(200).op = x4.op
            /\ A!Done(200).actor = x4.actor /\ A!Done(200).status = 200
        BY <2>2, <4>1, CallDone
      <4> DEFINE done == A!Done(200)
      <4>3. x4' = [ done EXCEPT !.acted = TRUE ]
        BY <2>4
      <4> HIDE DEF done
      <4>4. /\ x4' \in A!Calls /\ x4'.at = done.at /\ x4'.op = done.op /\ x4'.actor = done.actor
            /\ x4'.status = done.status
        <5>1. done \in A!Calls
          BY <4>2 DEF done
        <5> QED BY <4>3, <5>1 DEF A!Calls
      <4> QED BY <4>2, <4>4 DEF done
    <3> QED BY <2>1, <2>2, <2>4, <3>1, Elsewhere DEF A!adminPrincipalFromHeaders, A!governanceAdminAllowed, A!Strict
  <2> QED BY <2>1, <2>2, <2>3, <2>4, TurnedAway
<1>9. CASE A!ParticipantRequest
  <2> DEFINE actor == IF x4.at = "participant" THEN A!resolveParticipantWalletIdentity(x4.claimed)
                      ELSE A!resolveEvidencePrincipal(x4.claimed)
  <2>1. x4.at \in { "participant", "evidence" } /\ UNCHANGED << x1, x2, x3 >>
    BY <1>9 DEF A!ParticipantRequest
  <2>2. x4 # A!Idle /\ x4 \in A!Calls /\ x4.at = A!Route(x4.op).lane /\ ~x4.acted /\ x4.actor # "other"
    BY <1>0, <1>a, <2>1 DEF A!LaneInv, A!PassedInv
  <2>3. /\ actor \in { "refused", "own", "other", "admin" }
        /\ actor = "other" => ~A!Strict /\ x3 = "none"
    <3>1. A!resolve.anchor = "none" => x3 = "none"
      BY <1>0, IdentityResolved
    <3>2. x4.claimed \in { "none", "own", "other" }
      BY <2>2 DEF A!Calls
    <3> QED BY <3>1, <3>2 DEF A!resolveParticipantWalletIdentity, A!resolveEvidencePrincipal
  <2>4. \/ x4' = A!Done(401)
        \/ actor # "refused" /\ x4' = [ A!Done(200) EXCEPT !.actor = actor, !.acted = A!Route(x4.op).writes ]
    BY <1>9 DEF A!ParticipantRequest
  <2>5. CASE actor # "refused" /\ x4' = [ A!Done(200) EXCEPT !.actor = actor, !.acted = A!Route(x4.op).writes ]
    <3>1. A!Route(x4.op).writes \in BOOLEAN
      BY <2>2, RouteShaped DEF Shaped, RouteRecords, A!Calls
    <3> HIDE DEF actor
    <3>2. /\ x4' \in A!Calls /\ x4'.at = "done" /\ x4'.op = x4.op /\ x4'.actor = actor /\ x4'.status = 200
      <4>1. actor \in A!CallActors
        BY <2>3, <2>5, Stages
      <4>2. 200 \in A!CallStatuses
        BY Stages
      <4>3. /\ A!Done(200) \in A!Calls /\ A!Done(200).at = "done" /\ A!Done(200).op = x4.op
            /\ A!Done(200).status = 200
        BY <2>2, <4>2, CallDone
      <4> DEFINE writes == A!Route(x4.op).writes
                 done == A!Done(200)
      <4>4. writes \in BOOLEAN /\ x4' = [ done EXCEPT !.actor = actor, !.acted = writes ]
        BY <2>5, <3>1
      <4> HIDE DEF writes, done
      <4>5. /\ x4' \in A!Calls /\ x4'.at = done.at /\ x4'.op = done.op /\ x4'.actor = actor
            /\ x4'.status = done.status
        <5>1. done \in A!Calls
          BY <4>3 DEF done
        <5> QED BY <4>1, <4>4, <5>1 DEF A!Calls
      <4> QED BY <4>3, <4>5 DEF done
    <3> QED BY <2>1, <2>2, <2>3, <3>2, Elsewhere
  <2> QED BY <2>1, <2>2, <2>4, <2>5, TurnedAway
<1>10. CASE A!SessionEnds
  <2>1. x3' = "none" /\ UNCHANGED << x1, x2, x4, x5 >>
    BY <1>10 DEF A!SessionEnds
  <2>2. A!CallerInv'
    BY <1>0, <2>1 DEF A!CallerInv, A!Deployments, A!Callers
  <2>3. A!LaneInv => A!LaneInv'
    BY <2>1 DEF A!LaneInv, A!adminPrincipalFromHeaders, A!governanceAdminAllowed, A!Strict
  <2>4. A!PassedInv => A!PassedInv'
    BY <2>1, SameBase DEF A!PassedInv, A!Entitled, A!Strict
  <2>5. A!AnswersMatchTrail'
    BY <2>1 DEF A!IndInv, A!AnswersMatchTrail
  <2> QED BY <1>0, <2>1, <2>2, <2>3, <2>4, <2>5 DEF A!IndInv
<1>11. CASE UNCHANGED A!accessVars
  <2>1. UNCHANGED << x1, x2, x3, x4, x5 >>
    BY <1>11 DEF A!accessVars
  <2>2. A!CallerInv'
    BY <1>0, <2>1 DEF A!CallerInv, A!Deployments, A!Callers
  <2>3. A!LaneInv => A!LaneInv'
    BY <2>1 DEF A!LaneInv, A!adminPrincipalFromHeaders, A!governanceAdminAllowed, A!Strict
  <2>4. A!PassedInv => A!PassedInv'
    BY <2>1, SameBase DEF A!PassedInv, A!Entitled, A!Strict
  <2>5. A!AnswersMatchTrail'
    BY <2>1 DEF A!IndInv, A!AnswersMatchTrail
  <2> QED BY <1>0, <2>1, <2>2, <2>3, <2>4, <2>5 DEF A!IndInv
<1> QED BY <1>1, <1>2, <1>3, <1>4, <1>5, <1>6, <1>7, <1>8, <1>9, <1>10, <1>11 DEF A!Next

LEMMA AccessFollows == A!IndInv => A!AccessSound
<1> SUFFICES ASSUME A!IndInv PROVE A!AccessSound
  OBVIOUS
<1>0. A!CallerInv /\ (x4 # A!Idle => x4 \in A!Calls /\ A!LaneInv /\ A!PassedInv)
  BY DEF A!IndInv
<1>1. A!BaseAccess \in Accesses /\ Coherent(A!BaseAccess) /\ Founded(A!BaseAccess)
  BY <1>0, BaseFounded
<1>2. A!NoSelfAssertion
  <2> SUFFICES ASSUME A!Strict, x4 # A!Idle, x4.acted PROVE
        /\ A!Route(x4.op).capability # "none" =>
             \/ x2.jwt = "valid" /\ x1.evidence
             \/ x4.wallet # "none" /\ A!Route(x4.op).capability
                                        \in A!capabilitiesForAccessLevel(A!walletSessionAccessLevel(x4.wallet))
        /\ A!Route(x4.op).anchored => x4.actor = "wallet"
        /\ A!Route(x4.op).lane \in { "admin", "ops" } => x2.password /\ x2.listed
    BY DEF A!NoSelfAssertion
  <2>1. Shaped(A!Route(x4.op))
    BY <1>0, RouteShaped DEF A!Calls
  <2>2. A!Route(x4.op).capability # "none" =>
          /\ A!Entitled(A!Route(x4.op).capability)
          /\ A!Route(x4.op).capability \notin A!PublicRead
    BY <1>0, <2>1, Tables DEF A!PassedInv, A!LaneInv, Shaped
  <2>3. A!BaseAccess.capabilities \subseteq A!PublicRead \/ (x2.jwt = "valid" /\ x1.evidence)
    BY <1>1 DEF Founded
  <2>4. A!Route(x4.op).anchored => x4.actor = "wallet"
    BY <1>0 DEF A!PassedInv
  <2>5. A!Route(x4.op).lane \in { "admin", "ops" } => x2.password /\ x2.listed
    <3>1. A!Route(x4.op).lane \in { "admin", "ops" } => A!adminPrincipalFromHeaders
      BY <1>0 DEF A!LaneInv
    <3> QED BY <3>1 DEF A!adminPrincipalFromHeaders, A!governanceAdminAllowed
  <2> QED BY <2>2, <2>3, <2>4, <2>5 DEF A!Entitled
<1>3. A!GovernanceSeparated
  <2> SUFFICES ASSUME x4 # A!Idle, x4.acted,
                      A!Route(x4.op).capability \in A!GovernanceOnly \/ A!Route(x4.op).lane = "admin"
               PROVE  A!governanceAdminAllowed
    BY DEF A!GovernanceSeparated, A!governanceAdminAllowed
  <2>1. CASE A!Route(x4.op).lane = "admin"
    BY <1>0, <2>1 DEF A!LaneInv, A!adminPrincipalFromHeaders
  <2>2. CASE A!Route(x4.op).capability \in A!GovernanceOnly
    <3> DEFINE c == A!Route(x4.op).capability
    <3>1. c # "none"
      BY <2>2 DEF A!GovernanceOnly
    <3>2. A!Entitled(c)
      BY <1>0, <3>1 DEF A!PassedInv
    <3>3. ASSUME x4.wallet # "none"
          PROVE  A!capabilitiesForAccessLevel(A!walletSessionAccessLevel(x4.wallet)) \subseteq A!ADMIN_CAPABILITIES
      <4>1. x4.wallet \in { "plain", "operator", "admin" }
        BY <1>0, <3>3 DEF A!Calls, A!CallWallets
      <4> QED BY <4>1, WalletAdds
    <3>4. c \in A!BaseAccess.capabilities
      BY <2>2, <3>2, <3>3, Tables DEF A!Entitled
    <3>5. A!BaseAccess.governance
      BY <1>1, <2>2, <3>4, Tables DEF Coherent
    <3> QED BY <1>1, <3>5 DEF Founded
  <2> QED BY <2>1, <2>2
<1>4. A!AccessCoherent
  <2> DEFINE access == A!resolve
  <2>1. Coherent(access) /\ access.level \in { "anonymous_read", "store_read", "store_operator", "store_admin" }
    BY <1>0, IdentityResolved
  <2> HIDE DEF access
  <2>2. ASSUME NEW c \in access.capabilities \ A!PublicRead
        PROVE  IF A!storeAccessRequiredLevel(c) = "governance_admin" THEN access.governance
               ELSE A!Rank[access.level] >= A!Rank[A!storeAccessRequiredLevel(c)]
    <3>1. CASE c \in A!GovernanceOnly
      <4>1. A!storeAccessRequiredLevel(c) = "governance_admin"
        BY <3>1, Tables DEF A!storeAccessRequiredLevel
      <4> QED BY <2>1, <3>1, <4>1 DEF Coherent
    <3>2. CASE c \notin A!GovernanceOnly
      <4>1. /\ c \in A!ADMIN_CAPABILITIES
            /\ c \in A!ADMIN_CAPABILITIES \ A!OPERATOR_CAPABILITIES => access.level = "store_admin"
            /\ c \notin A!READ_CAPABILITIES => access.level \in { "store_operator", "store_admin" }
            /\ access.level # "anonymous_read"
        BY <2>1, <3>2 DEF Coherent
      <4>2. CASE c \in A!ADMIN_CAPABILITIES \ A!OPERATOR_CAPABILITIES
        <5>1. A!storeAccessRequiredLevel(c) = "store_admin"
          BY <3>2, <4>2, Tables DEF A!storeAccessRequiredLevel
        <5> QED BY <4>1, <4>2, <5>1 DEF A!Rank
      <4>3. CASE c \in A!READ_CAPABILITIES
        <5>1. A!storeAccessRequiredLevel(c) = "store_read"
          BY <3>2, <4>3, Tables DEF A!storeAccessRequiredLevel
        <5> QED BY <2>1, <4>1, <5>1 DEF A!Rank
      <4>4. CASE c \in A!OPERATOR_CAPABILITIES /\ c \notin A!READ_CAPABILITIES
        <5>1. A!storeAccessRequiredLevel(c) = "store_operator"
          BY <3>2, <4>4 DEF A!storeAccessRequiredLevel
        <5> QED BY <4>1, <4>4, <5>1 DEF A!Rank
      <4> QED BY <4>1, <4>2, <4>3, <4>4
    <3> QED BY <3>1, <3>2
  <2> QED BY <2>1, <2>2 DEF A!AccessCoherent, Coherent, access
<1>5. A!AnswersMatchTrail
  BY DEF A!IndInv
<1>6. A!ActsForOwnWallet
  BY <1>0 DEF A!ActsForOwnWallet, A!PassedInv
<1> QED BY <1>2, <1>3, <1>4, <1>5, <1>6 DEF A!AccessSound

(* Nobody asserts his own rights, those who review and those who broadcast *)
(* stay apart, and the trail agrees with the answer, whatever roles tokens *)
(* carry, whatever routes there are of the tables, and however sessions    *)
(* and the audit store end between the checks of a request.                *)
THEOREM AccessHonest == Spec => []AccessSound
<1> DEFINE Inv == focus = "access" => A!IndInv
<1>1. Init => Inv
  BY AccessInit DEF Init
<1>2. Inv /\ [Next]_allVars => Inv'
  BY FocusStep, AccessStep
<1>3. Inv => AccessSound
  BY AccessFollows DEF AccessSound
<1> QED BY <1>1, <1>2, <1>3, PTL DEF Spec, allVars
-----------------------------------------------------------------------------
(* A set of naturals that is not empty has a least element.                *)
LEMMA LeastOf ==
  ASSUME NEW X, X \subseteq Nat, X # {}
  PROVE  \E x \in X : \A y \in X : x <= y
<1> DEFINE Segments == { 0..x : x \in X }
           Less == StrictSubsetOrdering(Nat)
<1>1. Segments \subseteq FiniteSubsetsOf(Nat) /\ Segments # {}
  <2>1. ASSUME NEW x \in X PROVE 0..x \in FiniteSubsetsOf(Nat)
    <3>1. x \in Int /\ 0 \in Int /\ 0..x \subseteq Nat
      OBVIOUS
    <3>2. IsFiniteSet(0..x)
      BY <3>1, FS_Interval
    <3> QED BY <3>1, <3>2 DEF FiniteSubsetsOf
  <2> QED BY <2>1
<1>2. PICK U \in Segments : \A T \in Segments : << T, U >> \notin Less
  <2> HIDE DEF Segments, Less
  <2>1. IsWellFoundedOn(Less, FiniteSubsetsOf(Nat))
    BY FS_StrictSubsetOrderingWellFounded DEF Less
  <2> QED BY <1>1, <2>1, WFMin
<1>3. PICK x \in X : U = 0..x
  OBVIOUS
<1>4. ASSUME NEW y \in X, y < x PROVE FALSE
  <2>1. 0..y \subseteq 0..x /\ 0..y # 0..x /\ 0..y \in SUBSET Nat /\ 0..x \in SUBSET Nat
    BY <1>4
  <2>2. << 0..y, 0..x >> \in Less
    BY <2>1 DEF StrictSubsetOrdering
  <2> QED BY <1>2, <1>3, <2>2
<1> QED BY <1>4

-----------------------------------------------------------------------------
(* The dock worker: x1 is dockChain, x2 dockProjection, x3 dockPool, x4    *)
(* routeSource, x5 running, x6 run, x7 lastBroadcastAt, x8 attempts, x9    *)
(* rebirths, x10 misdirected and x11 dockTrouble.                          *)

LEMMA DockNumbers == RedeliveryWindow \in Nat /\ MaxPerRun \in Nat /\ MaxDockTrouble \in Nat
BY StoreConstants

(* Of ages that grow along a history, those in the window come first.      *)
LEMMA WindowPrefix ==
  ASSUME NEW s \in Seq(Nat), \A i, j \in DOMAIN s : i <= j => s[i] <= s[j]
  PROVE  /\ K!Aging(K!InWindow(s))
         /\ DOMAIN K!InWindow(s) = { i \in DOMAIN s : s[i] < RedeliveryWindow }
         /\ \A i \in DOMAIN K!InWindow(s) : K!InWindow(s)[i] = s[i]
<1> DEFINE In == { i \in DOMAIN s : s[i] < RedeliveryWindow }
           Out == { i \in DOMAIN s : ~(s[i] < RedeliveryWindow) }
           t == [ i \in In |-> s[i] ]
<1>0. /\ RedeliveryWindow \in Nat /\ Len(s) \in Nat /\ DOMAIN s = 1..Len(s)
      /\ \A i \in DOMAIN s : i \in Nat /\ i > 0 /\ s[i] \in Nat
  BY DockNumbers
<1>1. K!InWindow(s) = t
  BY DEF K!InWindow
<1>2. PICK n \in Nat : In = 1..n
  <2>1. CASE Out = {}
    <3>1. In = 1..Len(s)
      BY <1>0, <2>1
    <3> QED BY <1>0, <3>1
  <2>2. CASE Out # {}
    <3>1. Out \subseteq Nat
      BY <1>0
    <3>2. PICK o \in Out : \A i \in Out : o <= i
      <4> HIDE DEF Out
      <4> QED BY <2>2, <3>1, LeastOf
    <3>3. o - 1 \in Nat /\ o \in DOMAIN s /\ s[o] \in Nat /\ o \in Nat
      BY <1>0, <3>2
    <3>4. ASSUME NEW i \in In PROVE i \in 1..(o - 1)
      <4>1. i \in DOMAIN s /\ s[i] < RedeliveryWindow /\ ~(s[o] < RedeliveryWindow)
        BY <3>2
      <4>2. i \in Nat /\ i > 0 /\ s[i] \in Nat
        BY <1>0, <4>1
      <4>3. ~(o <= i)
        BY <1>0, <3>3, <4>1, <4>2
      <4> QED BY <3>3, <4>2, <4>3
    <3>5. ASSUME NEW i \in 1..(o - 1) PROVE i \in In
      <4>1. i \in DOMAIN s /\ ~(o <= i)
        BY <1>0, <3>3
      <4>2. i \notin Out
        BY <3>2, <4>1
      <4> QED BY <4>1, <4>2
    <3> QED BY <3>3, <3>4, <3>5
  <2> QED BY <2>1, <2>2
<1>3. t \in Seq(Nat) /\ DOMAIN t = In
  <2>1. DOMAIN t = 1..n /\ \A i \in 1..n : t[i] \in Nat
    BY <1>0, <1>2
  <2>2. t \in [ 1..n -> Nat ]
    BY <1>2, <2>1
  <2>3. t \in Seq(Nat)
    BY <1>2, <2>2, SeqDef
  <2> QED BY <1>2, <2>1, <2>3
<1>4. /\ \A i \in DOMAIN t : t[i] < RedeliveryWindow /\ t[i] = s[i]
      /\ \A i, j \in DOMAIN t : i <= j => t[i] <= t[j]
  BY <1>3
<1> HIDE DEF t
<1> QED BY <1>1, <1>3, <1>4 DEF K!Aging

LEMMA NowAges ==
  ASSUME NEW s, K!Aging(s)
  PROVE  /\ K!Aging(K!Now(s))
         /\ \A i \in DOMAIN K!Now(s) : (i = 1 /\ K!Now(s)[i] = 0) \/ (i - 1 \in DOMAIN s /\ K!Now(s)[i] = s[i - 1])
         /\ 0 < RedeliveryWindow => 1 \in DOMAIN K!Now(s) /\ \A i \in DOMAIN s : i + 1 \in DOMAIN K!Now(s)
<1> DEFINE t == << 0 >> \o s
<1>0. RedeliveryWindow \in Nat /\ s \in Seq(Nat) /\ Len(s) \in Nat /\ DOMAIN s = 1..Len(s)
  BY DockNumbers DEF K!Aging
<1>1. t \in Seq(Nat) /\ DOMAIN t = 1..(Len(s) + 1) /\ t[1] = 0
  BY <1>0
<1>2. \A i \in DOMAIN t : i # 1 => i - 1 \in DOMAIN s /\ t[i] = s[i - 1]
  BY <1>0, <1>1
<1>3. \A i \in DOMAIN s : s[i] \in Nat /\ s[i] < RedeliveryWindow /\ t[i + 1] = s[i] /\ i + 1 \in DOMAIN t
  BY <1>0, <1>1 DEF K!Aging
<1> HIDE DEF t
<1>4. \A i, j \in DOMAIN t : i <= j => t[i] <= t[j]
  <2> SUFFICES ASSUME NEW i \in DOMAIN t, NEW j \in DOMAIN t, i <= j PROVE t[i] <= t[j]
    OBVIOUS
  <2>1. CASE i = 1
    <3>1. t[j] \in Nat
      BY <1>1
    <3> QED BY <1>1, <2>1, <3>1
  <2>2. CASE i # 1
    <3>1. i \in Nat /\ j \in Nat /\ j # 1 /\ i - 1 <= j - 1
      BY <1>0, <1>1, <2>2
    <3> QED BY <1>2, <2>2, <3>1 DEF K!Aging
  <2> QED BY <2>1, <2>2
<1>5. K!Now(s) = K!InWindow(t)
  BY DEF K!Now, t
<1>6. /\ K!Aging(K!Now(s))
      /\ DOMAIN K!Now(s) = { i \in DOMAIN t : t[i] < RedeliveryWindow }
      /\ \A i \in DOMAIN K!Now(s) : K!Now(s)[i] = t[i]
  BY <1>1, <1>4, <1>5, WindowPrefix
<1>7. 0 < RedeliveryWindow => 1 \in DOMAIN K!Now(s)
  BY <1>0, <1>1, <1>6
<1>8. ASSUME NEW i \in DOMAIN s PROVE i + 1 \in DOMAIN K!Now(s)
  <2>1. i + 1 \in DOMAIN t /\ t[i + 1] < RedeliveryWindow
    BY <1>3
  <2> QED BY <1>6, <2>1
<1>9. ASSUME NEW i \in DOMAIN K!Now(s)
      PROVE  (i = 1 /\ K!Now(s)[i] = 0) \/ (i - 1 \in DOMAIN s /\ K!Now(s)[i] = s[i - 1])
  <2>1. i \in DOMAIN t /\ K!Now(s)[i] = t[i]
    BY <1>6
  <2>2. CASE i = 1
    <3>1. K!Now(s)[i] = 0
      BY <1>1, <2>1, <2>2
    <3> QED BY <2>2, <3>1
  <2>3. CASE i # 1
    BY <1>2, <2>1, <2>3
  <2> QED BY <2>2, <2>3
<1> QED BY <1>6, <1>7, <1>8, <1>9

LEMMA OlderAges ==
  ASSUME NEW s, K!Aging(s)
  PROVE  /\ K!Aging(K!Older(s))
         /\ DOMAIN K!Older(s) = { i \in DOMAIN s : s[i] + 1 < RedeliveryWindow }
         /\ \A i \in DOMAIN K!Older(s) : K!Older(s)[i] = s[i] + 1
<1> DEFINE t == [ i \in DOMAIN s |-> s[i] + 1 ]
<1>0. RedeliveryWindow \in Nat /\ s \in Seq(Nat) /\ Len(s) \in Nat /\ DOMAIN s = 1..Len(s)
  BY DockNumbers DEF K!Aging
<1>1. t \in Seq(Nat) /\ DOMAIN t = DOMAIN s /\ \A i \in DOMAIN s : t[i] = s[i] + 1 /\ s[i] \in Nat
  BY <1>0
<1> HIDE DEF t
<1>2. \A i, j \in DOMAIN t : i <= j => t[i] <= t[j]
  BY <1>0, <1>1 DEF K!Aging
<1>3. K!Older(s) = K!InWindow(t)
  BY DEF K!Older, t
<1>4. { i \in DOMAIN t : t[i] < RedeliveryWindow } = { i \in DOMAIN s : s[i] + 1 < RedeliveryWindow }
  BY <1>1
<1> QED BY <1>1, <1>2, <1>3, <1>4, WindowPrefix

LEMMA DockInit == K!Init => K!IndInv
<1> SUFFICES ASSUME K!Init PROVE K!IndInv
  OBVIOUS
<1>1. K!DockTypeOK
  <2>1. x6 \in [ checking : BOOLEAN, queue : SUBSET K!DockKeys, submitted : 0..MaxPerRun ]
    BY DockNumbers DEF K!Init, K!NoRun
  <2>2. x7 \in [ K!DockKeys -> 0..RedeliveryWindow ] /\ x11 \in 0..MaxDockTrouble
    BY DockNumbers DEF K!Init
  <2>3. /\ x1 \in [ facts : SUBSET K!DockKeys, done : SUBSET K!DockKeys ]
        /\ x2 \in [ facts : SUBSET K!DockKeys, done : SUBSET K!DockKeys ]
        /\ x3 \subseteq K!DockKeys /\ x4 \in { "good", "malformed" } /\ x5 \in BOOLEAN
    BY DEF K!Init, K!NoFacts
  <2> QED BY <2>1, <2>2, <2>3 DEF K!DockTypeOK
<1>2. K!Aging(<< >>) /\ DOMAIN << >> = {}
  BY DEF K!Aging
<1>3. K!Aging(x9) /\ x9 = << >> /\ DOMAIN x8 = K!DockKeys
  BY <1>2 DEF K!Init
<1>4. ASSUME NEW k \in K!DockKeys PROVE K!WindowInv(k)
  <2>1. x8[k] = << >> /\ ~K!Held(k)
    BY DockNumbers DEF K!Init, K!Held
  <2> QED BY <1>2, <2>1 DEF K!WindowInv
<1>5. K!FactInv
  BY DEF K!Init, K!FactInv, K!NoFacts, K!NoRun, K!SupportedByFact
<1> QED BY <1>1, <1>3, <1>4, <1>5 DEF K!IndInv

(* A round only lists what the snapshot shows to be a fact.                *)
LEMMA CandidatesAreFacts ==
  ASSUME NEW snap
  PROVE  K!Candidates(snap) \subseteq K!DockKeys \cap snap.facts
<1> SUFFICES ASSUME NEW r \in K!RouteNumbers, NEW k \in K!RouteCandidates(snap, r)
             PROVE  k \in K!DockKeys \cap snap.facts
  BY DEF K!Candidates
<1>1. K!DockOf(snap, r) \subseteq {r}
  BY DEF K!DockOf
<1>2. \/ k = << r, "open" >> /\ K!entranceHookReady(snap, r)
      \/ k \in K!DockOf(snap, r) \X {"input"} /\ K!inputHookReady(snap, r)
      \/ k \in K!DockOf(snap, r) \X {"output"} /\ K!targetFactExists(snap, r)
  BY DEF K!RouteCandidates
<1> QED BY <1>1, <1>2 DEF K!entranceHookReady, K!inputHookReady, K!targetFactExists, K!DockKeys, K!StepKinds

(* An attempt takes the window of its key and leaves those of others.      *)
LEMMA DockAttempt ==
  ASSUME K!IndInv, NEW key \in K!DockKeys, K!Attempt(key), x9' = x9, x1' = x1
  PROVE  /\ x7' \in [ K!DockKeys -> 0..RedeliveryWindow ] /\ DOMAIN x8' = K!DockKeys
         /\ \A k \in K!DockKeys : K!WindowInv(k)'
         /\ x10' = FALSE /\ x6.submitted < MaxPerRun
<1>0. /\ x7 \in [ K!DockKeys -> 0..RedeliveryWindow ] /\ DOMAIN x8 = K!DockKeys
      /\ x7' = [ x7 EXCEPT ![key] = 0 ] /\ x8' = [ x8 EXCEPT ![key] = K!Now(x8[key]) ]
      /\ ~K!Held(key) /\ key \in x6.queue /\ x6.submitted < MaxPerRun /\ x10' = (x10 \/ key \notin x1.facts)
      /\ RedeliveryWindow \in Nat
  BY DockNumbers DEF K!IndInv, K!DockTypeOK, K!Attempt, K!Due
<1>1. x7' \in [ K!DockKeys -> 0..RedeliveryWindow ] /\ DOMAIN x8' = K!DockKeys
  BY <1>0
<1>2. x10' = FALSE
  BY <1>0 DEF K!IndInv, K!FactInv, K!SupportedByFact
<1>3. ASSUME NEW k \in K!DockKeys, k # key PROVE K!WindowInv(k)'
  <2>1. x8'[k] = x8[k] /\ x7'[k] = x7[k]
    BY <1>0, <1>3
  <2> QED BY <2>1 DEF K!IndInv, K!WindowInv, K!Held
<1>4. K!WindowInv(key)'
  <2>1. PICK s : s = x8[key]
    OBVIOUS
  <2>2. K!Aging(s) /\ \A i \in DOMAIN s : i \in DOMAIN x9 /\ x9[i] <= s[i]
    BY <1>0, <2>1 DEF K!IndInv, K!WindowInv
  <2>3. x8'[key] = K!Now(s) /\ x7'[key] = 0
    BY <1>0, <2>1
  <2>4. /\ K!Aging(K!Now(s))
        /\ \A i \in DOMAIN K!Now(s) : (i = 1 /\ K!Now(s)[i] = 0) \/ (i - 1 \in DOMAIN s /\ K!Now(s)[i] = s[i - 1])
        /\ 0 < RedeliveryWindow => 1 \in DOMAIN K!Now(s)
    BY <2>2, NowAges
  <2>5. \A i \in DOMAIN K!Now(s) : i > 1 => i - 1 \in DOMAIN x9 /\ x9[i - 1] <= K!Now(s)[i]
    BY <2>2, <2>4
  <2>6. 0 < RedeliveryWindow => 1 \in DOMAIN K!Now(s) /\ K!Now(s)[1] = 0
    <3> SUFFICES ASSUME 0 < RedeliveryWindow PROVE 1 \in DOMAIN K!Now(s) /\ K!Now(s)[1] = 0
      OBVIOUS
    <3>1. 1 \in DOMAIN K!Now(s)
      BY <2>4
    <3>2. ~(0 \in DOMAIN s)
      BY <2>2 DEF K!Aging
    <3> QED BY <2>4, <3>1, <3>2
  <2>7. ~(0 < RedeliveryWindow) => DOMAIN K!Now(s) = {}
    <3>1. \A i \in DOMAIN K!Now(s) : K!Now(s)[i] \in Nat /\ K!Now(s)[i] < RedeliveryWindow
      BY <2>4 DEF K!Aging
    <3>2. ASSUME NEW i \in DOMAIN K!Now(s) PROVE 0 < RedeliveryWindow
      <4>1. K!Now(s)[i] \in Nat /\ K!Now(s)[i] < RedeliveryWindow
        BY <3>1
      <4> QED BY <1>0, <4>1
    <3> QED BY <3>2
  <2>8. K!Held(key)' <=> 0 < RedeliveryWindow
    BY <2>3 DEF K!Held
  <2> QED BY <2>3, <2>4, <2>5, <2>6, <2>7, <2>8 DEF K!WindowInv
<1> QED BY <1>0, <1>1, <1>2, <1>3, <1>4

(* A restart forgets the windows, and is the newest of the restarts.       *)
LEMMA DockRestart ==
  ASSUME K!IndInv, K!Restart
  PROVE  K!IndInv'
<1>0. /\ UNCHANGED << x1, x2, x3, x4, x8, x10 >> /\ x5' = FALSE /\ x6' = K!NoRun
      /\ x7' = [ k \in K!DockKeys |-> RedeliveryWindow ] /\ x9' = K!Now(x9)
      /\ x11 < MaxDockTrouble /\ x11' = x11 + 1 /\ K!Aging(x9) /\ RedeliveryWindow \in Nat
      /\ K!DockTypeOK
  BY DockNumbers DEF K!IndInv, K!Restart
<1>1. K!DockTypeOK'
  <2>1. x6' \in [ checking : BOOLEAN, queue : SUBSET K!DockKeys, submitted : 0..MaxPerRun ]
    BY <1>0, DockNumbers DEF K!NoRun
  <2>2. x7' \in [ K!DockKeys -> 0..RedeliveryWindow ] /\ x11' \in 0..MaxDockTrouble
    BY <1>0, DockNumbers DEF K!DockTypeOK
  <2>3. x3' \subseteq K!DockKeys
    BY <1>0 DEF K!DockTypeOK
  <2> QED BY <1>0, <2>1, <2>2, <2>3 DEF K!DockTypeOK
<1>2. /\ K!Aging(K!Now(x9))
      /\ \A i \in DOMAIN K!Now(x9) : (i = 1 /\ K!Now(x9)[i] = 0) \/ (i - 1 \in DOMAIN x9 /\ K!Now(x9)[i] = x9[i - 1])
      /\ 0 < RedeliveryWindow => 1 \in DOMAIN K!Now(x9) /\ \A i \in DOMAIN x9 : i + 1 \in DOMAIN K!Now(x9)
  BY <1>0, NowAges
<1>3. ASSUME NEW k \in K!DockKeys PROVE K!WindowInv(k)'
  <2>1. PICK s : s = x8[k]
    OBVIOUS
  <2>2. K!Aging(s) /\ \A i \in DOMAIN s : i > 1 => i - 1 \in DOMAIN x9 /\ x9[i - 1] <= s[i]
    BY <2>1 DEF K!IndInv, K!WindowInv
  <2>3. x8'[k] = s /\ ~K!Held(k)'
    BY <1>0, <2>1 DEF K!Held
  <2>4. \A i \in DOMAIN s : i \in Nat /\ i > 0 /\ s[i] \in Nat /\ s[i] < RedeliveryWindow
    BY <2>2 DEF K!Aging
  <2>5. ASSUME NEW i \in DOMAIN s PROVE i \in DOMAIN K!Now(x9) /\ K!Now(x9)[i] <= s[i]
    <3>0. 0 < RedeliveryWindow /\ ~(0 \in DOMAIN x9)
      BY <1>0, <2>4 DEF K!Aging
    <3>1. CASE i = 1
      BY <1>2, <2>4, <3>0, <3>1
    <3>2. CASE i # 1
      <4>1. i > 1 /\ i - 1 \in DOMAIN x9 /\ x9[i - 1] <= s[i] /\ (i - 1) + 1 = i
        BY <2>2, <2>4, <3>2
      <4>2. i \in DOMAIN K!Now(x9)
        BY <1>2, <3>0, <4>1
      <4> QED BY <1>2, <3>2, <4>1, <4>2
    <3> QED BY <3>1, <3>2
  <2>6. \A i \in DOMAIN s : i > 1 => i - 1 \in DOMAIN K!Now(x9) /\ K!Now(x9)[i - 1] <= s[i]
    <3> SUFFICES ASSUME NEW i \in DOMAIN s, i > 1 PROVE i - 1 \in DOMAIN K!Now(x9) /\ K!Now(x9)[i - 1] <= s[i]
      OBVIOUS
    <3>1. i - 1 \in DOMAIN s /\ s[i - 1] <= s[i] /\ s[i - 1] \in Nat /\ s[i] \in Nat
      BY <2>2, <2>4 DEF K!Aging
    <3>2. i - 1 \in DOMAIN K!Now(x9) /\ K!Now(x9)[i - 1] <= s[i - 1]
      BY <2>5, <3>1
    <3>3. K!Now(x9)[i - 1] \in Nat
      BY <1>2, <3>2 DEF K!Aging
    <3> QED BY <3>1, <3>2, <3>3
  <2> QED BY <1>0, <2>2, <2>3, <2>5, <2>6 DEF K!WindowInv
<1>4. K!FactInv'
  BY <1>0 DEF K!IndInv, K!FactInv, K!SupportedByFact, K!NoRun
<1> QED BY <1>0, <1>1, <1>2, <1>3, <1>4 DEF K!IndInv

(* A tick ages everything; what leaves the window leaves the histories, a  *)
(* restart never before the attempts it separates.                         *)
LEMMA DockTick ==
  ASSUME K!IndInv, K!Tick
  PROVE  K!IndInv'
<1>0. /\ UNCHANGED << x1, x2, x3, x4, x5, x6, x10, x11 >> /\ K!DockTypeOK
      /\ x7' = [ k \in K!DockKeys |-> IF x7[k] < RedeliveryWindow THEN x7[k] + 1 ELSE RedeliveryWindow ]
      /\ x8' = [ k \in K!DockKeys |-> K!Older(x8[k]) ] /\ x9' = K!Older(x9)
      /\ K!Aging(x9) /\ RedeliveryWindow \in Nat
      /\ x7 \in [ K!DockKeys -> 0..RedeliveryWindow ]
  BY DockNumbers DEF K!IndInv, K!Tick, K!DockTypeOK
<1>1. K!DockTypeOK'
  <2>1. x7' \in [ K!DockKeys -> 0..RedeliveryWindow ]
    BY <1>0
  <2> QED BY <1>0, <2>1 DEF K!DockTypeOK
<1>2. PICK r : r = x9' /\ K!Aging(r) /\ DOMAIN r = { i \in DOMAIN x9 : x9[i] + 1 < RedeliveryWindow }
               /\ \A i \in DOMAIN r : r[i] = x9[i] + 1
  BY <1>0, OlderAges
<1>3. ASSUME NEW k \in K!DockKeys PROVE K!WindowInv(k)'
  <2>1. PICK s : s = x8[k]
    OBVIOUS
  <2>2. /\ K!Aging(s) /\ \A i \in DOMAIN s : i > 1 => i - 1 \in DOMAIN x9 /\ x9[i - 1] <= s[i]
        /\ K!Held(k) => 1 \in DOMAIN s /\ s[1] = x7[k]
        /\ ~K!Held(k) => \A i \in DOMAIN s : i \in DOMAIN x9 /\ x9[i] <= s[i]
    BY <2>1 DEF K!IndInv, K!WindowInv
  <2>3. PICK t : t = x8'[k] /\ K!Aging(t) /\ DOMAIN t = { i \in DOMAIN s : s[i] + 1 < RedeliveryWindow }
                 /\ \A i \in DOMAIN t : t[i] = s[i] + 1
    BY <1>0, <2>1, <2>2, OlderAges
  <2>4. /\ \A i \in DOMAIN s : i \in Nat /\ i > 0 /\ s[i] \in Nat /\ s[i] < RedeliveryWindow
        /\ \A i \in DOMAIN x9 : i \in Nat /\ i > 0 /\ x9[i] \in Nat
    BY <1>0, <2>2 DEF K!Aging
  <2>5. \A i \in DOMAIN t : i > 1 => i - 1 \in DOMAIN r /\ r[i - 1] <= t[i]
    <3> SUFFICES ASSUME NEW i \in DOMAIN t, i > 1 PROVE i - 1 \in DOMAIN r /\ r[i - 1] <= t[i]
      OBVIOUS
    <3>1. i \in DOMAIN s /\ s[i] + 1 < RedeliveryWindow /\ t[i] = s[i] + 1 /\ s[i] \in Nat
      BY <2>3, <2>4
    <3>2. i - 1 \in DOMAIN x9 /\ x9[i - 1] <= s[i] /\ x9[i - 1] \in Nat
      BY <2>2, <2>4, <3>1
    <3>3. i - 1 \in DOMAIN r
      BY <1>0, <1>2, <3>1, <3>2
    <3> QED BY <1>2, <3>1, <3>2, <3>3
  <2>6. CASE K!Held(k)
    <3>1. 1 \in DOMAIN s /\ s[1] = x7[k] /\ x7[k] \in Nat /\ x7[k] < RedeliveryWindow /\ x7'[k] = x7[k] + 1
      BY <1>0, <2>2, <2>6 DEF K!Held
    <3>2. CASE x7[k] + 1 < RedeliveryWindow
      <4>1. 1 \in DOMAIN t /\ t[1] = x7'[k] /\ K!Held(k)'
        BY <2>3, <3>1, <3>2 DEF K!Held
      <4> QED BY <1>2, <2>3, <2>5, <4>1 DEF K!WindowInv
    <3>3. CASE ~(x7[k] + 1 < RedeliveryWindow)
      <4>1. ASSUME NEW i \in DOMAIN t PROVE FALSE
        <5>1. i \in DOMAIN s /\ s[i] + 1 < RedeliveryWindow /\ s[1] <= s[i] /\ s[i] \in Nat
          BY <2>2, <2>3, <2>4, <3>1 DEF K!Aging
        <5> QED BY <1>0, <3>1, <3>3, <5>1
      <4>2. ~K!Held(k)'
        BY <1>0, <3>1, <3>3 DEF K!Held
      <4> QED BY <1>2, <2>3, <4>1, <4>2 DEF K!WindowInv
    <3> QED BY <3>2, <3>3
  <2>7. CASE ~K!Held(k)
    <3>1. ~K!Held(k)'
      BY <1>0, <2>7 DEF K!Held
    <3>2. ASSUME NEW i \in DOMAIN t PROVE i \in DOMAIN r /\ r[i] <= t[i]
      <4>1. i \in DOMAIN s /\ s[i] + 1 < RedeliveryWindow /\ t[i] = s[i] + 1 /\ s[i] \in Nat
        BY <2>3, <2>4
      <4>2. i \in DOMAIN x9 /\ x9[i] <= s[i] /\ x9[i] \in Nat
        BY <2>2, <2>4, <2>7, <4>1
      <4>3. i \in DOMAIN r
        BY <1>0, <1>2, <4>1, <4>2
      <4> QED BY <1>2, <4>1, <4>2, <4>3
    <3> QED BY <1>2, <2>3, <2>5, <3>1, <3>2 DEF K!WindowInv
  <2> QED BY <2>6, <2>7
<1>4. K!FactInv'
  BY <1>0 DEF K!IndInv, K!FactInv, K!SupportedByFact
<1> QED BY <1>0, <1>1, <1>2, <1>3, <1>4 DEF K!IndInv

LEMMA DockStep == K!IndInv /\ [K!Next]_(K!dockVars) => K!IndInv'
<1> SUFFICES ASSUME K!IndInv, [K!Next]_(K!dockVars) PROVE K!IndInv'
  OBVIOUS
<1>0. K!DockTypeOK /\ K!FactInv /\ K!Aging(x9) /\ DOMAIN x8 = K!DockKeys
  BY DEF K!IndInv
<1>1. ASSUME UNCHANGED << x7, x8, x9 >>, K!DockTypeOK', K!FactInv' PROVE K!IndInv'
  <2>1. \A k \in K!DockKeys : K!WindowInv(k)'
    BY <1>1 DEF K!IndInv, K!WindowInv, K!Held
  <2> QED BY <1>0, <1>1, <2>1 DEF K!IndInv
<1>2. CASE UNCHANGED K!dockVars
  <2>1. K!DockTypeOK' /\ K!FactInv'
    BY <1>0, <1>2 DEF K!dockVars, K!DockTypeOK, K!FactInv, K!SupportedByFact
  <2> QED BY <1>1, <1>2, <2>1 DEF K!dockVars
<1>3. CASE K!Start \/ K!Stop \/ K!SourceRepaired
  <2>1. K!DockTypeOK' /\ K!FactInv'
    <3>1. /\ UNCHANGED << x1, x2, x3, x6, x7, x8, x9, x10 >> /\ x4' \in { x4, "good" } /\ x5' \in BOOLEAN
          /\ x11' = x11 \/ (x11 < MaxDockTrouble /\ x11' = x11 + 1)
      BY <1>0, <1>3 DEF K!Start, K!Stop, K!SourceRepaired, K!DockTypeOK
    <3>2. x11' \in 0..MaxDockTrouble
      BY <1>0, <3>1, DockNumbers DEF K!DockTypeOK
    <3>3. K!DockTypeOK'
      BY <1>0, <3>1, <3>2 DEF K!DockTypeOK
    <3> QED BY <1>0, <3>1, <3>3 DEF K!FactInv, K!SupportedByFact
  <2> QED BY <1>1, <1>3, <2>1 DEF K!Start, K!Stop, K!SourceRepaired
<1>4. CASE K!RunStarts
  <2>1. UNCHANGED << x1, x2, x3, x4, x5, x7, x8, x9, x10, x11 >>
        /\ x6' = [ checking |-> TRUE, queue |-> K!Candidates(x2), submitted |-> 0 ]
    BY <1>4 DEF K!RunStarts
  <2>2. K!Candidates(x2) \subseteq K!DockKeys \cap x2.facts
    BY CandidatesAreFacts
  <2>3. K!DockTypeOK' /\ K!FactInv'
    BY <1>0, <2>1, <2>2, DockNumbers DEF K!DockTypeOK, K!FactInv, K!SupportedByFact
  <2> QED BY <1>1, <2>1, <2>3
<1>5. CASE K!RunEnds \/ K!SubmitDeduplicated
  <2>1. /\ UNCHANGED << x1, x2, x3, x4, x5, x7, x8, x9, x10, x11 >>
        /\ x6' = K!NoRun \/ \E key \in K!DockKeys : x6' = [ x6 EXCEPT !.queue = @ \ {key} ]
    BY <1>5 DEF K!RunEnds, K!SubmitDeduplicated
  <2>2. x6' \in [ checking : BOOLEAN, queue : SUBSET K!DockKeys, submitted : 0..MaxPerRun ]
        /\ x6'.queue \subseteq x6.queue
    <3>1. CASE x6' = K!NoRun
      BY <3>1, DockNumbers DEF K!NoRun
    <3>2. ASSUME NEW key \in K!DockKeys, x6' = [ x6 EXCEPT !.queue = @ \ {key} ]
          PROVE  x6' \in [ checking : BOOLEAN, queue : SUBSET K!DockKeys, submitted : 0..MaxPerRun ]
                 /\ x6'.queue \subseteq x6.queue
      BY <1>0, <3>2 DEF K!DockTypeOK
    <3> QED BY <2>1, <3>1, <3>2
  <2>3. K!DockTypeOK' /\ K!FactInv'
    BY <1>0, <2>1, <2>2 DEF K!DockTypeOK, K!FactInv, K!SupportedByFact
  <2> QED BY <1>1, <2>1, <2>3
<1>6. CASE K!SubmitAccepted \/ K!SubmitRefused
  <2>1. PICK key \in K!DockKeys :
          /\ K!Attempt(key) /\ UNCHANGED << x1, x2, x4, x5, x9 >>
          /\ x3' \subseteq x3 \cup {key} /\ (x11' = x11 \/ (x11 < MaxDockTrouble /\ x11' = x11 + 1))
          /\ \/ x6' = [ x6 EXCEPT !.queue = @ \ {key}, !.submitted = @ + 1 ]
             \/ x6' = [ x6 EXCEPT !.queue = @ \ {key} ]
    <3>1. CASE K!SubmitAccepted
      BY <3>1 DEF K!SubmitAccepted, K!Attempt
    <3>2. CASE K!SubmitRefused
      BY <3>2 DEF K!SubmitRefused, K!Attempt
    <3> QED BY <1>6, <3>1, <3>2
  <2>2. /\ x7' \in [ K!DockKeys -> 0..RedeliveryWindow ] /\ DOMAIN x8' = K!DockKeys
        /\ \A k \in K!DockKeys : K!WindowInv(k)'
        /\ x10' = FALSE /\ x6.submitted < MaxPerRun
    BY <2>1, DockAttempt
  <2>3. x6' \in [ checking : BOOLEAN, queue : SUBSET K!DockKeys, submitted : 0..MaxPerRun ]
        /\ x6'.queue \subseteq x6.queue
    <3>1. /\ x6 \in [ checking : BOOLEAN, queue : SUBSET K!DockKeys, submitted : 0..MaxPerRun ]
          /\ x6.submitted + 1 \in 0..MaxPerRun
      BY <1>0, <2>2, DockNumbers DEF K!DockTypeOK
    <3>2. CASE x6' = [ x6 EXCEPT !.queue = @ \ {key}, !.submitted = @ + 1 ]
      BY <3>1, <3>2
    <3>3. CASE x6' = [ x6 EXCEPT !.queue = @ \ {key} ]
      BY <3>1, <3>3
    <3> QED BY <2>1, <3>2, <3>3
  <2>4. K!DockTypeOK'
    <3>1. x11' \in 0..MaxDockTrouble /\ x3' \subseteq K!DockKeys
      BY <1>0, <2>1, DockNumbers DEF K!DockTypeOK
    <3> QED BY <1>0, <2>1, <2>2, <2>3, <3>1 DEF K!DockTypeOK
  <2>5. K!FactInv'
    BY <1>0, <2>1, <2>2, <2>3 DEF K!FactInv, K!SupportedByFact
  <2> QED BY <1>0, <2>1, <2>2, <2>4, <2>5 DEF K!IndInv
<1>7. CASE K!Restart
  BY <1>7, DockRestart
<1>8. CASE K!FactHappens \/ K!OpenedByHand
  <2>1. /\ UNCHANGED << x2, x3, x4, x5, x6, x7, x8, x9, x10, x11 >>
        /\ x1' \in [ facts : SUBSET K!DockKeys, done : SUBSET K!DockKeys ] /\ x1.facts \subseteq x1'.facts
    <3>1. CASE K!FactHappens
      BY <1>0, <3>1 DEF K!FactHappens, K!DockTypeOK
    <3>2. CASE K!OpenedByHand
      <4>1. PICK r \in Twins : << r, "open" >> \in x1.facts \ x1.done
                               /\ x1' = [ x1 EXCEPT !.done = @ \cup {<< r, "open" >>} ]
        BY <3>2 DEF K!OpenedByHand
      <4>2. << r, "open" >> \in K!DockKeys
        BY <1>0, <4>1 DEF K!DockTypeOK
      <4> QED BY <1>0, <3>2, <4>1, <4>2 DEF K!OpenedByHand, K!DockTypeOK
    <3> QED BY <1>8, <3>1, <3>2
  <2>2. K!DockTypeOK' /\ K!FactInv'
    BY <1>0, <2>1 DEF K!DockTypeOK, K!FactInv, K!SupportedByFact
  <2> QED BY <1>1, <2>1, <2>2
<1>9. CASE K!TransactionMined \/ K!TransactionLost
  <2>1. /\ UNCHANGED << x2, x4, x5, x6, x7, x8, x9, x10 >> /\ x3' \subseteq x3
        /\ x1' \in [ facts : SUBSET K!DockKeys, done : SUBSET K!DockKeys ] /\ x1.facts \subseteq x1'.facts
        /\ (x11' = x11 \/ (x11 < MaxDockTrouble /\ x11' = x11 + 1))
    <3>1. CASE K!TransactionMined
      <4>1. PICK k \in x3 : x3' = x3 \ {k} /\ (x1' = [ x1 EXCEPT !.done = @ \cup {k} ] \/ x1' = x1)
        BY <3>1 DEF K!TransactionMined
      <4> QED BY <1>0, <3>1, <4>1 DEF K!TransactionMined, K!DockTypeOK
    <3>2. CASE K!TransactionLost
      BY <1>0, <3>2 DEF K!TransactionLost, K!DockTypeOK
    <3> QED BY <1>9, <3>1, <3>2
  <2>2. K!DockTypeOK' /\ K!FactInv'
    BY <1>0, <2>1, DockNumbers DEF K!DockTypeOK, K!FactInv, K!SupportedByFact
  <2> QED BY <1>1, <2>1, <2>2
<1>10. CASE K!IndexCatchesUp
  <2>1. UNCHANGED << x1, x3, x4, x5, x6, x7, x8, x9, x10, x11 >> /\ x2' = x1
    BY <1>10 DEF K!IndexCatchesUp
  <2>2. K!DockTypeOK' /\ K!FactInv'
    BY <1>0, <2>1 DEF K!DockTypeOK, K!FactInv, K!SupportedByFact
  <2> QED BY <1>1, <2>1, <2>2
<1>11. CASE K!Tick
  BY <1>11, DockTick
<1> QED BY <1>2, <1>3, <1>4, <1>5, <1>6, <1>7, <1>8, <1>9, <1>10, <1>11 DEF K!Next

(* A step is tried once in a window, and once more for every restart in it,*)
(* whether or not it succeeded; and only a step whose fact is on chain, on *)
(* the instance it belongs to: for any number of routes and any window.    *)
THEOREM DocksHonest == Spec => []DockSound
<1> DEFINE Inv == focus = "docks" => K!IndInv
<1>1. Init => Inv
  BY DockInit DEF Init
<1>2. Inv /\ [Next]_allVars => Inv'
  BY FocusStep, DockStep
<1>3. Inv => DockSound
  <2> SUFFICES ASSUME K!IndInv PROVE K!DockSound
    BY DEF DockSound
  <2>1. K!RateLimited
    <3> SUFFICES ASSUME NEW k \in K!DockKeys PROVE Len(x8[k]) <= 1 + Len(x9)
      BY DEF K!RateLimited
    <3>1. /\ x8[k] \in Seq(Nat) /\ x9 \in Seq(Nat)
          /\ \A i \in DOMAIN x8[k] : i > 1 => i - 1 \in DOMAIN x9
      BY DEF K!IndInv, K!WindowInv, K!Aging
    <3>2. Len(x8[k]) \in Nat /\ Len(x9) \in Nat /\ DOMAIN x8[k] = 1..Len(x8[k]) /\ DOMAIN x9 = 1..Len(x9)
      BY <3>1
    <3>3. CASE Len(x8[k]) <= 1
      BY <3>2, <3>3
    <3>4. CASE ~(Len(x8[k]) <= 1)
      <4>1. Len(x8[k]) \in DOMAIN x8[k] /\ Len(x8[k]) > 1
        BY <3>2, <3>4
      <4>2. Len(x8[k]) - 1 \in 1..Len(x9)
        BY <3>1, <3>2, <4>1
      <4> QED BY <3>2, <4>2
    <3> QED BY <3>3, <3>4
  <2> QED BY <2>1 DEF K!DockSound, K!IndInv, K!FactInv
<1> QED BY <1>1, <1>2, <1>3, PTL DEF Spec, allVars

-----------------------------------------------------------------------------
(* The start of a process: x1 is entry, x2 setup and x3 startup.           *)
LEMMA SetupShape ==
  ASSUME NEW s \in C!AnySetup
  PROVE  /\ s.environment \in C!Tiers /\ s.faults \subseteq C!Faults
         /\ s.manifest.deployments \in Seq(C!Deployment)
         /\ s.manifest.activeId \in C!DeploymentIds \cup { "unset", "unknown" }
         /\ s.evidence \in C!Adapters /\ s.governanceBroadcast \in BOOLEAN
         /\ s.chain \in C!ChainAnswers /\ s.managed \in BOOLEAN
BY DEF C!AnySetup, C!Manifests

(* Outside local the JWT mode is what is left, so its checks apply.        *)
LEMMA AuthRefused ==
  ASSUME NEW s, C!Strict(s), NEW refused,
         { "storeAuthUnset", "storeAuthDevHeaders" } \subseteq refused,
         C!UsesJwt(s) => "issuerNotPublic" \in refused,
         s.faults \cap refused = {}
  PROVE  s.faults \cap { "storeAuthUnset", "storeAuthDevHeaders", "issuerNotPublic" } = {}
<1>1. C!UsesJwt(s)
  BY DEF C!UsesJwt, C!Has
<1> QED BY <1>1

LEMMA LoadRefuses ==
  ASSUME NEW s \in C!AnySetup, C!Strict(s), C!loadConfigFromEnv(s)
  PROVE  s.faults \cap C!Critical = {}
<1> DEFINE refused == C!Parse(s) \cup C!Validate(s).refused
<1>1. s.faults \cap refused = {} /\ s.environment \in { "testnet", "staging", "production" }
  BY SetupShape DEF C!loadConfigFromEnv, C!Strict, C!Tiers
<1>2. C!parseStoreAuthConfig(s) \cup C!parseStoreWalletSessionConfig(s) \subseteq refused
  BY DEF C!Parse
<1>3. C!TierBaseline \subseteq refused
  <2>1. C!TierBaseline \subseteq C!Validate(s).refused
    <3>1. CASE s.environment = "production"
      BY <3>1 DEF C!Validate, C!validateProductionSafety
    <3>2. CASE s.environment = "staging"
      BY <3>2 DEF C!Validate, C!validateStagingSafety
    <3>3. CASE s.environment = "testnet"
      BY <3>3 DEF C!Validate, C!validateTestnetSafety
    <3> QED BY <1>1, <3>1, <3>2, <3>3
  <2> QED BY <2>1
<1> HIDE DEF refused
<1>4. s.faults \cap { "storeAuthUnset", "storeAuthDevHeaders", "issuerNotPublic" } = {}
  <2>1. /\ { "storeAuthUnset", "storeAuthDevHeaders" } \subseteq refused
        /\ C!UsesJwt(s) => "issuerNotPublic" \in refused
    BY <1>2 DEF C!parseStoreAuthConfig, C!parseStoreAuthMode
  <2> QED BY <1>1, <2>1, AuthRefused
<1>5. "devAnchoredHeader" \in refused
  BY <1>2 DEF C!parseStoreWalletSessionConfig
<1>6. C!Critical \subseteq refused \cup { "storeAuthUnset", "storeAuthDevHeaders", "issuerNotPublic" }
  BY <1>3, <1>5 DEF C!Critical, C!TierBaseline, C!AnvilKeys
<1> QED BY <1>1, <1>4, <1>6

LEMMA PreflightRefuses ==
  ASSUME NEW s \in C!AnySetup, C!Strict(s), C!runStaticPreflight(s)
  PROVE  s.faults \cap C!Critical = {}
<1> DEFINE refused == UNION { C!TierPreflight(s), C!runStoreAuthPreflight(s), C!RelayerPreflight(s),
                              C!runProductRegistrationPreflight(s), C!GovernancePreflight(s) }
<1>1. s.faults \cap refused = {} /\ s.environment \in { "testnet", "staging", "production" }
  BY SetupShape DEF C!runStaticPreflight, C!Strict, C!Tiers
<1>2. C!runStoreAuthPreflight(s) \subseteq refused /\ C!TierPreflight(s) \subseteq refused
  OBVIOUS
<1>3. C!PreflightBaseline \cup { "deployerKeyAnvil", "signerKeyAnvil" } \subseteq C!TierPreflight(s)
  <2>1. CASE s.environment = "production"
    BY <2>1 DEF C!TierPreflight, C!runProductionSafetyPreflight, C!AnvilKeys
  <2>2. CASE s.environment = "staging"
    BY <2>2 DEF C!TierPreflight, C!runStagingSafetyPreflight, C!runStagingRolePreflight
  <2>3. CASE s.environment = "testnet"
    BY <2>3 DEF C!TierPreflight, C!runTestnetSafetyPreflight, C!AnvilKeys
  <2> QED BY <1>1, <2>1, <2>2, <2>3
<1> HIDE DEF refused
<1>4. s.faults \cap { "storeAuthUnset", "storeAuthDevHeaders", "issuerNotPublic" } = {}
  <2>1. /\ { "storeAuthUnset", "storeAuthDevHeaders" } \subseteq refused
        /\ C!UsesJwt(s) => "issuerNotPublic" \in refused
    BY <1>2 DEF C!runStoreAuthPreflight
  <2> QED BY <1>1, <2>1, AuthRefused
<1>5. "devAnchoredHeader" \in refused
  BY <1>2 DEF C!runStoreAuthPreflight
<1>6. C!Critical \subseteq refused \cup { "storeAuthUnset", "storeAuthDevHeaders", "issuerNotPublic" }
  BY <1>2, <1>3, <1>5 DEF C!Critical, C!PreflightBaseline
<1> QED BY <1>1, <1>4, <1>6

(* What staging refuses beyond production is what only staging declares.   *)
LEMMA TiersAgree ==
  ASSUME NEW s \in C!AnySetup, s.environment = "production", C!loadConfigFromEnv(s)
  PROVE  C!loadConfigFromEnv([ s EXCEPT !.environment = "staging", !.governanceBroadcast = TRUE,
                                        !.faults = @ \ C!StagingOnly ])
<1>t. PICK t : t = [ s EXCEPT !.environment = "staging", !.governanceBroadcast = TRUE, !.faults = @ \ C!StagingOnly ]
  OBVIOUS
<1>1. /\ t.environment = "staging" /\ t.governanceBroadcast = TRUE /\ t.faults = s.faults \ C!StagingOnly
      /\ t.evidence = s.evidence /\ t.managed = s.managed
  BY <1>t DEF C!AnySetup
<1>2. /\ s.faults \cap C!Parse(s) = {} /\ s.faults \cap C!Validate(s).refused = {} /\ ~C!Validate(s).wrongChoice
  BY DEF C!loadConfigFromEnv
<1>3. /\ C!Has(t, "storeAuthUnset") <=> C!Has(s, "storeAuthUnset")
      /\ C!Has(t, "storeAuthDevHeaders") <=> C!Has(s, "storeAuthDevHeaders")
      /\ C!Has(t, "notPostgres") <=> C!Has(s, "notPostgres")
      /\ C!Has(t, "reconcileOff") <=> C!Has(s, "reconcileOff")
      /\ C!Strict(t) /\ C!Strict(s)
  BY <1>1 DEF C!Has, C!StagingOnly, C!S3Values, C!Strict
<1>4. C!UsesJwt(t) <=> C!UsesJwt(s)
  BY <1>3 DEF C!UsesJwt
<1>5. C!Parse(t) \subseteq C!Parse(s) \cup { "signerKeyMissing" }
  <2>1. /\ C!parseStoreAuthConfig(t) = C!parseStoreAuthConfig(s)
        /\ C!parseStoreWalletSessionConfig(t) = C!parseStoreWalletSessionConfig(s)
    BY <1>3, <1>4 DEF C!parseStoreAuthConfig, C!parseStoreAuthMode, C!parseStoreWalletSessionConfig
  <2>2. C!parseGovernanceConfig(t) \subseteq C!parseGovernanceConfig(s) \cup { "signerKeyMissing" }
    BY DEF C!parseGovernanceConfig
  <2>3. /\ C!parseScalars(t) = C!parseScalars(s) /\ C!parseRuntimeEnv(t) = C!parseRuntimeEnv(s)
        /\ C!parseStorageDriver(t) = C!parseStorageDriver(s)
        /\ C!parseProductRegistrationAdapter(t) = C!parseProductRegistrationAdapter(s)
        /\ C!parseEvidenceStorageConfig(t) = C!parseEvidenceStorageConfig(s)
        /\ C!parseAdminTokenHashes(t) = C!parseAdminTokenHashes(s)
        /\ C!parseContracts(t) = C!parseContracts(s) /\ C!parseAddressManifest(t) = C!parseAddressManifest(s)
    BY DEF C!parseScalars, C!parseRuntimeEnv, C!parseStorageDriver, C!parseProductRegistrationAdapter,
           C!parseEvidenceStorageConfig, C!parseAdminTokenHashes, C!parseContracts, C!parseAddressManifest
  <2> QED BY <2>1, <2>2, <2>3 DEF C!Parse
<1>6. C!Validate(t).refused \subseteq C!Validate(s).refused \cup C!StagingOnly
  <2>1. C!validateManagedDatabaseCostSafety(t) = C!validateManagedDatabaseCostSafety(s)
    BY <1>1, <1>3 DEF C!validateManagedDatabaseCostSafety
  <2>2. /\ C!Validate(s).refused = C!TierBaseline \cup C!validateManagedDatabaseCostSafety(s) \cup C!S3Named
                                     \cup { "noReceiptWait", "reconcileOff" }
    BY DEF C!Validate, C!validateProductionSafety
  <2>3. C!Validate(t).refused \subseteq
          C!TierBaseline \cup C!validateManagedDatabaseCostSafety(t) \cup C!S3Named
            \cup { "noReceiptWait", "reconcileOff" } \cup C!StagingOnly
    <3>1. C!Validate(t) = C!validateStagingSafety(t)
      BY <1>1 DEF C!Validate
    <3> QED BY <3>1 DEF C!validateStagingSafety, C!StagingOnly
  <2> QED BY <2>1, <2>2, <2>3
<1>7. ~C!Validate(t).wrongChoice
  <2>1. s.evidence = "s3"
    BY <1>2 DEF C!Validate, C!validateProductionSafety
  <2> QED BY <1>1, <2>1 DEF C!Validate, C!validateStagingSafety
<1>8. t.faults \cap (C!Parse(t) \cup C!Validate(t).refused) = {}
  <2>1. "signerKeyMissing" \in C!StagingOnly
    BY DEF C!StagingOnly
  <2> QED BY <1>1, <1>2, <1>5, <1>6, <2>1
<1> QED BY <1>t, <1>7, <1>8 DEF C!loadConfigFromEnv

LEMMA FirstIs ==
  ASSUME NEW is, is \subseteq Nat, is # {}
  PROVE  C!First(is) \in is
<1>1. \E i \in is : \A j \in is : i <= j
  BY LeastOf
<1> QED BY <1>1 DEF C!First

(* The deployment that passed the static preflight is the one meant.       *)
LEMMA MeantSelected ==
  ASSUME NEW s \in C!AnySetup, C!Strict(s), C!runStaticPreflight(s)
  PROVE  LET d == C!selectActiveStateMachineDeployment(s)
         IN /\ \/ d.id = s.manifest.activeId
               \/ (s.manifest.activeId = "unset" /\ d.active
                    /\ \A i, j \in DOMAIN s.manifest.deployments :
                         s.manifest.deployments[i].active /\ s.manifest.deployments[j].active => i = j)
            /\ d.modules = "complete" /\ d.machine = "flat" /\ C!Deployments(s) # {}
<1> DEFINE all == s.manifest.deployments
           named == { i \in DOMAIN all : all[i].id = s.manifest.activeId }
           active == { i \in DOMAIN all : all[i].active }
           d == C!selectActiveStateMachineDeployment(s)
<1>0. /\ DOMAIN all \subseteq Nat /\ Len(all) \in Nat /\ DOMAIN all = 1..Len(all)
      /\ \A i \in DOMAIN all : all[i].id \in C!DeploymentIds
      /\ "unset" \notin C!DeploymentIds
  <2>1. all \in Seq(C!Deployment)
    BY SetupShape
  <2>2. DOMAIN all = 1..Len(all) /\ Len(all) \in Nat /\ \A i \in DOMAIN all : all[i] \in C!Deployment
    BY <2>1
  <2> QED BY <2>2 DEF C!Deployment, C!DeploymentIds
<1>1. C!runStateMachineModulesManifestPreflight(s) /\ C!runStateMachineAddressDriftPreflight(s)
  BY DEF C!runStaticPreflight
<1>2. /\ C!Deployments(s) # {}
      /\ s.manifest.activeId # "unset" => named # {}
      /\ s.manifest.activeId = "unset" => C!Cardinality(active) = 1
      /\ d.modules = "complete"
  BY <1>1 DEF C!runStateMachineModulesManifestPreflight, C!Deployments
<1>3. d.machine = "flat"
  <2>1. "stateMachineMissing" \in C!Critical
    BY DEF C!Critical
  <2>2. ~C!Has(s, "stateMachineMissing")
    BY <2>1, PreflightRefuses DEF C!Has
  <2> QED BY <1>1, <1>2, <2>2 DEF C!runStateMachineAddressDriftPreflight
<1>4. d = CASE named # {} -> all[C!First(named)]
            [] named = {} /\ active # {} -> all[C!First(active)]
            [] OTHER -> all[C!First(DOMAIN all)]
  BY DEF C!selectActiveStateMachineDeployment
<1> HIDE DEF d
<1>5. CASE s.manifest.activeId # "unset"
  <2>1. C!First(named) \in named
    BY <1>0, <1>2, <1>5, FirstIs
  <2>2. d = all[C!First(named)]
    BY <1>4, <2>1
  <2> QED BY <1>2, <1>3, <2>1, <2>2 DEF d
<1>6. CASE s.manifest.activeId = "unset"
  <2>1. named = {}
    BY <1>0, <1>6
  <2>2. Cardinality(active) = 1
    BY <1>2, <1>6 DEF Cardinality, C!Cardinality
  <2>3. PICK i : active = {i}
    <3>1. IsFiniteSet(active)
      <4>1. 1 \in Int /\ Len(all) \in Int
        BY <1>0
      <4>2. IsFiniteSet(1..Len(all))
        BY <4>1, FS_Interval
      <4>3. active \subseteq 1..Len(all)
        BY <1>0
      <4> QED BY <4>2, <4>3, FS_Subset
    <3> QED BY <2>2, <3>1, FS_Singleton
  <2>4. C!First(active) = i
    <3>1. C!First(active) \in active
      <4>1. active # {} /\ active \subseteq Nat
        BY <1>0, <2>3
      <4> QED BY <4>1, FirstIs
    <3> QED BY <2>3, <3>1
  <2>5. d = all[i] /\ d.active
    BY <1>4, <2>1, <2>3, <2>4
  <2>6. \A j, k \in DOMAIN all : all[j].active /\ all[k].active => j = k
    BY <2>3
  <2> QED BY <1>2, <1>3, <1>6, <2>5, <2>6 DEF d
<1> QED BY <1>5, <1>6

LEMMA StartInit == C!Init => C!IndInv
BY SetupsKnown DEF C!Init, C!IndInv, C!PassedLoad, C!PassedPreflight

LEMMA StartStep == C!IndInv /\ [C!Next]_(C!configVars) => C!IndInv'
<1> SUFFICES ASSUME C!IndInv, [C!Next]_(C!configVars) PROVE C!IndInv'
  OBVIOUS
<1>1. CASE UNCHANGED C!configVars
  BY <1>1 DEF C!configVars, C!IndInv, C!PassedLoad, C!PassedPreflight
<1>2. CASE C!Load
  BY <1>2 DEF C!Load, C!IndInv, C!PassedLoad, C!PassedPreflight
<1>3. CASE C!StaticPreflight
  BY <1>3 DEF C!StaticPreflight, C!IndInv, C!PassedLoad, C!PassedPreflight
<1>4. CASE C!RpcPreflight
  BY <1>4 DEF C!RpcPreflight, C!IndInv, C!PassedLoad, C!PassedPreflight
<1>5. CASE C!Settled
  BY <1>5 DEF C!Settled, C!configVars, C!IndInv, C!PassedLoad, C!PassedPreflight
<1> QED BY <1>1, <1>2, <1>3, <1>4, <1>5 DEF C!Next

(* However many settings are wrong at once, and whatever the manifest and  *)
(* the chain say, a process that starts outside local is the one that was  *)
(* meant, and no tier refuses less than the one below it.                  *)
THEOREM StartsMeant == Spec => []StartsSafely
<1> DEFINE Inv == focus = "config" => C!IndInv
<1>1. Init => Inv
  BY StartInit DEF Init
<1>2. Inv /\ [Next]_allVars => Inv'
  BY FocusStep, StartStep
<1>3. Inv => StartsSafely
  <2> SUFFICES ASSUME C!IndInv PROVE C!StartsSafely
    BY DEF StartsSafely
  <2>0. x2 \in C!AnySetup
    BY DEF C!IndInv
  <2>1. C!EachLayerRefuses
    <3> SUFFICES ASSUME x3 = "started", C!Strict(x2) PROVE x2.faults \cap C!Critical = {}
      BY DEF C!EachLayerRefuses
    <3>1. C!loadConfigFromEnv(x2) \/ C!runStaticPreflight(x2)
      BY DEF C!IndInv, C!PassedLoad, C!PassedPreflight
    <3> QED BY <2>0, <3>1, LoadRefuses, PreflightRefuses
  <2>2. C!NoTierInversion
    BY <2>0, TiersAgree DEF C!NoTierInversion, C!IndInv, C!PassedLoad
  <2>3. C!MeantDeployment
    <3> SUFFICES ASSUME x3 = "started", x1 # "indexer", C!Strict(x2)
                 PROVE  LET d == C!selectActiveStateMachineDeployment(x2)
                        IN /\ \/ d.id = x2.manifest.activeId
                              \/ (x2.manifest.activeId = "unset" /\ d.active
                                   /\ \A i, j \in DOMAIN x2.manifest.deployments :
                                        x2.manifest.deployments[i].active /\ x2.manifest.deployments[j].active => i = j)
                           /\ d.modules = "complete" /\ d.machine = "flat"
      BY DEF C!MeantDeployment
    <3>1. C!runStaticPreflight(x2)
      BY DEF C!IndInv, C!PassedPreflight
    <3> QED BY <2>0, <3>1, MeantSelected
  <2>4. C!OnTheConfiguredChain
    <3> SUFFICES ASSUME x3 = "started", x1 # "indexer", C!Strict(x2)
                 PROVE  x2.chain \notin { "down", "otherChain", "noCode", "otherModules" }
      BY DEF C!OnTheConfiguredChain
    <3>1. C!runStaticPreflight(x2) /\ (~C!PreflightStrict(x2) \/ C!runRpcPreflight(x2))
      BY DEF C!IndInv, C!PassedPreflight
    <3>2. "notStrict" \notin x2.faults /\ "stateMachineMissing" \notin x2.faults
      <4>1. x2.faults \cap C!Critical = {}
        BY <2>0, <3>1, PreflightRefuses
      <4> QED BY <4>1 DEF C!Critical
    <3>3. C!runRpcPreflight(x2)
      BY <3>1, <3>2 DEF C!PreflightStrict, C!Has
    <3>4. C!selectActiveStateMachineDeployment(x2).modules = "complete" /\ C!Deployments(x2) # {}
      BY <2>0, <3>1, MeantSelected
    <3> QED BY <3>2, <3>3, <3>4 DEF C!runRpcPreflight, C!checkChainId, C!checkContractCode, C!checkStateMachineModules
  <2> QED BY <2>1, <2>2, <2>3, <2>4 DEF C!StartsSafely
<1> QED BY <1>1, <1>2, <1>3, PTL DEF Spec, allVars
=============================================================================
