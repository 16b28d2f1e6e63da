-------------------------- MODULE StoreDecoration --------------------------
(* The page of one plan in the Store: the versions its publisher and the   *)
(* publisher's delegates write, and the delegations (store/decoration).    *)
EXTENDS Integers, FiniteSets

CONSTANTS
  Publisher, Others, \* wallets
  Delegations,       \* a set of numbers: delegation ids
  Authors,           \* requests in flight
  MaxVersions

VARIABLES
  planProjected,   \* the index knows the plan, and so its publisher
  delegations,     \* delegation id -> record
  versions,        \* decoration versions stored
  saves,           \* request in flight -> what it read and will append
  saved            \* saves answered as done

decorationVars == << planProjected, delegations, versions, saves, saved >>

NoDelegation == [ status |-> "none" ]
NotSaving == [ at |-> "idle" ]

Init ==
  /\ planProjected = FALSE
  /\ delegations = [ g \in Delegations |-> NoDelegation ]
  /\ versions = {}
  /\ saves = [ a \in Authors |-> NotSaving ]
  /\ saved = 0

(* The index reaches the block that commits the plan.                      *)
PlanProjected ==
  /\ ~planProjected
  /\ planProjected' = TRUE
  /\ UNCHANGED << delegations, versions, saves, saved >>

-----------------------------------------------------------------------------
Active(g) == delegations[g].status = "active"

findActiveDelegation(member) == \E g \in Delegations : Active(g) /\ delegations[g].member = member

(* Nobody has write access to a plan that is not projected.                *)
hasPublisherWriteAccess(wallet) ==
  planProjected /\ (wallet = Publisher \/ findActiveDelegation(wallet))

assertPublisherSelf(wallet) == wallet = Publisher

(* grantDelegation looks for an active delegation of the member and then   *)
(* inserts one; no index keeps two concurrent grants apart.                *)
GrantReads(a, wallet, member) ==
  /\ saves[a] = NotSaving
  /\ assertPublisherSelf(wallet)
  /\ member # Publisher
  /\ ~findActiveDelegation(member)
  /\ saves' = [ saves EXCEPT ![a] = [ at |-> "grant", member |-> member, by |-> wallet ] ]
  /\ UNCHANGED << planProjected, delegations, versions, saved >>

appendDelegation(a, g) ==
  /\ saves[a].at = "grant"
  /\ delegations[g] = NoDelegation /\ \A x \in Delegations : delegations[x] = NoDelegation => g <= x
  /\ delegations' = [ delegations EXCEPT
                        ![g] = [ status |-> "active", member |-> saves[a].member, by |-> saves[a].by ] ]
  /\ saves' = [ saves EXCEPT ![a] = NotSaving ]
  /\ UNCHANGED << planProjected, versions, saved >>

(* Only the publisher finds the delegation among its own.                  *)
revokeDelegation(g) ==
  /\ Active(g)
  /\ delegations' = [ delegations EXCEPT ![g].status = "revoked" ]
  /\ UNCHANGED << planProjected, versions, saves, saved >>

(* The rights and the number of versions are read; what will be appended   *)
(* is the next version. source is the version restored, 0 for a save.      *)
Prepared(a, wallet, source) ==
  /\ saves[a] = NotSaving
  /\ hasPublisherWriteAccess(wallet)
  /\ Cardinality(versions) < MaxVersions
  /\ saves' = [ saves EXCEPT ![a] = [ at |-> "append", wallet |-> wallet, source |-> source,
                                      version |-> Cardinality(versions) + 1 ] ]
  /\ UNCHANGED << planProjected, delegations, versions, saved >>

saveDecoration(a, wallet) == Prepared(a, wallet, 0)

restoreVersion(a, wallet, source) ==
  /\ \E v \in versions : v.version = source
  /\ Prepared(a, wallet, source)

(* Fault: the version number is not unique.                                *)
AppendAnyway(version) == TRUE

(* UNIQUE(plan_id, version): the loser is told of the conflict.            *)
appendVersion(version) == \A v \in versions : v.version # version

SaveWrites(a) ==
  /\ saves[a].at = "append"
  /\ IF appendVersion(saves[a].version)
     THEN /\ versions' = versions \cup { [ version |-> saves[a].version, author |-> saves[a].wallet,
                                           source |-> saves[a].source ] }
          /\ saved' = saved + 1
     ELSE UNCHANGED << versions, saved >>
  /\ saves' = [ saves EXCEPT ![a] = NotSaving ]
  /\ UNCHANGED << planProjected, delegations >>

Next ==
  \/ PlanProjected
  \/ \E a \in Authors :
       \/ \E wallet, member \in Others \cup {Publisher} : GrantReads(a, wallet, member)
       \/ \E g \in Delegations : appendDelegation(a, g)
       \/ \E wallet \in Others \cup {Publisher} :
            \/ saveDecoration(a, wallet)
            \/ \E source \in 1..MaxVersions : restoreVersion(a, wallet, source)
       \/ SaveWrites(a)
  \/ \E g \in Delegations : revokeDelegation(g)

Spec == Init /\ [][Next]_decorationVars

-----------------------------------------------------------------------------
(* The history of a decoration has no gap and loses no save: concurrent    *)
(* saves and restores that read the same history cannot both be answered   *)
(* as done.                                                                *)
DecorationHistory ==
  /\ { v.version : v \in versions } = 1..Cardinality(versions)
  /\ saved = Cardinality(versions)
  /\ \A v \in versions : v.source < v.version

(* Everything on the plan's page was written by its publisher or by a      *)
(* wallet that the publisher itself delegated.                             *)
WrittenForPublisher ==
  \A v \in versions :
    v.author = Publisher \/ \E g \in Delegations :
      delegations[g].status # "none" /\ delegations[g].member = v.author /\ delegations[g].by = Publisher

(* The plan's page has the history its publisher and the publisher's       *)
(* delegates wrote.                                                        *)
DecorationSound == DecorationHistory /\ WrittenForPublisher

-----------------------------------------------------------------------------
(* The invariant behind DecorationSound.                                   *)
Wallets == Others \cup {Publisher}

PageTypes ==
  /\ planProjected \in BOOLEAN
  /\ delegations \in [ Delegations -> {NoDelegation}
                         \cup [ status : { "active", "revoked" }, member : Wallets, by : Wallets ] ]
  /\ IsFiniteSet(versions) /\ versions \subseteq [ version : Nat, author : Wallets, source : Nat ]
  /\ saves \in [ Authors -> {NotSaving} \cup [ at : {"grant"}, member : Wallets, by : Wallets ]
                   \cup [ at : {"append"}, wallet : Wallets, source : Nat, version : Nat ] ]

(* Delegations are never deleted, so who was entitled once can be told     *)
(* from them for good.                                                     *)
Entitled(wallet) ==
  wallet = Publisher \/ \E g \in Delegations :
    delegations[g].status # "none" /\ delegations[g].member = wallet /\ delegations[g].by = Publisher

(* A save in flight carries the number after a version that is stored: the *)
(* next number, or one that was taken meanwhile.                           *)
SaveInv(a) ==
  /\ saves[a].at = "grant" => saves[a].by = Publisher
  /\ saves[a].at = "append" =>
       /\ saves[a].version \in 1..(Cardinality(versions) + 1)
       /\ saves[a].source < saves[a].version
       /\ Entitled(saves[a].wallet)

IndInv ==
  /\ PageTypes /\ DecorationSound
  /\ \A g \in Delegations : delegations[g].status # "none" => delegations[g].by = Publisher
  /\ \A a \in Authors : SaveInv(a)
=============================================================================
