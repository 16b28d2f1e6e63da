----------------------------- MODULE Registries -----------------------------
(* The deployment registry and the identity bindings as a replay leaves    *)
(* them (indexer/replay.ts, projections/snapshot.ts,                       *)
(* identity-projections.ts).                                               *)
EXTENDS Integers

CONSTANTS Machines, Deployments, IdentityIds, Absent, MaxRegistryEvents

VARIABLES
  deployments, active,   \* stateMachineDeployments, activeStateMachineDeploymentId
  identities,            \* IdentityProjectionSnapshot.bindings
  registryEvents               \* events so far

registryVars == << deployments, active, identities, registryEvents >>

Init ==
  /\ deployments = [ i \in Deployments |-> Absent ] /\ active = Absent
  /\ identities = [ b \in IdentityIds |-> Absent ] /\ registryEvents = 0

Replays == registryEvents < MaxRegistryEvents /\ registryEvents' = registryEvents + 1
-----------------------------------------------------------------------------
(* The deployment registry. The contract takes a deployment from candidate *)
(* through canary to active, and names the one it replaces.                *)
Statuses == << "active", "canary", "candidate", "deprecated", "retired" >>
deploymentStatusPriority(status) == CHOOSE i \in 1..5 : Statuses[i] = status
Deployment == [ machine : Machines, status : { Statuses[i] : i \in 1..5 }, at : Nat ]

compareDeploymentSelection(i, j) ==
  \/ deploymentStatusPriority(deployments[i].status) < deploymentStatusPriority(deployments[j].status)
  \/ deployments[i].status = deployments[j].status /\ deployments[i].at >= deployments[j].at

findDeploymentByStateMachine(m) ==
  LET of == { i \in Deployments : deployments[i] # Absent /\ deployments[i].machine = m }
  IN  IF of = {} THEN Absent ELSE CHOOSE i \in of : \A j \in of : compareDeploymentSelection(i, j)

Is(i, statuses) == deployments[i] # Absent /\ deployments[i].status \in statuses
WithStatus(ds, i, status) ==
  [ ds EXCEPT ![i] = IF @ = Absent THEN Absent ELSE [ @ EXCEPT !.status = status, !.at = registryEvents ] ]

(* Fault: the deployment that is replaced stays active.                    *)
ActivateKeepingPrevious(i) == WithStatus(deployments, i, "active")

Activation(i) ==
  WithStatus(IF active = Absent THEN deployments ELSE WithStatus(deployments, active, "deprecated"), i, "active")

(* Whether the registry contract emits the status event for i.             *)
RegistryAllows(i, status) ==
  CASE status = "canary"     -> Is(i, { "candidate" })
    [] status = "active"     -> Is(i, { "canary" })
    [] status = "deprecated" -> Is(i, { "active" })
    [] status = "retired"    -> Is(i, { "candidate", "canary", "deprecated" })

DeploymentRegistered(i, m) ==
  /\ Replays /\ deployments[i] = Absent
  /\ deployments' = [ deployments EXCEPT ![i] = [ machine |-> m, status |-> "candidate", at |-> registryEvents ] ]
  /\ UNCHANGED << active, identities >>

applyDeploymentRegistryEvent(i, status) ==
  /\ Replays /\ RegistryAllows(i, status)
  /\ deployments' = IF status = "active" THEN Activation(i) ELSE WithStatus(deployments, i, status)
  /\ active' = CASE status = "active" -> i
                 [] status \in { "deprecated", "retired" } /\ active = i -> Absent
                 [] OTHER -> active
  /\ UNCHANGED << identities >>

-----------------------------------------------------------------------------
(* Identity bindings; a revocation of an unknown binding changes nothing.  *)
applyIdentityBindingRegistered(b) ==
  /\ Replays /\ identities' = [ identities EXCEPT ![b] = "active" ]
  /\ UNCHANGED << deployments, active >>

applyIdentityBindingRevoked(b) ==
  /\ Replays /\ identities' = [ identities EXCEPT ![b] = IF @ = Absent THEN Absent ELSE "revoked" ]
  /\ UNCHANGED << deployments, active >>

rebuildIdentityProjections ==
  \E b \in IdentityIds : applyIdentityBindingRegistered(b) \/ applyIdentityBindingRevoked(b)

Next ==
  \/ \E i \in Deployments, m \in Machines : DeploymentRegistered(i, m)
  \/ \E i \in Deployments, st \in { "canary", "active", "deprecated", "retired" } : applyDeploymentRegistryEvent(i, st)
  \/ rebuildIdentityProjections

Spec == Init /\ [][Next]_registryVars

-----------------------------------------------------------------------------
(* The deployment the snapshot calls active is the only one with that      *)
(* status, and it is the one its state machine's orders are attributed to. *)
OneActiveDeployment ==
  \A i \in Deployments :
    /\ Is(i, { "active" }) <=> active = i
    /\ active = i => findDeploymentByStateMachine(deployments[i].machine) = i

-----------------------------------------------------------------------------
(* The invariant behind OneActiveDeployment.                               *)
RegistryTypes ==
  /\ deployments \in [ Deployments -> Deployment \cup {Absent} ]
  /\ active \in Deployments \cup {Absent}
  /\ registryEvents \in Nat

ActiveIsNamed == \A i \in Deployments : Is(i, { "active" }) <=> active = i

IndInv == RegistryTypes /\ ActiveIsNamed
=============================================================================
