--------------------------- MODULE IndexerProofs ---------------------------
(***************************************************************************)
(* Theorems about the indexer and the projections a replay builds: the     *)
(* invariant of a component is inductive under the component's own steps,  *)
(* and so under those of MCIndexer while the behaviour is about it.        *)
(***************************************************************************)
EXTENDS MCIndexer, FiniteSetTheorems, SequenceTheorems, WellFoundedInduction, TLAPS

-----------------------------------------------------------------------------
(* A step is one of the component in focus, or a stutter.                  *)
LEMMA FocusStep ==
  ASSUME [Next]_vars
  PROVE  /\ UNCHANGED focus
         /\ focus = "log" => [X!Next]_(X!vars)
         /\ focus = "tasks" => [T!Next]_(T!taskVars)
         /\ focus = "buckets" => [B!Next]_(B!bucketVars)
         /\ focus = "registries" => [R!Next]_(R!registryVars)
BY DEF Next, vars, taskVars, bucketVars, registryVars, indexVars, T!taskVars, B!bucketVars, R!registryVars,
       X!vars, X!chainVars, X!storeVars, X!memVars, X!histVars

(* A set of naturals has a least element: the initial segments are well-   *)
(* founded by inclusion.                                                   *)
LEMMA LeastOf ==
  ASSUME NEW S, S \subseteq Nat, S # {}
  PROVE  \E x \in S : \A y \in S : x <= y
<1> DEFINE Segments == { 0..x : x \in S }
           Less == StrictSubsetOrdering(Nat)
<1>1. Segments \subseteq FiniteSubsetsOf(Nat) /\ Segments # {}
  <2>1. ASSUME NEW x \in S PROVE 0..x \in FiniteSubsetsOf(Nat)
    <3>1. x \in Int /\ 0 \in Int /\ 0..x \subseteq Nat
      OBVIOUS
    <3>2. IsFiniteSet(0..x)
      BY <3>1, FS_Interval
    <3> QED BY <3>1, <3>2 DEF FiniteSubsetsOf
  <2> QED BY <2>1
<1>2. PICK U \in Segments : \A V \in Segments : << V, U >> \notin Less
  <2> HIDE DEF Segments, Less
  <2>1. IsWellFoundedOn(Less, FiniteSubsetsOf(Nat))
    BY FS_StrictSubsetOrderingWellFounded DEF Less
  <2> QED BY <1>1, <2>1, WFMin
<1>3. PICK x \in S : U = 0..x
  OBVIOUS
<1>4. ASSUME NEW y \in S, y < x PROVE FALSE
  <2>1. 0..y \subseteq 0..x /\ 0..y # 0..x /\ 0..y \in SUBSET Nat /\ 0..x \in SUBSET Nat
    BY <1>4
  <2>2. << 0..y, 0..x >> \in Less
    BY <2>1 DEF StrictSubsetOrdering
  <2> QED BY <1>2, <1>3, <2>2
<1> QED BY <1>4

-----------------------------------------------------------------------------
(* The deployment registry.                                                *)

(* The order in which the deployments of a state machine are preferred.    *)
LEMMA StatusOrder ==
  /\ { R!Statuses[i] : i \in 1..5 } = { "active", "canary", "candidate", "deprecated", "retired" }
  /\ R!deploymentStatusPriority("active") = 1
  /\ \A st \in { "canary", "candidate", "deprecated", "retired" } : R!deploymentStatusPriority(st) \in 2..5
<1>1. /\ R!Statuses[1] = "active" /\ R!Statuses[2] = "canary" /\ R!Statuses[3] = "candidate"
      /\ R!Statuses[4] = "deprecated" /\ R!Statuses[5] = "retired"
  BY DEF R!Statuses
<1>2. \A i \in 1..5 : i = 1 \/ i = 2 \/ i = 3 \/ i = 4 \/ i = 5
  OBVIOUS
<1>3. { R!Statuses[i] : i \in 1..5 } = { "active", "canary", "candidate", "deprecated", "retired" }
  BY <1>1, <1>2
<1>4. \A st \in { R!Statuses[i] : i \in 1..5 } :
        R!deploymentStatusPriority(st) \in 1..5 /\ R!Statuses[R!deploymentStatusPriority(st)] = st
  BY DEF R!deploymentStatusPriority
<1>5. R!deploymentStatusPriority("active") = 1
  <2> DEFINE j == R!deploymentStatusPriority("active")
  <2>1. j \in 1..5 /\ R!Statuses[j] = "active"
    BY <1>3, <1>4
  <2> HIDE DEF j
  <2>2. j = 1
    BY <1>1, <1>2, <2>1
  <2> QED BY <2>2 DEF j
<1>6. ASSUME NEW st \in { "canary", "candidate", "deprecated", "retired" }
      PROVE  R!deploymentStatusPriority(st) \in 2..5
  <2> DEFINE j == R!deploymentStatusPriority(st)
  <2>1. j \in 1..5 /\ R!Statuses[j] = st
    BY <1>3, <1>4
  <2> HIDE DEF j
  <2>2. j # 1
    BY <1>1, <2>1
  <2>3. j \in 2..5
    BY <2>1, <2>2
  <2> QED BY <2>3 DEF j
<1> QED BY <1>3, <1>5, <1>6

(* What a change of status does to one deployment.                         *)
LEMMA StatusChanged ==
  ASSUME NEW ds \in [ Deployments -> R!Deployment \cup {Absent} ], NEW i \in Deployments,
         NEW st \in { "active", "canary", "candidate", "deprecated", "retired" }, registryEvents \in Nat
  PROVE  /\ R!WithStatus(ds, i, st) \in [ Deployments -> R!Deployment \cup {Absent} ]
         /\ \A j \in Deployments : j # i => R!WithStatus(ds, i, st)[j] = ds[j]
         /\ ds[i] = Absent => R!WithStatus(ds, i, st)[i] = Absent
         /\ ds[i] # Absent => R!WithStatus(ds, i, st)[i] # Absent /\ R!WithStatus(ds, i, st)[i].status = st
<1> DEFINE new == [ ds[i] EXCEPT !.status = st, !.at = registryEvents ]
<1>1. R!WithStatus(ds, i, st) = [ ds EXCEPT ![i] = IF ds[i] = Absent THEN Absent ELSE new ]
  BY DEF R!WithStatus
<1>2. ds[i] # Absent => new \in R!Deployment /\ new.status = st
  <2> SUFFICES ASSUME ds[i] # Absent PROVE new \in R!Deployment /\ new.status = st
    OBVIOUS
  <2>1. ds[i] \in [ machine : Machines, status : { R!Statuses[k] : k \in 1..5 }, at : Nat ]
    BY DEF R!Deployment
  <2>2. st \in { R!Statuses[k] : k \in 1..5 }
    BY StatusOrder
  <2> QED BY <2>1, <2>2 DEF R!Deployment
<1> HIDE DEF new
<1> QED BY <1>1, <1>2, IndexerConstants

LEMMA RegistriesInit == R!Init => R!IndInv
BY IndexerConstants DEF R!Init, R!IndInv, R!RegistryTypes, R!ActiveIsNamed, R!Is

LEMMA RegisteredStep ==
  ASSUME R!IndInv, NEW i \in Deployments, NEW m \in Machines, R!DeploymentRegistered(i, m)
  PROVE  R!IndInv'
<1> DEFINE new == [ machine |-> m, status |-> "candidate", at |-> registryEvents ]
<1>1. /\ deployments[i] = Absent /\ deployments' = [ deployments EXCEPT ![i] = new ]
      /\ UNCHANGED active /\ registryEvents' = registryEvents + 1 /\ registryEvents \in Nat
      /\ deployments \in [ Deployments -> R!Deployment \cup {Absent} ]
  BY DEF R!DeploymentRegistered, R!Replays, R!IndInv, R!RegistryTypes
<1>2. new \in R!Deployment /\ new.status = "candidate"
  BY <1>1, StatusOrder DEF R!Deployment
<1> HIDE DEF new
<1>3. R!RegistryTypes'
  BY <1>1, <1>2 DEF R!IndInv, R!RegistryTypes
<1>4. ASSUME NEW j \in Deployments PROVE R!Is(j, { "active" })' <=> active' = j
  BY <1>1, <1>2 DEF R!IndInv, R!ActiveIsNamed, R!Is
<1> QED BY <1>3, <1>4 DEF R!IndInv, R!ActiveIsNamed

(* Activation deprecates the deployment that was active before.            *)
LEMMA StatusStep ==
  ASSUME R!IndInv, NEW i \in Deployments, NEW st \in { "canary", "active", "deprecated", "retired" },
         R!applyDeploymentRegistryEvent(i, st)
  PROVE  R!IndInv'
<1>0. /\ deployments \in [ Deployments -> R!Deployment \cup {Absent} ] /\ registryEvents \in Nat
      /\ active \in Deployments \cup {Absent} /\ registryEvents' = registryEvents + 1
      /\ R!RegistryAllows(i, st)
      /\ \A j \in Deployments : R!Is(j, { "active" }) <=> active = j
  BY DEF R!IndInv, R!RegistryTypes, R!ActiveIsNamed, R!applyDeploymentRegistryEvent, R!Replays
<1>1. CASE st = "active"
  <2>1. active' = i /\ deployments' = R!Activation(i) /\ deployments[i] # Absent /\ active # i
    BY <1>0, <1>1 DEF R!applyDeploymentRegistryEvent, R!RegistryAllows, R!Is
  <2> DEFINE base == IF active = Absent THEN deployments ELSE R!WithStatus(deployments, active, "deprecated")
  <2>2. /\ base \in [ Deployments -> R!Deployment \cup {Absent} ] /\ base[i] = deployments[i]
        /\ \A j \in Deployments : base[j] # Absent => base[j].status # "active"
    <3>1. CASE active = Absent
      BY <1>0, <3>1, IndexerConstants DEF R!Is
    <3>2. CASE active \in Deployments
      <4>1. base = R!WithStatus(deployments, active, "deprecated")
        BY <3>2, IndexerConstants
      <4>2. /\ base \in [ Deployments -> R!Deployment \cup {Absent} ]
            /\ \A j \in Deployments : j # active => base[j] = deployments[j]
            /\ base[active] # Absent => base[active].status = "deprecated"
        BY <1>0, <3>2, <4>1, StatusChanged
      <4>3. \A j \in Deployments : j # active /\ deployments[j] # Absent => deployments[j].status # "active"
        BY <1>0 DEF R!Is
      <4> QED BY <2>1, <4>2, <4>3
    <3> QED BY <1>0, <3>1, <3>2
  <2>3. deployments' = R!WithStatus(base, i, "active")
    BY <2>1 DEF R!Activation
  <2> HIDE DEF base
  <2>4. /\ deployments' \in [ Deployments -> R!Deployment \cup {Absent} ]
        /\ \A j \in Deployments : j # i => deployments'[j] = base[j]
        /\ deployments'[i] # Absent /\ deployments'[i].status = "active"
    BY <1>0, <2>1, <2>2, <2>3, StatusChanged
  <2>5. \A j \in Deployments : R!Is(j, { "active" })' <=> active' = j
    BY <2>1, <2>2, <2>4 DEF R!Is
  <2> QED BY <1>0, <2>1, <2>4, <2>5 DEF R!IndInv, R!RegistryTypes, R!ActiveIsNamed
<1>2. CASE st # "active"
  <2>1. /\ deployments' = R!WithStatus(deployments, i, st) /\ deployments[i] # Absent
        /\ active' = IF st \in { "deprecated", "retired" } /\ active = i THEN Absent ELSE active
        /\ st = "canary" => deployments[i].status = "candidate"
    BY <1>0, <1>2 DEF R!applyDeploymentRegistryEvent, R!RegistryAllows, R!Is
  <2>2. /\ deployments' \in [ Deployments -> R!Deployment \cup {Absent} ]
        /\ \A j \in Deployments : j # i => deployments'[j] = deployments[j]
        /\ deployments'[i] # Absent /\ deployments'[i].status = st
    BY <1>0, <2>1, StatusChanged
  <2>3. st = "canary" => active # i
    BY <1>0, <2>1 DEF R!Is
  <2>4. \A j \in Deployments : R!Is(j, { "active" })' <=> active' = j
    BY <1>0, <1>2, <2>1, <2>2, <2>3, IndexerConstants DEF R!Is
  <2>5. active' \in Deployments \cup {Absent}
    BY <1>0, <2>1
  <2> QED BY <1>0, <2>2, <2>4, <2>5 DEF R!IndInv, R!RegistryTypes, R!ActiveIsNamed
<1> QED BY <1>1, <1>2

LEMMA RegistriesStep == R!IndInv /\ [R!Next]_(R!registryVars) => R!IndInv'
<1> SUFFICES ASSUME R!IndInv, [R!Next]_(R!registryVars) PROVE R!IndInv'
  OBVIOUS
<1>1. CASE R!rebuildIdentityProjections
  <2>1. UNCHANGED << deployments, active >> /\ registryEvents' = registryEvents + 1
    BY <1>1 DEF R!rebuildIdentityProjections, R!applyIdentityBindingRegistered, R!applyIdentityBindingRevoked, R!Replays
  <2> QED BY <2>1 DEF R!IndInv, R!RegistryTypes, R!ActiveIsNamed, R!Is
<1>2. CASE UNCHANGED R!registryVars
  BY <1>2 DEF R!registryVars, R!IndInv, R!RegistryTypes, R!ActiveIsNamed, R!Is
<1> QED BY <1>1, <1>2, RegisteredStep, StatusStep DEF R!Next

(* The deployment the snapshot calls active is the only one with that      *)
(* status, and orders of its state machine are attributed to it, for any   *)
(* number of deployments, machines and events.                             *)
THEOREM ActiveDeploymentUnique == Spec => []OneActiveDeployment
<1> DEFINE Inv == focus = "registries" => R!IndInv
<1>1. Init => Inv
  BY RegistriesInit DEF Init
<1>2. Inv /\ [Next]_vars => Inv'
  BY FocusStep, RegistriesStep
<1>3. Inv => OneActiveDeployment
  <2> SUFFICES ASSUME R!IndInv, NEW i \in Deployments, active = i
               PROVE  R!findDeploymentByStateMachine(deployments[i].machine) = i
    BY DEF OneActiveDeployment, R!OneActiveDeployment, R!IndInv, R!ActiveIsNamed
  <2> DEFINE of == { j \in Deployments : deployments[j] # Absent /\ deployments[j].machine = deployments[i].machine }
  <2>1. deployments[i] # Absent /\ deployments[i].status = "active" /\ i \in of
    BY DEF R!IndInv, R!ActiveIsNamed, R!Is
  <2>2. ASSUME NEW j \in of, j # i
        PROVE  R!deploymentStatusPriority(deployments[j].status) \in 2..5 /\ deployments[j].status # "active"
    <3>1. deployments[j].status # "active"
      BY <2>2 DEF R!IndInv, R!ActiveIsNamed, R!Is
    <3>2. deployments[j].status \in { "active", "canary", "candidate", "deprecated", "retired" }
      BY StatusOrder DEF R!IndInv, R!RegistryTypes, R!Deployment
    <3> QED BY <3>1, <3>2, StatusOrder
  <2>3. \A j \in of : R!compareDeploymentSelection(i, j)
    <3> SUFFICES ASSUME NEW j \in of PROVE R!compareDeploymentSelection(i, j)
      OBVIOUS
    <3>1. CASE j = i
      <4>1. deployments[i].at \in Nat
        BY <2>1 DEF R!IndInv, R!RegistryTypes, R!Deployment
      <4> QED BY <3>1, <4>1 DEF R!compareDeploymentSelection
    <3>2. CASE j # i
      BY <2>1, <2>2, <3>2, StatusOrder DEF R!compareDeploymentSelection
    <3> QED BY <3>1, <3>2
  <2>4. ASSUME NEW k \in of, \A j \in of : R!compareDeploymentSelection(k, j) PROVE k = i
    <3> SUFFICES ASSUME k # i PROVE FALSE
      OBVIOUS
    <3>1. R!deploymentStatusPriority(deployments[k].status) \in 2..5 /\ deployments[k].status # "active"
      BY <2>2
    <3>2. R!compareDeploymentSelection(k, i)
      BY <2>1, <2>4
    <3> QED BY <2>1, <3>1, <3>2, StatusOrder DEF R!compareDeploymentSelection
  <2>5. i = CHOOSE k \in of : \A j \in of : R!compareDeploymentSelection(k, j)
    BY <2>1, <2>3, <2>4
  <2> QED BY <2>1, <2>5 DEF R!findDeploymentByStateMachine
<1> QED BY <1>1, <1>2, <1>3, PTL DEF Spec

-----------------------------------------------------------------------------
(* The task board.                                                         *)
LEMMA NoneIsNone ==
  /\ T!None \notin T!Task /\ T!None \notin T!Hook /\ T!None \notin T!Overlay
  /\ T!None \notin T!Delegation /\ T!None \notin T!Authorization
BY DEF T!None, T!Task, T!Hook, T!Overlay, T!Delegation, T!Authorization

(* A task is completed by the earliest of its signals that was submitted.  *)
LEMMA Marked ==
  ASSUME NEW h \in Hooks, NEW task \in T!Task, signals \in [ Signals -> 0..MaxEvents ],
         NEW r, r = T!markTaskSubmittedFromExistingSignals(h, task)
  PROVE  /\ r \in T!Task /\ r.signals = task.signals /\ r.role = task.role /\ r.by = task.by
         /\ task.status = "cancelled" => r = task
         /\ r.status = "cancelled" => task.status = "cancelled"
         /\ r = task \/ (r.status = "submitted" /\ \E sig \in Signals : signals[sig] = r.proof)
         /\ \A sig \in Signals : signals[sig] > 0 /\ T!taskMatchesSubmittedSignal(h, r, sig) =>
              r.status # "ready" /\ (r.status = "submitted" => r.proof <= signals[sig])
<1> DEFINE matching == { x \in Signals : signals[x] > 0 /\ T!taskMatchesSubmittedSignal(h, task, x) }
           proofs == { signals[x] : x \in matching }
           first == T!Min(proofs)
<1>1. task.status \in { "ready", "submitted", "cancelled" } /\ task.proof \in 1..MaxEvents /\ MaxEvents \in Nat
  BY IndexerConstants DEF T!Task
<1>2. r = IF proofs = {} THEN task ELSE T!markTaskSubmitted(task, first)
  BY DEF T!markTaskSubmittedFromExistingSignals
<1>3. \A x \in proofs : x \in 1..MaxEvents /\ x \in Nat
  BY <1>1
<1>4. CASE proofs = {}
  <2>1. r = task
    BY <1>2, <1>4
  <2>2. \A sig \in Signals : ~(signals[sig] > 0 /\ T!taskMatchesSubmittedSignal(h, task, sig))
    BY <1>4
  <2> QED BY <2>1, <2>2
<1>5. CASE proofs # {}
  <2>1. first \in proofs /\ \A x \in proofs : first <= x
    <3>1. \E x \in proofs : \A y \in proofs : x <= y
      <4> HIDE DEF proofs
      <4> QED BY <1>3, <1>5, LeastOf
    <3> QED BY <3>1 DEF T!Min
  <2>2. first \in 1..MaxEvents /\ \E sig \in Signals : signals[sig] = first
    BY <1>3, <2>1
  <2>3. \A sig \in Signals : signals[sig] > 0 /\ T!taskMatchesSubmittedSignal(h, task, sig) => first <= signals[sig]
    BY <2>1
  <2>4. \A sig \in Signals : signals[sig] \in Int
    OBVIOUS
  <2> HIDE DEF first, proofs, matching
  <2>5. CASE task.status = "cancelled"
    <3>1. r = task
      BY <1>2, <1>5, <2>5 DEF T!markTaskSubmitted
    <3> QED BY <2>5, <3>1
  <2>6. CASE task.status = "submitted" /\ first >= task.proof
    <3>1. r = task
      BY <1>2, <1>5, <2>6 DEF T!markTaskSubmitted
    <3>2. \A sig \in Signals : signals[sig] > 0 /\ T!taskMatchesSubmittedSignal(h, task, sig) => task.proof <= signals[sig]
      BY <1>1, <2>2, <2>3, <2>4, <2>6
    <3> QED BY <2>6, <3>1, <3>2
  <2>7. CASE task.status # "cancelled" /\ ~(task.status = "submitted" /\ first >= task.proof)
    <3>1. r = [ task EXCEPT !.status = "submitted", !.proof = first ]
      BY <1>2, <1>5, <2>7 DEF T!markTaskSubmitted
    <3>2. r \in T!Task /\ r.signals = task.signals /\ r.role = task.role /\ r.by = task.by
          /\ r.status = "submitted" /\ r.proof = first
      BY <2>2, <3>1 DEF T!Task
    <3>3. \A sig : T!taskMatchesSubmittedSignal(h, r, sig) <=> T!taskMatchesSubmittedSignal(h, task, sig)
      BY <3>2 DEF T!taskMatchesSubmittedSignal
    <3> QED BY <2>2, <2>3, <2>7, <3>2, <3>3
  <2> QED BY <2>5, <2>6, <2>7
<1> QED BY <1>4, <1>5

LEMMA TasksInit == T!Init => T!IndInv
<1> SUFFICES ASSUME T!Init PROVE T!IndInv
  OBVIOUS
<1>1. T!TypeOK
  BY IndexerConstants DEF T!Init, T!TypeOK
<1>2. T!Positions
  BY DEF T!Init, T!Positions
<1>3. \A h \in Hooks : ~T!Present(tasks[h])
  BY DEF T!Init, T!Present
<1> QED BY <1>1, <1>2, <1>3 DEF T!IndInv, T!ProofInv, T!Covered, T!CancelledStays, T!ExecutorHoldsStage

(* A hook whose task keeps its signals, status and proof.                  *)
LEMMA KeptTask ==
  ASSUME NEW h \in Hooks, T!ProofInv(h), T!Covered(h), T!TypeOK, signals' = signals, position' = position + 1,
         T!Present(tasks'[h]) =>
           /\ T!Present(tasks[h]) /\ tasks'[h].status = tasks[h].status
           /\ tasks'[h].proof = tasks[h].proof /\ tasks'[h].signals = tasks[h].signals,
         \A sig \in Signals : T!Ties(sig, h)' => T!Ties(sig, h)
  PROVE  T!ProofInv(h)' /\ T!Covered(h)'
<1> SUFFICES ASSUME T!Present(tasks'[h]) PROVE T!ProofInv(h)' /\ T!Covered(h)'
  BY DEF T!ProofInv, T!Covered, T!Present
<1>1. \A sig : T!taskMatchesSubmittedSignal(h, tasks'[h], sig) <=> T!taskMatchesSubmittedSignal(h, tasks[h], sig)
  BY DEF T!taskMatchesSubmittedSignal
<1>2. T!Covered(h)'
  BY <1>1 DEF T!Covered
<1>3. position \in Int /\ tasks[h] \in T!Task
  BY DEF T!TypeOK, T!Present
<1>4. tasks[h].proof \in Int
  BY <1>3 DEF T!Task
<1>5. T!ProofInv(h)'
  BY <1>1, <1>3, <1>4 DEF T!ProofInv
<1> QED BY <1>2, <1>5

(* A hook whose task is matched with the signals that are there.           *)
LEMMA MarkedTask ==
  ASSUME NEW h \in Hooks, T!TypeOK, T!Positions, signals' = signals, position' = position + 1,
         NEW task \in T!Task, tasks'[h] = T!markTaskSubmittedFromExistingSignals(h, task),
         task.proof <= position + 1,
         task.status = "submitted" => \E sig \in Signals : signals[sig] = task.proof,
         \A sig \in Signals : T!Ties(sig, h)' => T!taskMatchesSubmittedSignal(h, task, sig)
  PROVE  /\ T!ProofInv(h)' /\ T!Covered(h)' /\ tasks'[h] \in T!Task
         /\ tasks'[h].role = task.role /\ tasks'[h].by = task.by
         /\ task.status = "cancelled" => tasks'[h].status = "cancelled"
<1>j. PICK r : r = tasks'[h]
  OBVIOUS
<1>1. signals \in [ Signals -> 0..MaxEvents ] /\ position \in Int
  BY DEF T!TypeOK
<1>2. /\ r \in T!Task /\ r.signals = task.signals /\ r.role = task.role /\ r.by = task.by
      /\ task.status = "cancelled" => r = task
      /\ r.status = "cancelled" => task.status = "cancelled"
      /\ r = task \/ (r.status = "submitted" /\ \E sig \in Signals : signals[sig] = r.proof)
      /\ \A sig \in Signals : signals[sig] > 0 /\ T!taskMatchesSubmittedSignal(h, r, sig) =>
           r.status # "ready" /\ (r.status = "submitted" => r.proof <= signals[sig])
  BY <1>j, <1>1, Marked
<1>3. \A sig : T!taskMatchesSubmittedSignal(h, r, sig) <=> T!taskMatchesSubmittedSignal(h, task, sig)
  BY <1>2 DEF T!taskMatchesSubmittedSignal
<1>4. r.proof <= position + 1
  BY <1>1, <1>2 DEF T!Positions
<1>5. T!Covered(h)'
  BY <1>j, <1>3 DEF T!Covered
<1>6. T!ProofInv(h)'
  BY <1>j, <1>2, <1>4 DEF T!ProofInv, T!taskMatchesSubmittedSignal
<1> QED BY <1>j, <1>2, <1>5, <1>6

(* What a step has in hand.                                                *)
LEMMA TaskAt ==
  ASSUME T!IndInv, NEW h \in Hooks
  PROVE  /\ T!ProofInv(h) /\ T!Covered(h) /\ T!TypeOK /\ T!Positions
         /\ T!Present(tasks[h]) =>
              /\ tasks[h] \in T!Task /\ tasks[h].proof <= position /\ tasks[h].proof \in Nat
              /\ tasks[h].status = "submitted" => \E sig \in Signals : signals[sig] = tasks[h].proof
              /\ tasks[h].signals \subseteq Signals
         /\ StageOf[h] \in Stages
<1>1. T!Present(tasks[h]) => tasks[h] \in T!Task
  BY DEF T!IndInv, T!TypeOK, T!Present
<1>2. tasks[h] \in T!Task => tasks[h].proof \in Nat /\ tasks[h].signals \subseteq Signals
  BY IndexerConstants DEF T!Task
<1> QED BY <1>1, <1>2, IndexerConstants DEF T!IndInv, T!ProofInv

LEMMA Refreshed ==
  ASSUME NEW h, NEW caps, caps \subseteq T!Capability, authorizations \subseteq T!Authorization
  PROVE  T!refreshTaskSubmitSignals(h, caps) \subseteq Signals
<1>1. \A c \in caps : c.signal \in Signals
  BY DEF T!Capability
<1>2. \A a \in authorizations : a.signal \in Signals
  BY DEF T!Authorization
<1> DEFINE plan == T!planSubmitSignalsForStage(caps, StageOf[h])
<1>3. plan \subseteq Signals
  BY <1>1 DEF T!planSubmitSignalsForStage
<1> HIDE DEF plan
<1>4. { a.signal : a \in { x \in authorizations : T!signalAuthorizationMatchesHook(x, h, plan) } } \subseteq Signals
  BY <1>2
<1> QED BY <1>3, <1>4 DEF T!refreshTaskSubmitSignals, plan

LEMMA CapabilityStep ==
  ASSUME T!IndInv, NEW s \in Stages, NEW sig \in Signals, NEW rel \in T!Relations,
         T!SignalCapabilityRegistered(s, sig, rel)
  PROVE  T!IndInv'
<1> DEFINE new == [ stage |-> s, signal |-> sig, relation |-> rel ]
           caps == capabilities \cup { new }
           next(h) == [ tasks[h] EXCEPT !.signals = T!refreshTaskSubmitSignals(h, caps) ]
<1>0. /\ capabilities' = caps /\ position < MaxEvents /\ position' = position + 1
      /\ tasks' = [ h \in Hooks |-> IF h \in T!TasksOf(s)
                                    THEN T!markTaskSubmittedFromExistingSignals(h, next(h)) ELSE tasks[h] ]
      /\ UNCHANGED << authorizations, signals, delegations, executorOverlays, resourceOverlays, hooks, stage, inactive >>
      /\ T!TypeOK /\ T!Positions
  BY DEF T!SignalCapabilityRegistered, T!Event, T!Here, T!IndInv
<1>1. caps \subseteq T!Capability
  BY <1>0 DEF T!TypeOK, T!Capability
<1>2. \A h \in Hooks, x \in Signals : T!Ties(x, h)' =>
         T!Ties(x, h) \/ (StageOf[h] = s /\ x = sig /\ rel = "current")
  BY <1>0 DEF T!Ties, T!Present
<1>3. ASSUME NEW h \in Hooks, h \in T!TasksOf(s)
      PROVE  /\ T!ProofInv(h)' /\ T!Covered(h)' /\ tasks'[h] \in T!Task
             /\ tasks'[h].role = tasks[h].role /\ tasks'[h].by = tasks[h].by /\ T!Present(tasks[h])
             /\ tasks[h].status = "cancelled" => tasks'[h].status = "cancelled"
  <2>1. tasks[h] \in T!Task /\ T!Present(tasks[h]) /\ tasks[h].proof <= position /\ tasks[h].proof \in Nat
        /\ (tasks[h].status = "submitted" => \E x \in Signals : signals[x] = tasks[h].proof)
    BY <1>3, TaskAt DEF T!TasksOf
  <2>2. T!refreshTaskSubmitSignals(h, caps) \subseteq Signals
    BY <1>0, <1>1, Refreshed DEF T!TypeOK
  <2>3. \A x \in Signals : T!Ties(x, h)' => x \in T!refreshTaskSubmitSignals(h, caps) \/ NamedHook[x] = h
    BY <1>0 DEF T!Ties, T!refreshTaskSubmitSignals, T!planSubmitSignalsForStage
  <2>4. next(h) \in T!Task /\ next(h).signals = T!refreshTaskSubmitSignals(h, caps) /\ next(h).status = tasks[h].status
        /\ next(h).proof = tasks[h].proof /\ next(h).role = tasks[h].role /\ next(h).by = tasks[h].by
    BY <2>1, <2>2 DEF T!Task
  <2>5. tasks'[h] = T!markTaskSubmittedFromExistingSignals(h, next(h))
    BY <1>0, <1>3
  <2> HIDE DEF next, caps
  <2>6. \A x \in Signals : T!Ties(x, h)' => T!taskMatchesSubmittedSignal(h, next(h), x)
    BY <2>3, <2>4 DEF T!taskMatchesSubmittedSignal
  <2>7. next(h).proof <= position + 1
    BY <1>0, <2>1, <2>4 DEF T!TypeOK
  <2> QED BY <1>0, <2>1, <2>4, <2>5, <2>6, <2>7, MarkedTask
<1>4. ASSUME NEW h \in Hooks, h \notin T!TasksOf(s)
      PROVE  T!ProofInv(h)' /\ T!Covered(h)' /\ tasks'[h] = tasks[h]
  <2>1. tasks'[h] = tasks[h]
    BY <1>0, <1>4
  <2>2. T!Present(tasks[h]) => StageOf[h] # s
    BY <1>4 DEF T!TasksOf
  <2>3. CASE T!Present(tasks[h])
    BY <1>0, <1>2, <2>1, <2>2, <2>3, KeptTask, TaskAt
  <2>4. CASE ~T!Present(tasks[h])
    BY <2>1, <2>4 DEF T!ProofInv, T!Covered, T!Present
  <2> QED BY <2>1, <2>3, <2>4
<1>5. T!TypeOK'
  <2>1. tasks' \in [ Hooks -> T!Task \cup {T!None} ]
    <3>1. DOMAIN tasks' = Hooks /\ tasks' = [ h \in Hooks |-> tasks'[h] ]
      BY <1>0
    <3>2. \A h \in Hooks : tasks'[h] \in T!Task \cup {T!None}
      BY <1>0, <1>3, <1>4 DEF T!TypeOK
    <3> QED BY <3>1, <3>2
  <2>2. position' \in 0..MaxEvents
    BY <1>0, IndexerConstants DEF T!TypeOK
  <2> HIDE DEF caps
  <2> QED BY <1>0, <1>1, <2>1, <2>2 DEF T!TypeOK
<1>6. T!Positions'
  BY <1>0 DEF T!Positions, T!TypeOK
<1>7. T!CancelledStays'
  BY <1>0, <1>3, <1>4, NoneIsNone DEF T!CancelledStays, T!IndInv, T!Present
<1>8. T!ExecutorHoldsStage'
  BY <1>0, <1>3, <1>4 DEF T!ExecutorHoldsStage, T!IndInv, T!Present, T!findActiveStageOverlayForHook
<1> QED BY <1>3, <1>4, <1>5, <1>6, <1>7, <1>8 DEF T!IndInv

LEMMA AuthorizedStep ==
  ASSUME T!IndInv, NEW sig \in Signals, NEW w \in Wallets, T!SignalSubmitterAuthorized(sig, w)
  PROVE  T!IndInv'
<1> DEFINE a == [ signal |-> sig, by |-> w, at |-> position + 1 ]
           assigned(h) == T!Present(tasks[h]) /\ ~T!findActiveStageOverlayForHook(h)
                            /\ T!signalAuthorizationMatchesHook(a, h, tasks[h].signals)
           next(h) == [ tasks[h] EXCEPT !.role = "authorized_submitter", !.by = w, !.signals = tasks[h].signals \cup {sig} ]
<1>0. /\ position < MaxEvents /\ position' = position + 1
      /\ authorizations' = { x \in authorizations : x.signal # sig \/ x.by # w } \cup {a}
      /\ tasks' = [ h \in Hooks |-> T!markMatchingTasksAssigned(a, h) ]
      /\ UNCHANGED << capabilities, signals, delegations, executorOverlays, resourceOverlays, hooks, stage, inactive >>
      /\ T!TypeOK /\ T!Positions
  BY DEF T!SignalSubmitterAuthorized, T!Event, T!Here, T!IndInv
<1>1. a \in T!Authorization /\ a.signal = sig /\ a.by = w
  BY <1>0, IndexerConstants DEF T!TypeOK, T!Authorization
<1>2. \A h \in Hooks, x \in Signals : T!Ties(x, h)' => T!Ties(x, h)
  BY <1>0 DEF T!Ties, T!Present
<1>3. ASSUME NEW h \in Hooks, assigned(h)
      PROVE  /\ T!ProofInv(h)' /\ T!Covered(h)' /\ tasks'[h] \in T!Task
             /\ T!Present(tasks[h]) /\ ~T!findActiveStageOverlayForHook(h)
             /\ tasks[h].status = "cancelled" => tasks'[h].status = "cancelled"
  <2>1. tasks[h] \in T!Task /\ T!Present(tasks[h]) /\ tasks[h].proof <= position /\ tasks[h].proof \in Nat
        /\ (tasks[h].status = "submitted" => \E x \in Signals : signals[x] = tasks[h].proof)
        /\ tasks[h].signals \subseteq Signals
    BY <1>3, TaskAt
  <2>2. next(h) \in T!Task /\ next(h).signals = tasks[h].signals \cup {sig} /\ next(h).status = tasks[h].status
        /\ next(h).proof = tasks[h].proof
    BY <2>1 DEF T!Task, T!Roles
  <2>3. tasks'[h] = T!markTaskSubmittedFromExistingSignals(h, next(h))
    BY <1>0, <1>1, <1>3 DEF T!markMatchingTasksAssigned
  <2>4. \A x \in Signals : T!Ties(x, h) => T!taskMatchesSubmittedSignal(h, tasks[h], x)
    BY <2>1, TaskAt DEF T!Covered
  <2> HIDE DEF next, a
  <2>5. \A x \in Signals : T!Ties(x, h)' => T!taskMatchesSubmittedSignal(h, next(h), x)
    BY <1>2, <2>2, <2>4 DEF T!taskMatchesSubmittedSignal
  <2>6. next(h).proof <= position + 1
    BY <1>0, <2>1, <2>2 DEF T!TypeOK
  <2> QED BY <1>0, <1>3, <2>1, <2>2, <2>3, <2>5, <2>6, MarkedTask
<1>4. ASSUME NEW h \in Hooks, ~assigned(h)
      PROVE  T!ProofInv(h)' /\ T!Covered(h)' /\ tasks'[h] = tasks[h]
  <2>1. tasks'[h] = tasks[h]
    BY <1>0, <1>4 DEF T!markMatchingTasksAssigned
  <2> QED BY <1>0, <1>2, <2>1, KeptTask, TaskAt
<1>5. T!TypeOK'
  <2>1. tasks' \in [ Hooks -> T!Task \cup {T!None} ]
    BY <1>0, <1>3, <1>4 DEF T!TypeOK
  <2>2. position' \in 0..MaxEvents
    BY <1>0, IndexerConstants DEF T!TypeOK
  <2>3. authorizations' \subseteq T!Authorization
    BY <1>0, <1>1 DEF T!TypeOK
  <2> QED BY <1>0, <2>1, <2>2, <2>3 DEF T!TypeOK
<1>6. T!Positions'
  BY <1>0 DEF T!Positions, T!TypeOK
<1>7. T!CancelledStays'
  BY <1>0, <1>3, <1>4 DEF T!CancelledStays, T!IndInv, T!Present
<1>8. T!ExecutorHoldsStage'
  BY <1>0, <1>3, <1>4 DEF T!ExecutorHoldsStage, T!IndInv, T!Present, T!findActiveStageOverlayForHook
<1> QED BY <1>3, <1>4, <1>5, <1>6, <1>7, <1>8 DEF T!IndInv

(* A signal completes the tasks that know it; it is later than every other. *)
LEMMA SubmittedStep ==
  ASSUME T!IndInv, NEW sig \in Signals, T!SignalSubmitted(sig)
  PROVE  T!IndInv'
<1>0. /\ position < MaxEvents /\ position' = position + 1 /\ signals[sig] = 0
      /\ signals' = [ signals EXCEPT ![sig] = position + 1 ]
      /\ tasks' = T!markMatchingTasksSubmitted(sig, position + 1)
      /\ stage' = [ stage EXCEPT !.registered = TRUE ]
      /\ UNCHANGED << capabilities, authorizations, delegations, executorOverlays, resourceOverlays, hooks, inactive >>
      /\ T!TypeOK /\ T!Positions
  BY DEF T!SignalSubmitted, T!Event, T!Here, T!IndInv
<1>1. /\ signals \in [ Signals -> 0..MaxEvents ] /\ position \in 0..MaxEvents /\ MaxEvents \in Nat
      /\ position + 1 \in 1..MaxEvents
  BY <1>0, IndexerConstants DEF T!TypeOK
<1>2. /\ signals' \in [ Signals -> 0..MaxEvents ] /\ signals'[sig] = position + 1
      /\ \A x \in Signals : x # sig => signals'[x] = signals[x] /\ signals[x] <= position
  BY <1>0, <1>1 DEF T!Positions
<1>3. \A h \in Hooks, x \in Signals : T!Ties(x, h)' => T!Ties(x, h)
  BY <1>0 DEF T!Ties, T!Present
<1>4. ASSUME NEW h \in Hooks, T!Present(tasks[h]), T!taskMatchesSubmittedSignal(h, tasks[h], sig)
      PROVE  /\ T!ProofInv(h)' /\ T!Covered(h)' /\ tasks'[h] \in T!Task
             /\ tasks'[h].role = tasks[h].role /\ tasks'[h].by = tasks[h].by
             /\ tasks[h].status = "cancelled" => tasks'[h].status = "cancelled"
  <2>1. tasks'[h] = T!markTaskSubmitted(tasks[h], position + 1)
    BY <1>0, <1>4 DEF T!markMatchingTasksSubmitted
  <2>2. /\ tasks[h] \in T!Task /\ tasks[h].proof <= position /\ tasks[h].proof \in Nat
        /\ (tasks[h].status = "submitted" => \E x \in Signals : signals[x] = tasks[h].proof)
        /\ T!ProofInv(h) /\ T!Covered(h) /\ tasks[h].status \in { "ready", "submitted", "cancelled" }
        /\ tasks[h].proof \in 1..MaxEvents
    BY <1>4, TaskAt DEF T!Task
  <2>3. CASE tasks[h].status # "ready"
    <3>1. tasks'[h] = tasks[h]
      BY <1>1, <2>1, <2>2, <2>3 DEF T!markTaskSubmitted
    <3>2. T!Covered(h)'
      BY <1>3, <2>2, <3>1 DEF T!Covered, T!taskMatchesSubmittedSignal, T!Present
    <3>3. T!ProofInv(h)'
      <4>1. \A x \in Signals : signals'[x] > 0 /\ T!taskMatchesSubmittedSignal(h, tasks[h], x) =>
              (tasks[h].status = "submitted" => tasks[h].proof <= signals'[x])
        BY <1>1, <1>2, <1>4, <2>2 DEF T!ProofInv
      <4>2. tasks[h].status = "submitted" => \E x \in Signals : signals'[x] = tasks[h].proof
        BY <1>0, <1>2, <2>2
      <4>3. tasks[h].proof <= position'
        BY <1>0, <1>1, <2>2
      <4> QED BY <2>3, <3>1, <4>1, <4>2, <4>3 DEF T!ProofInv, T!taskMatchesSubmittedSignal
    <3> QED BY <2>2, <3>1, <3>2, <3>3
  <2>4. CASE tasks[h].status = "ready"
    <3> DEFINE r == [ tasks[h] EXCEPT !.status = "submitted", !.proof = position + 1 ]
    <3>1. tasks'[h] = r
      BY <2>1, <2>4 DEF T!markTaskSubmitted
    <3>2. r \in T!Task /\ r.signals = tasks[h].signals /\ r.status = "submitted" /\ r.proof = position + 1
          /\ r.role = tasks[h].role /\ r.by = tasks[h].by
      BY <1>1, <2>2 DEF T!Task
    <3> HIDE DEF r
    <3>3. \A x \in Signals : T!taskMatchesSubmittedSignal(h, r, x) <=> T!taskMatchesSubmittedSignal(h, tasks[h], x)
      BY <3>2 DEF T!taskMatchesSubmittedSignal
    <3>4. T!Covered(h)'
      BY <1>3, <1>4, <2>2, <3>1, <3>3 DEF T!Covered, T!taskMatchesSubmittedSignal, T!Present
    <3>5. \A x \in Signals : x # sig /\ T!taskMatchesSubmittedSignal(h, tasks[h], x) => ~(signals'[x] > 0)
      BY <1>2, <1>4, <2>2, <2>4 DEF T!ProofInv
    <3>6. \A x \in Signals : signals'[x] > 0 /\ T!taskMatchesSubmittedSignal(h, r, x) => r.proof <= signals'[x]
      BY <1>1, <1>2, <3>2, <3>3, <3>5
    <3>7. T!ProofInv(h)'
      BY <1>0, <1>1, <1>2, <3>1, <3>2, <3>6 DEF T!ProofInv, T!taskMatchesSubmittedSignal
    <3> QED BY <2>4, <3>1, <3>2, <3>4, <3>7
  <2> QED BY <2>3, <2>4
<1>5. ASSUME NEW h \in Hooks, ~(T!Present(tasks[h]) /\ T!taskMatchesSubmittedSignal(h, tasks[h], sig))
      PROVE  T!ProofInv(h)' /\ T!Covered(h)' /\ tasks'[h] = tasks[h]
  <2>1. tasks'[h] = tasks[h]
    BY <1>0, <1>5 DEF T!markMatchingTasksSubmitted
  <2>2. T!ProofInv(h) /\ T!Covered(h)
    BY TaskAt
  <2>3. T!Covered(h)'
    BY <1>3, <2>1, <2>2 DEF T!Covered, T!taskMatchesSubmittedSignal, T!Present
  <2>4. T!ProofInv(h)'
    <3> SUFFICES ASSUME T!Present(tasks[h])
                 PROVE  /\ tasks[h].proof <= position'
                        /\ tasks[h].status = "submitted" => \E x \in Signals : signals'[x] = tasks[h].proof
                        /\ \A x \in Signals : signals'[x] > 0 /\ T!taskMatchesSubmittedSignal(h, tasks[h], x) =>
                             tasks[h].status # "ready" /\ (tasks[h].status = "submitted" => tasks[h].proof <= signals'[x])
      BY <2>1 DEF T!ProofInv, T!taskMatchesSubmittedSignal, T!Present
    <3>1. tasks[h].proof \in Nat /\ tasks[h].proof <= position
          /\ (tasks[h].status = "submitted" => \E x \in Signals : signals[x] = tasks[h].proof)
          /\ tasks[h].proof \in 1..MaxEvents
      BY TaskAt DEF T!Task
    <3>2. tasks[h].status = "submitted" => \E x \in Signals : signals'[x] = tasks[h].proof
      BY <1>0, <1>2, <3>1
    <3> QED BY <1>0, <1>1, <1>2, <1>5, <2>2, <3>1, <3>2 DEF T!ProofInv
  <2> QED BY <2>1, <2>3, <2>4
<1>6. T!TypeOK'
  <2>1. tasks' \in [ Hooks -> T!Task \cup {T!None} ]
    <3>1. tasks' = [ h \in Hooks |-> tasks'[h] ]
      BY <1>0 DEF T!markMatchingTasksSubmitted
    <3>2. \A h \in Hooks : tasks'[h] \in T!Task \cup {T!None}
      BY <1>0, <1>4, <1>5 DEF T!TypeOK
    <3> QED BY <3>1, <3>2
  <2>2. stage' \in [ current : Stages \cup {T!None}, registered : BOOLEAN ]
    BY <1>0 DEF T!TypeOK
  <2> QED BY <1>0, <1>1, <1>2, <2>1, <2>2 DEF T!TypeOK
<1>7. T!Positions'
  BY <1>0, <1>1, <1>2 DEF T!Positions, T!TypeOK
<1>8. T!CancelledStays'
  BY <1>0, <1>4, <1>5 DEF T!CancelledStays, T!IndInv, T!Present
<1>9. T!ExecutorHoldsStage'
  BY <1>0, <1>4, <1>5 DEF T!ExecutorHoldsStage, T!IndInv, T!Present, T!findActiveStageOverlayForHook
<1> QED BY <1>4, <1>5, <1>6, <1>7, <1>8, <1>9 DEF T!IndInv

(* The executor of a stage changes, and with it who holds its tasks.       *)
LEMMA ExecutorStep ==
  ASSUME T!IndInv, NEW s \in Stages, NEW n \in T!Nonces,
         T!StageExecutorPatchApplied(s, n) \/ T!StageExecutorActivated(s, n)
  PROVE  T!IndInv'
<1>0. /\ position < MaxEvents /\ position' = position + 1 /\ T!TypeOK /\ T!Positions
      /\ inactive' = inactive \/ inactive' = inactive + 1
      /\ UNCHANGED << capabilities, authorizations, signals, delegations, resourceOverlays, hooks, stage >>
  BY DEF T!StageExecutorPatchApplied, T!StageExecutorActivated, T!Event, T!Here, T!IndInv
<1>1. /\ ExecutorAt[n] \in Wallets /\ position \in 0..MaxEvents /\ inactive \in 0..MaxEvents /\ MaxEvents \in Nat
      /\ position' \in 0..MaxEvents /\ inactive' \in 0..MaxEvents /\ inactive' <= position'
  BY <1>0, IndexerConstants DEF T!TypeOK, T!Nonces, T!Positions
<1>2. \A h \in Hooks, x \in Signals : T!Ties(x, h)' => T!Ties(x, h)
  BY <1>0 DEF T!Ties, T!Present
<1>3. T!Positions'
  BY <1>0, <1>1 DEF T!Positions, T!TypeOK
<1>4. CASE UNCHANGED << executorOverlays, tasks >>
  <2>1. \A h \in Hooks : T!ProofInv(h)' /\ T!Covered(h)'
    BY <1>0, <1>2, <1>4, KeptTask, TaskAt
  <2>2. T!TypeOK'
    BY <1>0, <1>1, <1>4 DEF T!TypeOK
  <2>3. T!CancelledStays' /\ T!ExecutorHoldsStage'
    BY <1>0, <1>4 DEF T!IndInv, T!CancelledStays, T!ExecutorHoldsStage, T!Present, T!findActiveStageOverlayForHook
  <2> QED BY <1>3, <2>1, <2>2, <2>3 DEF T!IndInv
<1>5. ASSUME NEW b \in BOOLEAN,
             executorOverlays' = [ executorOverlays EXCEPT ![s] = [ by |-> ExecutorAt[n], nonce |-> n, activated |-> b ] ],
             tasks' = T!markTargetStageTasksAssignedFromOverlay(s, ExecutorAt[n])
      PROVE  T!IndInv'
  <2> DEFINE o == [ by |-> ExecutorAt[n], nonce |-> n, activated |-> b ]
             next(h) == [ tasks[h] EXCEPT !.role = "stage_overlay_executor", !.by = ExecutorAt[n] ]
  <2>1. o \in T!Overlay /\ o.by = ExecutorAt[n] /\ executorOverlays' = [ executorOverlays EXCEPT ![s] = o ]
    BY <1>1, <1>5 DEF T!Overlay
  <2> HIDE DEF o
  <2>2. ASSUME NEW h \in Hooks, h \in T!TasksOf(s)
        PROVE  /\ tasks'[h] \in T!Task /\ T!Present(tasks[h]) /\ tasks'[h].role = "stage_overlay_executor"
               /\ tasks'[h].by = ExecutorAt[n] /\ tasks'[h].status = tasks[h].status
               /\ tasks'[h].proof = tasks[h].proof /\ tasks'[h].signals = tasks[h].signals
    <3>1. tasks[h] \in T!Task /\ T!Present(tasks[h])
      BY <2>2, TaskAt DEF T!TasksOf
    <3>2. tasks'[h] = next(h)
      BY <1>5, <2>2 DEF T!markTargetStageTasksAssignedFromOverlay
    <3>3. next(h) \in T!Task /\ next(h).role = "stage_overlay_executor" /\ next(h).by = ExecutorAt[n]
          /\ next(h).status = tasks[h].status /\ next(h).proof = tasks[h].proof /\ next(h).signals = tasks[h].signals
      BY <1>1, <3>1 DEF T!Task, T!Roles
    <3> HIDE DEF next
    <3> QED BY <3>1, <3>2, <3>3
  <2>3. ASSUME NEW h \in Hooks, h \notin T!TasksOf(s)
        PROVE  tasks'[h] = tasks[h] /\ (T!Present(tasks[h]) => StageOf[h] # s)
    BY <1>5, <2>3 DEF T!markTargetStageTasksAssignedFromOverlay, T!TasksOf
  <2>4. \A h \in Hooks : T!ProofInv(h)' /\ T!Covered(h)'
    BY <1>0, <1>2, <2>2, <2>3, KeptTask, TaskAt
  <2>5. T!TypeOK'
    <3>1. tasks' = [ h \in Hooks |-> tasks'[h] ]
      BY <1>5 DEF T!markTargetStageTasksAssignedFromOverlay
    <3>2. \A h \in Hooks : tasks'[h] \in T!Task \cup {T!None}
      BY <1>0, <2>2, <2>3 DEF T!TypeOK
    <3>3. executorOverlays' \in [ Stages -> T!Overlay \cup {T!None} ]
      BY <1>0, <2>1 DEF T!TypeOK
    <3> QED BY <1>0, <1>1, <3>1, <3>2, <3>3 DEF T!TypeOK
  <2>6. T!CancelledStays'
    BY <1>0, <2>2, <2>3 DEF T!IndInv, T!CancelledStays, T!Present
  <2>7. T!ExecutorHoldsStage'
    <3> SUFFICES ASSUME NEW h \in Hooks, T!Present(tasks'[h]), T!findActiveStageOverlayForHook(h)'
                 PROVE  /\ tasks'[h].role \in { "stage_overlay_executor", "delegated_stage_executor" }
                        /\ tasks'[h].role = "stage_overlay_executor" => tasks'[h].by = executorOverlays'[StageOf[h]].by
      BY DEF T!ExecutorHoldsStage, T!Present
    <3>0. StageOf[h] \in Stages /\ executorOverlays \in [ Stages -> T!Overlay \cup {T!None} ]
      BY <1>0, TaskAt DEF T!TypeOK
    <3>1. CASE h \in T!TasksOf(s)
      <4>1. StageOf[h] = s
        BY <3>1 DEF T!TasksOf
      <4> QED BY <2>1, <2>2, <3>0, <3>1, <4>1
    <3>2. CASE h \notin T!TasksOf(s)
      <4>1. tasks'[h] = tasks[h] /\ StageOf[h] # s /\ T!Present(tasks[h])
        BY <2>3, <3>2 DEF T!Present
      <4>2. executorOverlays'[StageOf[h]] = executorOverlays[StageOf[h]]
        BY <2>1, <3>0, <4>1
      <4>3. T!findActiveStageOverlayForHook(h)
        BY <4>2 DEF T!findActiveStageOverlayForHook, T!Present
      <4> QED BY <4>1, <4>2, <4>3 DEF T!IndInv, T!ExecutorHoldsStage
    <3> QED BY <3>1, <3>2
  <2> QED BY <1>3, <2>4, <2>5, <2>6, <2>7 DEF T!IndInv
<1>6. \/ UNCHANGED << executorOverlays, tasks >>
      \/ \E b \in BOOLEAN :
           /\ executorOverlays' = [ executorOverlays EXCEPT ![s] = [ by |-> ExecutorAt[n], nonce |-> n, activated |-> b ] ]
           /\ tasks' = T!markTargetStageTasksAssignedFromOverlay(s, ExecutorAt[n])
  BY DEF T!StageExecutorPatchApplied, T!StageExecutorActivated
<1> QED BY <1>4, <1>5, <1>6

LEMMA DelegationStep ==
  ASSUME T!IndInv, NEW s \in Stages, NEW n \in T!Nonces, NEW sig \in Signals,
         T!StageExecutorSignalDelegated(s, sig, n)
  PROVE  T!IndInv'
<1> DEFINE d == [ stage |-> s, by |-> ExecutorAt[n], nonce |-> n ]
           next(h) == [ tasks[h] EXCEPT !.role = "delegated_stage_executor", !.by = ExecutorAt[n],
                                        !.signals = tasks[h].signals \cup {sig} ]
<1>0. /\ position < MaxEvents /\ position' = position + 1 /\ T!TypeOK /\ T!Positions
      /\ UNCHANGED << capabilities, authorizations, signals, executorOverlays, resourceOverlays, hooks, stage, inactive >>
  BY DEF T!StageExecutorSignalDelegated, T!Event, T!Here, T!IndInv
<1>1. ExecutorAt[n] \in Wallets /\ position' \in 0..MaxEvents
  BY <1>0, IndexerConstants DEF T!TypeOK, T!Nonces
<1>2. T!Positions'
  BY <1>0, <1>1 DEF T!Positions, T!TypeOK
<1>3. CASE UNCHANGED << delegations, tasks >>
  <2>1. \A h \in Hooks, x \in Signals : T!Ties(x, h)' => T!Ties(x, h)
    BY <1>0, <1>3 DEF T!Ties, T!Present
  <2>2. \A h \in Hooks : T!ProofInv(h)' /\ T!Covered(h)'
    BY <1>0, <1>3, <2>1, KeptTask, TaskAt
  <2>3. T!TypeOK'
    BY <1>0, <1>1, <1>3 DEF T!TypeOK
  <2>4. T!CancelledStays' /\ T!ExecutorHoldsStage'
    BY <1>0, <1>3 DEF T!IndInv, T!CancelledStays, T!ExecutorHoldsStage, T!Present, T!findActiveStageOverlayForHook
  <2> QED BY <1>2, <2>2, <2>3, <2>4 DEF T!IndInv
<1>4. CASE /\ delegations' = [ delegations EXCEPT ![sig] = d ]
           /\ tasks' = T!markTargetStageTasksAssignedFromDelegation(s, sig, ExecutorAt[n])
  <2>1. d \in T!Delegation /\ d.stage = s
    BY <1>1 DEF T!Delegation
  <2> HIDE DEF d
  <2>2. /\ delegations' \in [ Signals -> T!Delegation \cup {T!None} ] /\ delegations'[sig] = d
        /\ \A x \in Signals : x # sig => delegations'[x] = delegations[x]
    BY <1>0, <1>4, <2>1 DEF T!TypeOK
  <2>3. \A h \in Hooks, x \in Signals : T!Ties(x, h)' => T!Ties(x, h) \/ (x = sig /\ StageOf[h] = s)
    BY <1>0, <2>1, <2>2 DEF T!Ties, T!Present
  <2>4. ASSUME NEW h \in Hooks, h \in T!TasksOf(s)
        PROVE  /\ T!ProofInv(h)' /\ T!Covered(h)' /\ tasks'[h] \in T!Task /\ T!Present(tasks[h])
               /\ tasks'[h].role = "delegated_stage_executor"
               /\ tasks[h].status = "cancelled" => tasks'[h].status = "cancelled"
    <3>1. tasks[h] \in T!Task /\ T!Present(tasks[h]) /\ tasks[h].proof <= position /\ tasks[h].proof \in Nat
          /\ (tasks[h].status = "submitted" => \E x \in Signals : signals[x] = tasks[h].proof)
          /\ tasks[h].signals \subseteq Signals
      BY <2>4, TaskAt DEF T!TasksOf
    <3>2. next(h) \in T!Task /\ next(h).signals = tasks[h].signals \cup {sig} /\ next(h).status = tasks[h].status
          /\ next(h).proof = tasks[h].proof /\ next(h).role = "delegated_stage_executor"
      BY <1>1, <3>1 DEF T!Task, T!Roles
    <3>3. tasks'[h] = T!markTaskSubmittedFromExistingSignals(h, next(h))
      BY <1>4, <2>4 DEF T!markTargetStageTasksAssignedFromDelegation
    <3>4. \A x \in Signals : T!Ties(x, h) => T!taskMatchesSubmittedSignal(h, tasks[h], x)
      BY <3>1, TaskAt DEF T!Covered
    <3> HIDE DEF next
    <3>5. \A x \in Signals : T!Ties(x, h)' => T!taskMatchesSubmittedSignal(h, next(h), x)
      BY <2>3, <3>2, <3>4 DEF T!taskMatchesSubmittedSignal
    <3>6. next(h).proof <= position + 1
      BY <1>0, <3>1, <3>2 DEF T!TypeOK
    <3> QED BY <1>0, <3>1, <3>2, <3>3, <3>5, <3>6, MarkedTask
  <2>5. ASSUME NEW h \in Hooks, h \notin T!TasksOf(s)
        PROVE  T!ProofInv(h)' /\ T!Covered(h)' /\ tasks'[h] = tasks[h]
    <3>1. tasks'[h] = tasks[h] /\ (T!Present(tasks[h]) => StageOf[h] # s)
      BY <1>4, <2>5 DEF T!markTargetStageTasksAssignedFromDelegation, T!TasksOf
    <3>2. CASE T!Present(tasks[h])
      BY <1>0, <2>3, <3>1, <3>2, KeptTask, TaskAt
    <3>3. CASE ~T!Present(tasks[h])
      BY <3>1, <3>3 DEF T!ProofInv, T!Covered, T!Present
    <3> QED BY <3>1, <3>2, <3>3
  <2>6. T!TypeOK'
    <3>1. tasks' = [ h \in Hooks |-> tasks'[h] ]
      BY <1>4 DEF T!markTargetStageTasksAssignedFromDelegation
    <3>2. \A h \in Hooks : tasks'[h] \in T!Task \cup {T!None}
      BY <1>0, <2>4, <2>5 DEF T!TypeOK
    <3> QED BY <1>0, <1>1, <2>2, <3>1, <3>2 DEF T!TypeOK
  <2>7. T!CancelledStays'
    BY <1>0, <2>4, <2>5 DEF T!IndInv, T!CancelledStays, T!Present
  <2>8. T!ExecutorHoldsStage'
    BY <1>0, <2>4, <2>5 DEF T!IndInv, T!ExecutorHoldsStage, T!Present, T!findActiveStageOverlayForHook
  <2> QED BY <1>2, <2>4, <2>5, <2>6, <2>7, <2>8 DEF T!IndInv
<1> QED BY <1>3, <1>4 DEF T!StageExecutorSignalDelegated

(* Events that leave the tasks and what ties signals to them alone.        *)
LEMMA QuietStep ==
  ASSUME T!IndInv,
         \/ T!DerivedSignalSubmitted
         \/ \E s \in Stages : T!StageMaterialized(s) \/ \E n \in T!Nonces : T!StageResourcePatchApplied(s, n)
         \/ \E h \in Hooks, due \in BOOLEAN : T!TimerPoked(h, due)
  PROVE  T!IndInv'
<1>0. /\ position < MaxEvents /\ position' = position + 1 /\ T!TypeOK /\ T!Positions
      /\ UNCHANGED << capabilities, authorizations, signals, delegations, executorOverlays, tasks, inactive >>
  BY DEF T!DerivedSignalSubmitted, T!StageMaterialized, T!StageResourcePatchApplied, T!TimerPoked, T!Event, T!Here, T!IndInv
<1>1. position' \in 0..MaxEvents
  BY <1>0, IndexerConstants DEF T!TypeOK
<1>2. \A h \in Hooks, x \in Signals : T!Ties(x, h)' => T!Ties(x, h)
  BY <1>0 DEF T!Ties, T!Present
<1>3. \A h \in Hooks : T!ProofInv(h)' /\ T!Covered(h)'
  BY <1>0, <1>2, KeptTask, TaskAt
<1>4. T!Positions'
  BY <1>0 DEF T!Positions, T!TypeOK
<1>5. /\ hooks' \in [ Hooks -> T!Hook \cup {T!None} ]
      /\ \A h \in Hooks : T!Present(hooks'[h]) /\ hooks'[h].status = "cancelled" =>
           T!Present(hooks[h]) /\ hooks[h].status = "cancelled"
  <2>1. CASE UNCHANGED hooks
    BY <1>0, <2>1 DEF T!TypeOK
  <2>2. ASSUME NEW h \in Hooks, NEW due \in BOOLEAN, T!TimerPoked(h, due)
        PROVE  /\ hooks' \in [ Hooks -> T!Hook \cup {T!None} ]
               /\ \A k \in Hooks : T!Present(hooks'[k]) /\ hooks'[k].status = "cancelled" =>
                    T!Present(hooks[k]) /\ hooks[k].status = "cancelled"
    <3> DEFINE e == T!ensureStateMachineHook(h)
               new == [ e EXCEPT !.due = e.due \/ due ]
    <3>1. hooks' = [ hooks EXCEPT ![h] = new ] /\ hooks \in [ Hooks -> T!Hook \cup {T!None} ]
      BY <1>0, <2>2 DEF T!TimerPoked, T!TypeOK
    <3>2. e \in T!Hook /\ (e.status = "cancelled" => T!Present(hooks[h]) /\ hooks[h].status = "cancelled")
      BY <3>1 DEF T!ensureStateMachineHook, T!Present, T!Hook, T!HookStatuses
    <3> HIDE DEF e
    <3>3. new \in T!Hook /\ new.status = e.status
      BY <3>2 DEF T!Hook
    <3> HIDE DEF new
    <3> QED BY <3>1, <3>2, <3>3
  <2> QED BY <2>1, <2>2 DEF T!DerivedSignalSubmitted, T!StageMaterialized, T!StageResourcePatchApplied
<1>6. stage' \in [ current : Stages \cup {T!None}, registered : BOOLEAN ]
  <2>1. stage \in [ current : Stages \cup {T!None}, registered : BOOLEAN ]
    BY <1>0 DEF T!TypeOK
  <2>2. CASE T!DerivedSignalSubmitted
    BY <2>1, <2>2 DEF T!DerivedSignalSubmitted
  <2>3. ASSUME NEW s \in Stages, T!StageMaterialized(s)
        PROVE  stage' \in [ current : Stages \cup {T!None}, registered : BOOLEAN ]
    BY <2>3 DEF T!StageMaterialized
  <2>4. ASSUME NEW s \in Stages, NEW n \in T!Nonces, T!StageResourcePatchApplied(s, n)
        PROVE  stage' \in [ current : Stages \cup {T!None}, registered : BOOLEAN ]
    BY <2>1, <2>4 DEF T!StageResourcePatchApplied
  <2>5. ASSUME NEW h \in Hooks, NEW due \in BOOLEAN, T!TimerPoked(h, due)
        PROVE  stage' \in [ current : Stages \cup {T!None}, registered : BOOLEAN ]
    BY <2>1, <2>5 DEF T!TimerPoked
  <2> QED BY <2>2, <2>3, <2>4, <2>5
<1>7. resourceOverlays' \in [ Stages -> 0..MaxNonce ]
  <2>1. resourceOverlays \in [ Stages -> 0..MaxNonce ]
    BY <1>0 DEF T!TypeOK
  <2>2. ASSUME NEW s \in Stages, NEW n \in T!Nonces, T!StageResourcePatchApplied(s, n)
        PROVE  resourceOverlays' \in [ Stages -> 0..MaxNonce ]
    BY <2>1, <2>2, IndexerConstants DEF T!StageResourcePatchApplied, T!Nonces
  <2> QED BY <2>1, <2>2 DEF T!DerivedSignalSubmitted, T!StageMaterialized, T!TimerPoked
<1>8. T!TypeOK'
  BY <1>0, <1>1, <1>5, <1>6, <1>7 DEF T!TypeOK
<1>9. T!CancelledStays' /\ T!ExecutorHoldsStage'
  BY <1>0, <1>5 DEF T!IndInv, T!CancelledStays, T!ExecutorHoldsStage, T!Present, T!findActiveStageOverlayForHook
<1> QED BY <1>3, <1>4, <1>8, <1>9 DEF T!IndInv

LEMMA StatusOfHookStep ==
  ASSUME T!IndInv, NEW h \in Hooks, NEW st \in T!HookStatuses, NEW due \in BOOLEAN, T!HookStatusChanged(h, st, due)
  PROVE  T!IndInv'
<1> DEFINE new == [ status |-> st, due |-> due ]
           cancelled == [ tasks[h] EXCEPT !.status = "cancelled", !.proof = position + 1 ]
<1>0. /\ position < MaxEvents /\ position' = position + 1 /\ T!TypeOK /\ T!Positions
      /\ hooks' = [ hooks EXCEPT ![h] = new ]
      /\ tasks' = IF st = "cancelled" THEN T!cancelTask(h) ELSE tasks
      /\ stage' = [ stage EXCEPT !.registered = TRUE ]
      /\ UNCHANGED << capabilities, authorizations, signals, delegations, executorOverlays, resourceOverlays, inactive >>
  BY DEF T!HookStatusChanged, T!Event, T!Here, T!IndInv
<1>1. position' \in 1..MaxEvents /\ position' \in 0..MaxEvents
  BY <1>0, IndexerConstants DEF T!TypeOK
<1>2. \A k \in Hooks, x \in Signals : T!Ties(x, k)' => T!Ties(x, k)
  BY <1>0 DEF T!Ties, T!Present
<1>3. T!Positions'
  BY <1>0, <1>1 DEF T!Positions, T!TypeOK
<1>4. new \in T!Hook /\ new.status = st
  BY DEF T!Hook
<1> HIDE DEF new
<1>5. hooks' \in [ Hooks -> T!Hook \cup {T!None} ] /\ hooks'[h] = new /\ \A k \in Hooks : k # h => hooks'[k] = hooks[k]
  BY <1>0, <1>4 DEF T!TypeOK
<1>6. tasks \in [ Hooks -> T!Task \cup {T!None} ] /\ \A k \in Hooks : k # h => tasks'[k] = tasks[k]
  BY <1>0 DEF T!TypeOK, T!cancelTask
<1>7. \A k \in Hooks : tasks'[k] = tasks[k] \/ (k = h /\ st = "cancelled" /\ T!Present(tasks[h]) /\ tasks'[h] = cancelled)
  BY <1>0, <1>6 DEF T!cancelTask, T!Here
<1>8. T!Present(tasks[h]) =>
        /\ cancelled \in T!Task /\ cancelled.status = "cancelled" /\ cancelled.proof = position + 1
        /\ cancelled.signals = tasks[h].signals /\ cancelled.role = tasks[h].role /\ cancelled.by = tasks[h].by
  <2> SUFFICES ASSUME T!Present(tasks[h])
               PROVE  /\ cancelled \in T!Task /\ cancelled.status = "cancelled" /\ cancelled.proof = position + 1
                      /\ cancelled.signals = tasks[h].signals /\ cancelled.role = tasks[h].role /\ cancelled.by = tasks[h].by
    OBVIOUS
  <2>1. tasks[h] \in T!Task
    BY TaskAt
  <2> QED BY <1>0, <1>1, <2>1 DEF T!Task
<1> HIDE DEF cancelled
<1>9. st = "cancelled" /\ T!Present(tasks[h]) => tasks'[h] = cancelled
  BY <1>0, <1>6 DEF T!cancelTask, T!Here, cancelled
<1>10. ASSUME NEW k \in Hooks PROVE T!ProofInv(k)' /\ T!Covered(k)'
  <2>1. CASE tasks'[k] = tasks[k]
    BY <1>0, <1>2, <2>1, KeptTask, TaskAt
  <2>2. CASE tasks'[k] # tasks[k]
    <3>1. k = h /\ T!Present(tasks[h]) /\ tasks'[h] = cancelled
      BY <1>7, <2>2
    <3>2. \A x \in Signals : T!taskMatchesSubmittedSignal(h, cancelled, x) <=> T!taskMatchesSubmittedSignal(h, tasks[h], x)
      BY <1>8, <3>1 DEF T!taskMatchesSubmittedSignal
    <3>3. T!Covered(h)'
      BY <1>2, <3>1, <3>2, TaskAt DEF T!Covered, T!taskMatchesSubmittedSignal
    <3>4. T!ProofInv(h)'
      BY <1>0, <1>1, <1>8, <3>1 DEF T!ProofInv
    <3> QED BY <3>1, <3>3, <3>4
  <2> QED BY <2>1, <2>2
<1>11. T!TypeOK'
  <2>1. \A k \in Hooks : tasks'[k] \in T!Task \cup {T!None}
    BY <1>6, <1>7, <1>8
  <2>2. tasks' = [ k \in Hooks |-> tasks'[k] ]
    BY <1>0, <1>6 DEF T!cancelTask
  <2>3. stage' \in [ current : Stages \cup {T!None}, registered : BOOLEAN ]
    BY <1>0 DEF T!TypeOK
  <2> QED BY <1>0, <1>1, <1>5, <2>1, <2>2, <2>3 DEF T!TypeOK
<1>12. T!CancelledStays'
  <2> SUFFICES ASSUME NEW k \in Hooks, T!Present(hooks'[k]), hooks'[k].status = "cancelled", T!Present(tasks'[k])
               PROVE  tasks'[k].status = "cancelled"
    BY DEF T!CancelledStays, T!Present
  <2>1. CASE k = h
    <3>1. st = "cancelled" /\ T!Present(tasks[h])
      BY <1>4, <1>5, <1>7, <2>1 DEF T!Present
    <3> QED BY <1>8, <1>9, <2>1, <3>1
  <2>2. CASE k # h
    BY <1>5, <1>6, <2>2 DEF T!IndInv, T!CancelledStays, T!Present
  <2> QED BY <2>1, <2>2
<1>13. T!ExecutorHoldsStage'
  BY <1>0, <1>7, <1>8 DEF T!IndInv, T!ExecutorHoldsStage, T!Present, T!findActiveStageOverlayForHook
<1> QED BY <1>3, <1>10, <1>11, <1>12, <1>13 DEF T!IndInv

(* The first of the authorizations that match.                             *)
LEMMA AssignmentTyped ==
  ASSUME T!TypeOK, NEW h \in Hooks
  PROVE  /\ T!Assignment(h).role \in { "stage_overlay_executor", "authorized_submitter", "unknown" }
         /\ T!Assignment(h).by \in Wallets \cup {NoWallet}
         /\ T!findActiveStageOverlayForHook(h) =>
              /\ T!Assignment(h).role = "stage_overlay_executor"
              /\ T!Assignment(h).by = executorOverlays[StageOf[h]].by
<1> DEFINE plan == T!planSubmitSignalsForStage(capabilities, StageOf[h])
           matching == { a \in authorizations : T!signalAuthorizationMatchesHook(a, h, plan) }
           first == CHOOSE a \in matching : \A b \in matching : a.at <= b.at
<1>1. T!findSignalAuthorizationForHook(h) = IF matching = {} THEN T!None ELSE first
  BY DEF T!findSignalAuthorizationForHook
<1>2. \A a \in matching : a \in T!Authorization
  BY DEF T!TypeOK
<1> HIDE DEF plan
<1>3. matching # {} => first \in T!Authorization
  <2> SUFFICES ASSUME matching # {} PROVE first \in T!Authorization
    OBVIOUS
  <2> DEFINE positions == { a.at : a \in matching }
  <2>1. positions \subseteq Nat /\ positions # {}
    BY <1>2, IndexerConstants DEF T!Authorization
  <2>2. PICK x \in positions : \A y \in positions : x <= y
    <3> HIDE DEF positions
    <3> QED BY <2>1, LeastOf
  <2>3. PICK a \in matching : x = a.at
    OBVIOUS
  <2>4. \A b \in matching : a.at <= b.at
    BY <2>2, <2>3
  <2> QED BY <1>2, <2>3, <2>4
<1> HIDE DEF first, matching
<1>4. CASE T!findActiveStageOverlayForHook(h)
  <2>1. T!Assignment(h) = [ role |-> "stage_overlay_executor", by |-> executorOverlays[StageOf[h]].by ]
    BY <1>4 DEF T!Assignment
  <2>2. executorOverlays[StageOf[h]] \in T!Overlay
    BY <1>4, IndexerConstants DEF T!TypeOK, T!findActiveStageOverlayForHook, T!Present
  <2> QED BY <2>1, <2>2 DEF T!Overlay
<1>5. CASE ~T!findActiveStageOverlayForHook(h) /\ matching # {}
  <2>1. T!findSignalAuthorizationForHook(h) = first /\ T!Present(first)
    BY <1>1, <1>3, <1>5, NoneIsNone DEF T!Present
  <2>2. T!Assignment(h) = [ role |-> "authorized_submitter", by |-> first.by ]
    BY <1>5, <2>1 DEF T!Assignment
  <2> QED BY <1>3, <1>5, <2>2 DEF T!Authorization
<1>6. CASE ~T!findActiveStageOverlayForHook(h) /\ matching = {}
  <2>1. ~T!Present(T!findSignalAuthorizationForHook(h))
    BY <1>1, <1>6 DEF T!Present
  <2>2. T!Assignment(h) = [ role |-> "unknown", by |-> NoWallet ]
    BY <1>6, <2>1 DEF T!Assignment
  <2> QED BY <1>6, <2>2
<1> QED BY <1>4, <1>5, <1>6

LEMMA ReadyStep ==
  ASSUME T!IndInv, NEW h \in Hooks, T!HookReady(h)
  PROVE  T!IndInv'
<1> DEFINE e == T!ensureStateMachineHook(h)
           ready == [ e EXCEPT !.status = "ready" ]
           new == [ status |-> "ready", signals |-> T!refreshTaskSubmitSignals(h, capabilities),
                    role |-> T!Assignment(h).role, by |-> T!Assignment(h).by, proof |-> position + 1 ]
<1>0. /\ position < MaxEvents /\ position' = position + 1 /\ T!TypeOK /\ T!Positions
      /\ hooks' = [ hooks EXCEPT ![h] = ready ]
      /\ tasks' = [ tasks EXCEPT ![h] = T!markTaskSubmittedFromExistingSignals(h, new) ]
      /\ stage' = [ current |-> StageOf[h], registered |-> TRUE ]
      /\ UNCHANGED << capabilities, authorizations, signals, delegations, executorOverlays, resourceOverlays, inactive >>
  BY DEF T!HookReady, T!Event, T!Here, T!IndInv
<1>1. position' \in 1..MaxEvents /\ position' \in 0..MaxEvents
  BY <1>0, IndexerConstants DEF T!TypeOK
<1>2. \A k \in Hooks, x \in Signals : T!Ties(x, k)' => T!Ties(x, k)
  BY <1>0 DEF T!Ties, T!Present
<1>3. T!Positions'
  BY <1>0, <1>1 DEF T!Positions, T!TypeOK
<1>4. ready \in T!Hook /\ ready.status = "ready"
  <2>1. e \in T!Hook
    BY <1>0 DEF T!TypeOK, T!ensureStateMachineHook, T!Present, T!Hook, T!HookStatuses
  <2> HIDE DEF e
  <2> QED BY <2>1 DEF T!Hook, T!HookStatuses
<1>5. new \in T!Task /\ new.status = "ready" /\ new.proof = position + 1
      /\ new.signals = T!refreshTaskSubmitSignals(h, capabilities)
      /\ new.role = T!Assignment(h).role /\ new.by = T!Assignment(h).by
  <2>1. T!refreshTaskSubmitSignals(h, capabilities) \subseteq Signals
    BY <1>0, Refreshed DEF T!TypeOK
  <2>2. T!Assignment(h).role \in T!Roles /\ T!Assignment(h).by \in Wallets \cup {NoWallet}
    BY <1>0, AssignmentTyped DEF T!Roles
  <2> QED BY <1>0, <1>1, <2>1, <2>2 DEF T!Task
<1> HIDE DEF ready, new
<1>6. tasks'[h] = T!markTaskSubmittedFromExistingSignals(h, new) /\ \A k \in Hooks : k # h => tasks'[k] = tasks[k]
  BY <1>0 DEF T!TypeOK
<1>7. \A x \in Signals : T!Ties(x, h)' => T!taskMatchesSubmittedSignal(h, new, x)
  <2>1. \A x \in Signals : T!Ties(x, h) => x \in T!refreshTaskSubmitSignals(h, capabilities) \/ NamedHook[x] = h
    BY DEF T!Ties, T!refreshTaskSubmitSignals, T!planSubmitSignalsForStage
  <2> QED BY <1>2, <1>5, <2>1 DEF T!taskMatchesSubmittedSignal
<1>8. /\ T!ProofInv(h)' /\ T!Covered(h)' /\ tasks'[h] \in T!Task
      /\ tasks'[h].role = new.role /\ tasks'[h].by = new.by
  <2>1. new.proof <= position + 1 /\ new.status # "submitted"
    BY <1>0, <1>1, <1>5
  <2> QED BY <1>0, <1>5, <1>6, <1>7, <2>1, MarkedTask
<1>9. ASSUME NEW k \in Hooks, k # h PROVE T!ProofInv(k)' /\ T!Covered(k)'
  BY <1>0, <1>2, <1>6, <1>9, KeptTask, TaskAt
<1>10. hooks' \in [ Hooks -> T!Hook \cup {T!None} ] /\ hooks'[h] = ready /\ \A k \in Hooks : k # h => hooks'[k] = hooks[k]
  BY <1>0, <1>4 DEF T!TypeOK
<1>11. T!TypeOK'
  <2>1. \A k \in Hooks : tasks'[k] \in T!Task \cup {T!None}
    BY <1>0, <1>6, <1>8 DEF T!TypeOK
  <2>2. tasks' = [ k \in Hooks |-> tasks'[k] ]
    BY <1>0 DEF T!TypeOK
  <2>3. stage' \in [ current : Stages \cup {T!None}, registered : BOOLEAN ]
    BY <1>0, TaskAt
  <2> QED BY <1>0, <1>1, <1>10, <2>1, <2>2, <2>3 DEF T!TypeOK
<1>12. T!CancelledStays'
  <2>1. hooks'[h].status # "cancelled"
    BY <1>4, <1>10
  <2> QED BY <1>6, <1>10, <2>1 DEF T!IndInv, T!CancelledStays, T!Present
<1>13. T!ExecutorHoldsStage'
  <2> SUFFICES ASSUME NEW k \in Hooks, T!Present(tasks'[k]), T!findActiveStageOverlayForHook(k)
               PROVE  /\ tasks'[k].role \in { "stage_overlay_executor", "delegated_stage_executor" }
                      /\ tasks'[k].role = "stage_overlay_executor" => tasks'[k].by = executorOverlays[StageOf[k]].by
    BY <1>0 DEF T!ExecutorHoldsStage, T!Present, T!findActiveStageOverlayForHook
  <2>1. CASE k = h
    BY <1>0, <1>5, <1>8, <2>1, AssignmentTyped
  <2>2. CASE k # h
    BY <1>6, <2>2 DEF T!IndInv, T!ExecutorHoldsStage
  <2> QED BY <2>1, <2>2
<1> QED BY <1>3, <1>8, <1>9, <1>11, <1>12, <1>13 DEF T!IndInv

LEMMA TasksStep == T!IndInv /\ [T!Next]_(T!taskVars) => T!IndInv'
<1> SUFFICES ASSUME T!IndInv, [T!Next]_(T!taskVars) PROVE T!IndInv'
  OBVIOUS
<1>1. CASE UNCHANGED T!taskVars
  <2>1. UNCHANGED << capabilities, authorizations, signals, delegations, executorOverlays, resourceOverlays,
                     hooks, tasks, stage, inactive, position >>
    BY <1>1 DEF T!taskVars
  <2>2. T!TypeOK' /\ T!Positions' /\ T!CancelledStays' /\ T!ExecutorHoldsStage'
    BY <2>1 DEF T!IndInv, T!TypeOK, T!Positions, T!CancelledStays, T!ExecutorHoldsStage, T!Present, T!findActiveStageOverlayForHook
  <2>3. ASSUME NEW h \in Hooks PROVE T!ProofInv(h)' /\ T!Covered(h)'
    BY <2>1 DEF T!IndInv, T!ProofInv, T!Covered, T!Present, T!Ties, T!taskMatchesSubmittedSignal
  <2> QED BY <2>2, <2>3 DEF T!IndInv
<1>2. CASE T!Next
  BY <1>2, CapabilityStep, AuthorizedStep, SubmittedStep, ExecutorStep, DelegationStep, QuietStep,
     StatusOfHookStep, ReadyStep DEF T!Next, T!applyStateMachineEvent
<1> QED BY <1>1, <1>2

(* The board shows what the chain says of each task, for any order of any  *)
(* number of events, hooks, stages, signals and wallets.                   *)
THEOREM BoardShowsTheChain == Spec => []BoardTruthful
<1> DEFINE Inv == focus = "tasks" => T!IndInv
<1>1. Init => Inv
  BY TasksInit DEF Init
<1>2. Inv /\ [Next]_vars => Inv'
  BY FocusStep, TasksStep
<1>3. Inv => BoardTruthful
  <2> SUFFICES ASSUME T!IndInv PROVE T!BoardTruthful
    BY DEF BoardTruthful
  <2>1. T!NoTaskLeftReady
    BY DEF T!IndInv, T!ProofInv, T!Covered, T!NoTaskLeftReady
  <2>2. T!EarliestProof
    BY DEF T!IndInv, T!ProofInv, T!Covered, T!EarliestProof
  <2> QED BY <2>1, <2>2 DEF T!BoardTruthful, T!IndInv
<1> QED BY <1>1, <1>2, <1>3, PTL DEF Spec

-----------------------------------------------------------------------------
(* The buckets of orders.                                                  *)

(* What a table of orders always satisfies: a bucket lies under its plan,  *)
(* and one of an unknown plan lies alone.                                  *)
Filing(os) ==
  /\ os \in [ B!OrderKeys -> B!Order \cup {Absent} ]
  /\ \A k \in B!OrderKeys : os[k] # Absent => os[k].plan = k[2]
  /\ \A a \in B!Addresses, o \in Orders :
       os[<< a, NoPlan, o >>] # Absent => \A p \in Plans : os[<< a, p, o >>] = Absent

(* Buckets appear under one address only.                                  *)
GrowsUnder(os, new, a) ==
  \A k \in B!OrderKeys : new[k] # Absent => os[k] # Absent \/ k[1] = a

LEMMA BucketKey ==
  ASSUME NEW a \in B!Addresses, NEW p \in Plans \cup {NoPlan}, NEW o \in Orders
  PROVE  << a, p, o >> \in B!OrderKeys
BY DEF B!OrderKeys

LEMMA NewBucket ==
  ASSUME NEW p \in Plans \cup {NoPlan}
  PROVE  B!NewOrder(p) \in B!Order /\ B!NewOrder(p).plan = p
<1> DEFINE status == IF p = NoPlan THEN "unknown" ELSE "registered"
<1>1. status \in { "registered", "unknown" }
  OBVIOUS
<1>2. B!NewOrder(p) = [ plan |-> p, status |-> status, planHash |-> FALSE, staged |-> FALSE,
                        linked |-> FALSE, relayed |-> FALSE, trail |-> 0 ]
  BY DEF B!NewOrder
<1> HIDE DEF status
<1> QED BY <1>1, <1>2 DEF B!Order

(* Where an event is filed: in the only candidate when it names no plan.   *)
LEMMA KeyFound ==
  ASSUME NEW os, Filing(os), NEW a \in B!Addresses, NEW p \in Plans \cup {NoPlan}, NEW o \in Orders
  PROVE  LET key == B!KeyFor(os, a, p, o)
         IN /\ key \in B!OrderKeys /\ key[1] = a /\ key[3] = o
            /\ p # NoPlan => key = << a, p, o >>
            /\ os[key] = Absent => key = << a, p, o >>
            /\ p = NoPlan /\ os[key] = Absent => \A q \in Plans : os[<< a, q, o >>] = Absent
<1>1. << a, p, o >> \in B!OrderKeys
  BY BucketKey
<1>2. CASE p = NoPlan /\ B!Candidates(os, a, o) # {}
  <2>1. B!KeyFor(os, a, p, o) \in B!Candidates(os, a, o)
    BY <1>2 DEF B!KeyFor
  <2> QED BY <1>2, <2>1 DEF B!Candidates
<1>3. CASE ~(p = NoPlan /\ B!Candidates(os, a, o) # {})
  <2>1. B!KeyFor(os, a, p, o) = << a, p, o >>
    BY <1>3 DEF B!KeyFor
  <2>2. ASSUME p = NoPlan, NEW q \in Plans PROVE os[<< a, q, o >>] = Absent
    <3>1. << a, q, o >> \in B!OrderKeys
      BY BucketKey
    <3> QED BY <1>3, <2>2, <3>1 DEF B!Candidates
  <2> QED BY <1>1, <2>1, <2>2
<1> QED BY <1>2, <1>3

(* The bucket is found, adopted from an unknown plan, or made.             *)
LEMMA BucketMade ==
  ASSUME NEW os, Filing(os), NEW a \in B!Addresses, NEW p \in Plans \cup {NoPlan}, NEW o \in Orders
  PROVE  LET new == B!ensureStateMachineOrder(os, a, p, o)
             at == B!KeyFor(new, a, p, o)
         IN /\ Filing(new) /\ GrowsUnder(os, new, a)
            /\ at \in B!OrderKeys /\ new[at] # Absent /\ at[1] = a
<1> DEFINE key == B!KeyFor(os, a, p, o)
           unknown == << a, NoPlan, o >>
           new == B!ensureStateMachineOrder(os, a, p, o)
           at == B!KeyFor(new, a, p, o)
<1>0. /\ key \in B!OrderKeys /\ key[1] = a /\ key[3] = o
      /\ p # NoPlan => key = << a, p, o >>
      /\ os[key] = Absent => key = << a, p, o >>
      /\ p = NoPlan /\ os[key] = Absent => \A q \in Plans : os[<< a, q, o >>] = Absent
  BY KeyFound
<1>k. unknown \in B!OrderKeys /\ Absent \notin B!Order /\ NoPlan \notin Plans
  BY BucketKey, IndexerConstants
<1>a. /\ os \in [ B!OrderKeys -> B!Order \cup {Absent} ]
      /\ \A k \in B!OrderKeys : os[k] # Absent => os[k].plan = k[2]
      /\ \A b \in B!Addresses, x \in Orders :
           os[<< b, NoPlan, x >>] # Absent => \A q \in Plans : os[<< b, q, x >>] = Absent
  BY DEF Filing
<1>1. Filing(new) /\ GrowsUnder(os, new, a) /\ new[key] # Absent
  <2>1. CASE os[key] = Absent /\ p # NoPlan /\ os[unknown] # Absent
    <3> DEFINE adopted == [ os[unknown] EXCEPT !.plan = p ]
    <3>1. new = [ os EXCEPT ![unknown] = Absent, ![key] = adopted ]
      BY <2>1 DEF B!ensureStateMachineOrder
    <3>2. adopted \in B!Order /\ adopted.plan = p
      BY <1>a, <1>k, <2>1 DEF B!Order
    <3> HIDE DEF new, adopted
    <3>3. key = << a, p, o >> /\ key # unknown
      BY <1>0, <2>1
    <3>4. /\ new \in [ B!OrderKeys -> B!Order \cup {Absent} ]
          /\ new[key] = adopted /\ new[unknown] = Absent
          /\ \A k \in B!OrderKeys : k # key /\ k # unknown => new[k] = os[k]
      <4> HIDE DEF key, unknown
      <4> QED BY <1>0, <1>a, <1>k, <3>1, <3>2, <3>3
    <3>5. \A k \in B!OrderKeys : new[k] # Absent => new[k].plan = k[2]
      BY <1>a, <3>2, <3>3, <3>4
    <3>6. ASSUME NEW b \in B!Addresses, NEW x \in Orders, new[<< b, NoPlan, x >>] # Absent, NEW q \in Plans
          PROVE  new[<< b, q, x >>] = Absent
      <4>1. << b, NoPlan, x >> \in B!OrderKeys /\ << b, q, x >> \in B!OrderKeys
        BY BucketKey
      <4>2. << b, NoPlan, x >> # unknown /\ << b, NoPlan, x >> # key
        BY <1>k, <2>1, <3>3, <3>4, <3>6
      <4>3. os[<< b, NoPlan, x >>] # Absent
        BY <3>4, <3>6, <4>1, <4>2
      <4>4. << b, q, x >> # key /\ << b, q, x >> # unknown
        BY <1>k, <3>3, <4>2
      <4> QED BY <1>a, <3>4, <4>1, <4>3, <4>4
    <3>7. GrowsUnder(os, new, a)
      BY <1>0, <3>4 DEF GrowsUnder
    <3> QED BY <1>k, <3>2, <3>4, <3>5, <3>6, <3>7 DEF Filing
  <2>2. CASE os[key] # Absent
    <3>1. new = [ os EXCEPT ![key] = os[key] ]
      BY <2>2 DEF B!ensureStateMachineOrder
    <3> HIDE DEF new, key, unknown
    <3>2. new = os
      BY <1>0, <1>a, <3>1
    <3> QED BY <2>2, <3>2 DEF GrowsUnder
  <2>3. CASE os[key] = Absent /\ ~(p # NoPlan /\ os[unknown] # Absent)
    <3>1. new = [ os EXCEPT ![key] = B!NewOrder(p) ]
      BY <2>3 DEF B!ensureStateMachineOrder
    <3>2. B!NewOrder(p) \in B!Order /\ B!NewOrder(p).plan = p
      BY NewBucket
    <3> HIDE DEF new
    <3>3. key = << a, p, o >>
      BY <1>0, <2>3
    <3>4. /\ new \in [ B!OrderKeys -> B!Order \cup {Absent} ]
          /\ new[key] = B!NewOrder(p)
          /\ \A k \in B!OrderKeys : k # key => new[k] = os[k]
      <4> HIDE DEF key
      <4> QED BY <1>0, <1>a, <3>1, <3>2
    <3>5. \A k \in B!OrderKeys : new[k] # Absent => new[k].plan = k[2]
      BY <1>a, <3>2, <3>3, <3>4
    <3>6. ASSUME NEW b \in B!Addresses, NEW x \in Orders, new[<< b, NoPlan, x >>] # Absent, NEW q \in Plans
          PROVE  new[<< b, q, x >>] = Absent
      <4>1. << b, NoPlan, x >> \in B!OrderKeys /\ << b, q, x >> \in B!OrderKeys
        BY BucketKey
      <4>2. CASE b = a /\ x = o /\ p = NoPlan
        <5>1. os[<< a, q, o >>] = Absent /\ << a, q, o >> # key
          BY <1>0, <1>k, <2>3, <3>3, <4>2
        <5> QED BY <3>4, <4>1, <4>2, <5>1
      <4>3. CASE b = a /\ x = o /\ p # NoPlan
        <5>1. << b, NoPlan, x >> # key
          BY <3>3, <4>3
        <5> QED BY <2>3, <3>4, <3>6, <4>1, <4>3, <5>1
      <4>4. CASE ~(b = a /\ x = o)
        <5>1. << b, NoPlan, x >> # key /\ << b, q, x >> # key
          BY <3>3, <4>4
        <5> QED BY <1>a, <3>4, <3>6, <4>1, <5>1
      <4> QED BY <4>2, <4>3, <4>4
    <3>7. GrowsUnder(os, new, a)
      BY <1>0, <3>4 DEF GrowsUnder
    <3> QED BY <1>k, <3>2, <3>4, <3>5, <3>6, <3>7 DEF Filing
  <2> QED BY <2>1, <2>2, <2>3
<1>2. at \in B!OrderKeys /\ at[1] = a /\ (new[at] = Absent => at = << a, p, o >>)
      /\ (p # NoPlan => at = << a, p, o >>)
      /\ (p = NoPlan /\ new[at] = Absent => \A q \in Plans : new[<< a, q, o >>] = Absent)
  <2> HIDE DEF new
  <2> QED BY <1>1, KeyFound
<1>3. new[at] # Absent
  <2> SUFFICES ASSUME new[at] = Absent PROVE FALSE
    OBVIOUS
  <2>1. at = << a, p, o >>
    BY <1>2
  <2>2. key # << a, p, o >>
    BY <1>1, <2>1
  <2>3. p = NoPlan /\ key[2] \in Plans
    <3>1. p = NoPlan
      BY <1>0, <2>2
    <3>2. key \in B!Addresses \X (Plans \cup {NoPlan}) \X Orders
      BY <1>0 DEF B!OrderKeys
    <3>3. key = << key[1], key[2], key[3] >> /\ key[2] \in Plans \cup {NoPlan}
      BY <3>2
    <3>4. key[2] # NoPlan
      BY <1>0, <2>2, <3>1, <3>3
    <3> QED BY <3>1, <3>3, <3>4
  <2>4. key = << a, key[2], o >>
    <3>1. key \in B!Addresses \X (Plans \cup {NoPlan}) \X Orders
      BY <1>0 DEF B!OrderKeys
    <3> QED BY <1>0, <3>1
  <2> HIDE DEF new, key
  <2>5. new[<< a, key[2], o >>] = Absent
    BY <1>2, <2>3
  <2> QED BY <1>1, <2>4, <2>5
<1> QED BY <1>1, <1>2, <1>3

(* A projection is then changed in place.                                  *)
LEMMA BucketChanged ==
  ASSUME NEW os, Filing(os), NEW at \in B!OrderKeys, os[at] # Absent,
         NEW y \in B!Order, y.plan = os[at].plan
  PROVE  LET new == [ os EXCEPT ![at] = y ]
         IN Filing(new) /\ \A k \in B!OrderKeys : new[k] # Absent <=> os[k] # Absent
<1> DEFINE new == [ os EXCEPT ![at] = y ]
<1>1. /\ os \in [ B!OrderKeys -> B!Order \cup {Absent} ] /\ y # Absent
      /\ \A k \in B!OrderKeys : os[k] # Absent => os[k].plan = k[2]
  BY IndexerConstants DEF Filing
<1>2. /\ new \in [ B!OrderKeys -> B!Order \cup {Absent} ] /\ new[at] = y
      /\ \A k \in B!OrderKeys : k # at => new[k] = os[k]
  BY <1>1
<1> HIDE DEF new
<1>3. \A k \in B!OrderKeys : new[k] # Absent <=> os[k] # Absent
  BY <1>1, <1>2
<1>4. \A k \in B!OrderKeys : new[k] # Absent => new[k].plan = k[2]
  BY <1>1, <1>2
<1>5. ASSUME NEW a \in B!Addresses, NEW o \in Orders, new[<< a, NoPlan, o >>] # Absent, NEW p \in Plans
      PROVE  new[<< a, p, o >>] = Absent
  <2>1. << a, NoPlan, o >> \in B!OrderKeys /\ << a, p, o >> \in B!OrderKeys
    BY BucketKey
  <2> QED BY <1>3, <1>5, <2>1 DEF Filing
<1> QED BY <1>2, <1>3, <1>4, <1>5 DEF Filing, new

LEMMA BucketCounts ==
  \A S : B!Cardinality(S) = Cardinality(S)
BY DEF Cardinality, B!Cardinality, IsFiniteSet, B!IsFiniteSet

(* Whose event it is: the state machine that alone registered the module,  *)
(* or the emitter itself, which is then counted.                           *)
LEMMA OwnerFound ==
  ASSUME B!TypeOK, NEW emitter \in B!Addresses
  PROVE  LET found == B!resolveStateMachineAddressForModuleEvent(emitter)
         IN /\ found.machine \in B!Addresses /\ found.resolved \in BOOLEAN
            /\ found.resolved => found.machine \in Machines
<1>1. CASE Cardinality(B!Owners(emitter)) = 1
  <2>1. B!Owners(emitter) # {}
    BY <1>1, FS_EmptySet
  <2>2. (CHOOSE s \in B!Owners(emitter) : TRUE) \in B!Owners(emitter)
    BY <2>1
  <2>3. (CHOOSE s \in B!Owners(emitter) : TRUE)[1] \in Machines
    BY <2>2 DEF B!Owners, B!Slots
  <2>4. B!resolveStateMachineAddressForModuleEvent(emitter)
          = [ machine |-> (CHOOSE s \in B!Owners(emitter) : TRUE)[1], resolved |-> TRUE ]
    BY <1>1, BucketCounts DEF B!resolveStateMachineAddressForModuleEvent
  <2> QED BY <2>3, <2>4 DEF B!Addresses
<1>2. CASE Cardinality(B!Owners(emitter)) # 1
  <2>1. B!resolveStateMachineAddressForModuleEvent(emitter) = [ machine |-> emitter, resolved |-> FALSE ]
    BY <1>2, BucketCounts DEF B!resolveStateMachineAddressForModuleEvent
  <2> QED BY <2>1
<1> QED BY <1>1, <1>2

(* The plan of a genuine event is known where the event belongs.           *)
LEMMA GenuineKnown ==
  ASSUME B!IndInv, NEW emitter \in B!Addresses, NEW p, B!Genuine(emitter, p)
  PROVE  p \in Plans /\ B!PlanKnown(B!stateMachineAddressForOrderEvent(emitter), p)
<1>1. /\ modules \in [ B!Slots -> Modules \cup {Absent} ]
      /\ published \subseteq Machines \X Plans /\ \A k \in published : plans[k] # Absent
  BY DEF B!IndInv, B!BucketsSound, B!TypeOK, B!PlanKeys
<1>2. PICK m \in Machines : << m, p >> \in published
                            /\ (emitter = m \/ \E id \in ModuleIds : B!Owners(emitter) = { << m, id >> })
  BY DEF B!Genuine
<1>3. p \in Plans /\ B!PlanKnown(m, p)
  BY <1>1, <1>2 DEF B!PlanKnown, B!PlanKeys
<1>4. CASE emitter = m
  <2>1. B!Owners(emitter) = {}
    BY <1>1, <1>4, IndexerConstants DEF B!Owners
  <2>2. Cardinality(B!Owners(emitter)) # 1
    BY <2>1, FS_EmptySet
  <2>3. B!stateMachineAddressForOrderEvent(emitter) = m
    BY <1>4, <2>2, BucketCounts DEF B!stateMachineAddressForOrderEvent, B!resolveStateMachineAddressForModuleEvent
  <2> QED BY <1>3, <2>3
<1>5. CASE \E id \in ModuleIds : B!Owners(emitter) = { << m, id >> }
  <2>1. PICK id \in ModuleIds : B!Owners(emitter) = { << m, id >> }
    BY <1>5
  <2>2. Cardinality(B!Owners(emitter)) = 1
    BY <2>1, FS_Singleton
  <2>3. (CHOOSE s \in B!Owners(emitter) : TRUE) = << m, id >>
    BY <2>1
  <2> DEFINE owner == CHOOSE s \in B!Owners(emitter) : TRUE
  <2>4. B!resolveStateMachineAddressForModuleEvent(emitter) = [ machine |-> owner[1], resolved |-> TRUE ]
    BY <2>2, BucketCounts DEF B!resolveStateMachineAddressForModuleEvent
  <2>a. owner = << m, id >>
    BY <2>3
  <2> HIDE DEF owner
  <2>5. owner[1] = m
    BY <2>a
  <2>6. B!stateMachineAddressForOrderEvent(emitter) = m
    BY <2>4, <2>5 DEF B!stateMachineAddressForOrderEvent
  <2> QED BY <1>3, <2>6
<1> QED BY <1>2, <1>4, <1>5

(* The counters of a step that adds to some of them, by one each.          *)
Counts(before, after) ==
  /\ after \in [ B!Counters -> Nat ]
  /\ \A c \in B!Counters : before[c] <= after[c] /\ after[c] <= before[c] + 1

LEMMA EmitterCounted ==
  ASSUME B!TypeOK, NEW emitter \in B!Addresses
  PROVE  LET after == B!Counted(unresolved, emitter)
         IN /\ Counts(unresolved, after)
            /\ after["dock"] = unresolved["dock"] /\ after["dockTarget"] = unresolved["dockTarget"]
            /\ B!stateMachineAddressForOrderEvent(emitter) \in Machines \/ after["moduleOrder"] > 0
<1> DEFINE found == B!resolveStateMachineAddressForModuleEvent(emitter)
           after == B!Counted(unresolved, emitter)
<1>1. unresolved \in [ B!Counters -> 0..MaxReplay ] /\ MaxReplay \in Nat
  BY IndexerConstants DEF B!TypeOK
<1>2. /\ found.machine \in B!Addresses /\ found.resolved \in BOOLEAN
      /\ found.resolved => found.machine \in Machines
  BY OwnerFound
<1>3. after = [ unresolved EXCEPT !["moduleOrder"] = IF found.resolved THEN @ ELSE @ + 1 ]
  BY DEF B!Counted
<1>4. B!stateMachineAddressForOrderEvent(emitter) = found.machine
  BY DEF B!stateMachineAddressForOrderEvent
<1> HIDE DEF found, after
<1>5. /\ after \in [ B!Counters -> Nat ]
      /\ after["moduleOrder"] = IF found.resolved THEN unresolved["moduleOrder"] ELSE unresolved["moduleOrder"] + 1
      /\ after["dock"] = unresolved["dock"] /\ after["dockTarget"] = unresolved["dockTarget"]
  BY <1>1, <1>3 DEF B!Counters
<1>6. Counts(unresolved, after)
  BY <1>1, <1>5 DEF Counts, B!Counters
<1>7. B!stateMachineAddressForOrderEvent(emitter) \in Machines \/ after["moduleOrder"] > 0
  BY <1>1, <1>2, <1>4, <1>5 DEF B!Counters
<1> QED BY <1>5, <1>6, <1>7 DEF after

(* What every event keeps, and the one thing it may add of each kind.      *)
LEMMA Replayed ==
  ASSUME B!IndInv, B!Replays, NEW a \in B!Addresses,
         Filing(orders'), GrowsUnder(orders, orders', a), Counts(unresolved, unresolved'),
         (\E k \in B!OrderKeys : orders'[k] # Absent /\ orders[k] = Absent) =>
             a \in Machines \/ unresolved'["moduleOrder"] > 0,
         modules' \in [ B!Slots -> Modules \cup {Absent} ],
         plans' \in [ B!PlanKeys -> B!Plan \cup {Absent} ],
         \A k \in B!PlanKeys : plans[k] # Absent => plans'[k] # Absent,
         published' \in SUBSET B!PlanKeys,
         \A k \in published' : k \in published \/ plans'[k] # Absent,
         docks' \in [ B!DockKeys -> B!Dock \cup {Absent} ],
         sent' \in SUBSET (Docks \X Bindings \X { "input", "output" }), B!DeliveriesAccounted',
         failed' \in BOOLEAN, trusted' \in BOOLEAN, trusted' => ~failed'
  PROVE  B!IndInv'
<1>1. /\ B!TypeOK /\ B!NoSilentPhantom /\ MaxReplay \in Nat /\ Machines \cap Modules = {}
      /\ published \in SUBSET B!PlanKeys /\ \A k \in published : plans[k] # Absent
      /\ \A c \in B!Counters : unresolved[c] <= replayed
  BY IndexerConstants DEF B!IndInv, B!BucketsSound
<1>2. /\ unresolved \in [ B!Counters -> 0..MaxReplay ] /\ replayed \in 0..MaxReplay
      /\ replayed < MaxReplay /\ replayed' = replayed + 1
  BY <1>1 DEF B!TypeOK, B!Replays
<1>3. /\ replayed' \in 0..MaxReplay /\ \A c \in B!Counters : unresolved'[c] <= replayed'
      /\ unresolved' \in [ B!Counters -> 0..MaxReplay ]
  <2>1. replayed' \in 0..MaxReplay
    BY <1>1, <1>2
  <2>2. unresolved' \in [ B!Counters -> Nat ]
    BY DEF Counts
  <2>3. ASSUME NEW c \in B!Counters PROVE unresolved'[c] <= replayed' /\ unresolved'[c] \in 0..MaxReplay
    <3>1. unresolved'[c] <= unresolved[c] + 1 /\ unresolved'[c] \in Nat /\ unresolved[c] \in Nat
          /\ unresolved[c] <= replayed
      BY <1>1, <1>2 DEF Counts
    <3> QED BY <1>1, <1>2, <3>1
  <2> QED BY <2>1, <2>2, <2>3
<1>4. B!TypeOK'
  BY <1>3 DEF B!TypeOK, Filing
<1>5. B!NoSplitOrder'
  BY DEF B!NoSplitOrder, Filing
<1>6. B!NoSilentPhantom'
  <2> SUFFICES ASSUME NEW k \in B!OrderKeys, orders'[k] # Absent, k[1] \in Modules
               PROVE  unresolved'["moduleOrder"] > 0
    BY DEF B!NoSilentPhantom
  <2>1. CASE orders[k] # Absent
    <3>1. unresolved["moduleOrder"] > 0
      BY <1>1, <2>1 DEF B!NoSilentPhantom
    <3>2. /\ unresolved["moduleOrder"] <= unresolved'["moduleOrder"]
          /\ unresolved["moduleOrder"] \in Nat /\ unresolved'["moduleOrder"] \in Nat
      BY <1>2 DEF Counts, B!Counters
    <3> QED BY <3>1, <3>2
  <2>2. CASE orders[k] = Absent
    BY <1>1, <2>2 DEF GrowsUnder
  <2> QED BY <2>1, <2>2
<1>7. \A k \in published' : plans'[k] # Absent
  BY <1>1
<1>8. B!ContractStreamReplays'
  BY DEF B!ContractStreamReplays
<1> QED BY <1>3, <1>4, <1>5, <1>6, <1>7, <1>8 DEF B!IndInv, B!BucketsSound

(* Nothing is lost of what was delivered while the docks stay.             *)
LEMMA DeliveriesKept ==
  ASSUME B!IndInv, UNCHANGED << docks, sent >>, Counts(unresolved, unresolved')
  PROVE  B!DeliveriesAccounted' /\ docks' \in [ B!DockKeys -> B!Dock \cup {Absent} ]
         /\ sent' \in SUBSET (Docks \X Bindings \X { "input", "output" })
<1>1. B!TypeOK /\ B!DeliveriesAccounted
  BY DEF B!IndInv, B!BucketsSound
<1>2. unresolved["dock"] > 0 => unresolved'["dock"] > 0
  <2>1. unresolved["dock"] \in Nat /\ unresolved'["dock"] \in Nat /\ unresolved["dock"] <= unresolved'["dock"]
    BY <1>1, IndexerConstants DEF B!TypeOK, Counts, B!Counters
  <2> QED BY <2>1
<1> QED BY <1>1, <1>2 DEF B!IndInv, B!DeliveriesAccounted, B!TypeOK

LEMMA Uncounted ==
  ASSUME B!IndInv, UNCHANGED unresolved
  PROVE  Counts(unresolved, unresolved')
BY IndexerConstants DEF B!IndInv, B!BucketsSound, B!TypeOK, Counts

LEMMA OrdersFiled == B!IndInv => Filing(orders)
BY DEF B!IndInv, B!BucketsSound, B!TypeOK, B!NoSplitOrder, Filing

LEMMA BucketsInit ==
  ASSUME B!Init PROVE B!IndInv
<1>1. /\ modules = [ s \in B!Slots |-> Absent ] /\ plans = [ p \in B!PlanKeys |-> Absent ]
      /\ orders = [ k \in B!OrderKeys |-> Absent ] /\ docks = [ k \in B!DockKeys |-> Absent ]
      /\ unresolved = [ c \in B!Counters |-> 0 ]
      /\ failed = FALSE /\ replayed = 0 /\ trusted = TRUE /\ sent = {} /\ published = {}
  BY DEF B!Init, B!createEmptyProjectionSnapshot
<1>2. B!TypeOK
  <2>1. MaxReplay \in Nat /\ 0 \in 0..MaxReplay
    BY IndexerConstants
  <2>2. /\ modules \in [ B!Slots -> Modules \cup {Absent} ] /\ plans \in [ B!PlanKeys -> B!Plan \cup {Absent} ]
        /\ orders \in [ B!OrderKeys -> B!Order \cup {Absent} ] /\ docks \in [ B!DockKeys -> B!Dock \cup {Absent} ]
    BY <1>1
  <2>3. \A k \in B!OrderKeys : orders[k] = Absent
    BY <1>1
  <2>4. unresolved \in [ B!Counters -> 0..MaxReplay ] /\ replayed \in 0..MaxReplay /\ failed \in BOOLEAN
    BY <1>1, <2>1
  <2> QED BY <2>2, <2>3, <2>4 DEF B!TypeOK
<1>3. B!NoSplitOrder
  <2>1. \A a \in B!Addresses, o \in Orders : << a, NoPlan, o >> \in B!OrderKeys
    BY DEF B!OrderKeys
  <2> QED BY <1>1, <2>1 DEF B!NoSplitOrder
<1>4. B!NoSilentPhantom
  BY <1>1 DEF B!NoSilentPhantom
<1> QED BY <1>1, <1>2, <1>3, <1>4 DEF B!IndInv, B!BucketsSound, B!ContractStreamReplays, B!DeliveriesAccounted

(* Modules, plans and plan metadata: the orders' buckets stay.             *)

LEMMA OrdersStay ==
  ASSUME B!IndInv, B!Replays, NEW a \in B!Addresses, UNCHANGED << orders, docks, unresolved, sent >>,
         modules' \in [ B!Slots -> Modules \cup {Absent} ],
         plans' \in [ B!PlanKeys -> B!Plan \cup {Absent} ],
         \A k \in B!PlanKeys : plans[k] # Absent => plans'[k] # Absent,
         published' \in SUBSET B!PlanKeys,
         \A k \in published' : k \in published \/ plans'[k] # Absent,
         failed' \in BOOLEAN, trusted' \in BOOLEAN, trusted' => ~failed'
  PROVE  B!IndInv'
<1>1. Filing(orders') /\ GrowsUnder(orders, orders', a)
  BY OrdersFiled DEF GrowsUnder
<1>2. Counts(unresolved, unresolved')
  BY Uncounted
<1>3. /\ B!DeliveriesAccounted' /\ docks' \in [ B!DockKeys -> B!Dock \cup {Absent} ]
      /\ sent' \in SUBSET (Docks \X Bindings \X { "input", "output" })
  BY <1>2, DeliveriesKept
<1> QED BY <1>1, <1>2, <1>3, Replayed

LEMMA SnapshotTypes ==
  ASSUME B!IndInv
  PROVE  /\ modules \in [ B!Slots -> Modules \cup {Absent} ] /\ plans \in [ B!PlanKeys -> B!Plan \cup {Absent} ]
         /\ docks \in [ B!DockKeys -> B!Dock \cup {Absent} ] /\ failed \in BOOLEAN /\ trusted \in BOOLEAN
         /\ published \in SUBSET B!PlanKeys /\ \A k \in published : plans[k] # Absent
         /\ Absent \notin B!Order \cup B!Plan \cup B!Dock
         /\ unresolved \in [ B!Counters -> 0..MaxReplay ]
BY IndexerConstants DEF B!IndInv, B!BucketsSound, B!TypeOK

LEMMA ModuleSetStep ==
  ASSUME B!IndInv, NEW m \in Machines, NEW id \in ModuleIds, NEW new \in Modules,
         B!applyStateMachineModuleSet(m, id, new)
  PROVE  B!IndInv'
<1>1. /\ B!Replays /\ failed' = FALSE /\ modules' = [ modules EXCEPT ![<< m, id >>] = new ]
      /\ UNCHANGED << published, plans, orders, docks, unresolved, trusted, sent >>
  BY DEF B!applyStateMachineModuleSet, B!Applied
<1>2. modules' \in [ B!Slots -> Modules \cup {Absent} ]
  BY <1>1, SnapshotTypes
<1>3. m \in B!Addresses
  BY DEF B!Addresses
<1> QED BY <1>1, <1>2, <1>3, SnapshotTypes, OrdersStay

LEMMA NewPlanTyped == B!NewPlan \in B!Plan
BY DEF B!NewPlan, B!Plan

(* A plan is stored, whatever was known of it.                             *)
LEMMA PlanStored ==
  ASSUME B!IndInv, NEW k \in B!PlanKeys, NEW plan \in B!Plan, plans' = [ plans EXCEPT ![k] = plan ]
  PROVE  /\ plans' \in [ B!PlanKeys -> B!Plan \cup {Absent} ] /\ plans'[k] # Absent
         /\ \A j \in B!PlanKeys : plans[j] # Absent => plans'[j] # Absent
BY SnapshotTypes

LEMMA PlanCommittedStep ==
  ASSUME B!IndInv, NEW m \in Machines, NEW p \in Plans, B!applyPlanCommitted(m, p)
  PROVE  B!IndInv'
<1> DEFINE k == << m, p >>
           plan == B!PlanAtCommit(m, p)
<1>1. /\ B!Replays /\ failed' = FALSE /\ plans' = [ plans EXCEPT ![k] = plan ]
      /\ published' = published \cup { k }
      /\ UNCHANGED << modules, orders, docks, unresolved, trusted, sent >>
  BY DEF B!applyPlanCommitted, B!Applied
<1>2. k \in B!PlanKeys /\ m \in B!Addresses
  BY DEF B!PlanKeys, B!Addresses
<1>3. plan \in B!Plan
  BY <1>2, SnapshotTypes, NewPlanTyped DEF B!PlanAtCommit, B!Plan, B!NewPlan
<1> HIDE DEF k, plan
<1>4. /\ plans' \in [ B!PlanKeys -> B!Plan \cup {Absent} ] /\ plans'[k] # Absent
      /\ \A j \in B!PlanKeys : plans[j] # Absent => plans'[j] # Absent
  BY <1>1, <1>2, <1>3, PlanStored
<1> QED BY <1>1, <1>2, <1>4, SnapshotTypes, OrdersStay

LEMMA StoredPlanTyped ==
  ASSUME B!IndInv, NEW k \in B!PlanKeys PROVE B!StoredPlan(k) \in B!Plan
BY SnapshotTypes, NewPlanTyped DEF B!StoredPlan

LEMMA PlanFinalizedStep ==
  ASSUME B!IndInv, NEW m \in Machines, NEW p \in Plans, B!applyPlanFinalized(m, p)
  PROVE  B!IndInv'
<1> DEFINE k == << m, p >>
           plan == [ B!StoredPlan(k) EXCEPT !.committed = TRUE, !.finalized = TRUE ]
<1>1. /\ B!Replays /\ failed' = FALSE /\ plans' = [ plans EXCEPT ![k] = plan ]
      /\ trusted' = (trusted /\ k \in published)
      /\ UNCHANGED << published, modules, orders, docks, unresolved, sent >>
  BY DEF B!applyPlanFinalized, B!Applied
<1>2. k \in B!PlanKeys /\ m \in B!Addresses
  BY DEF B!PlanKeys, B!Addresses
<1>3. plan \in B!Plan
  BY <1>2, StoredPlanTyped DEF B!Plan
<1> HIDE DEF k, plan
<1>4. /\ plans' \in [ B!PlanKeys -> B!Plan \cup {Absent} ]
      /\ \A j \in B!PlanKeys : plans[j] # Absent => plans'[j] # Absent
  BY <1>1, <1>2, <1>3, PlanStored
<1> QED BY <1>1, <1>2, <1>4, SnapshotTypes, OrdersStay

(* An event appended to a trail leaves a projection under its plan.        *)
LEMMA Appended ==
  ASSUME NEW x \in B!Order
  PROVE  B!appendOrderProof(x) \in B!Order /\ B!appendOrderProof(x).plan = x.plan
BY DEF B!appendOrderProof, B!Order

LEMMA PlanRegisteredStep ==
  ASSUME B!IndInv, NEW m \in Machines, NEW p \in Plans, B!applyPlanRegistered(m, p)
  PROVE  B!IndInv'
<1> DEFINE k == << m, p >>
           plan == B!PlanAtRegistration(m, p)
           Hashed(x) == B!appendOrderProof([ x EXCEPT !.planHash = TRUE ])
<1>1. /\ B!Replays /\ failed' = FALSE /\ plans' = [ plans EXCEPT ![k] = plan ]
      /\ orders' = [ j \in B!OrderKeys |->
                       IF j[1] = m /\ orders[j] # Absent /\ orders[j].plan = p THEN Hashed(orders[j]) ELSE orders[j] ]
      /\ trusted' = (trusted /\ k \in published)
      /\ UNCHANGED << published, modules, docks, unresolved, sent >>
  BY DEF B!applyPlanRegistered, B!Applied
<1>2. k \in B!PlanKeys /\ m \in B!Addresses
  BY DEF B!PlanKeys, B!Addresses
<1>3. plan \in B!Plan
  BY <1>2, StoredPlanTyped DEF B!Plan, B!PlanAtRegistration
<1>4. /\ orders \in [ B!OrderKeys -> B!Order \cup {Absent} ]
      /\ \A j \in B!OrderKeys : orders[j] # Absent => orders[j].plan = j[2]
      /\ Absent \notin B!Order
  BY OrdersFiled, SnapshotTypes DEF Filing
<1>5. ASSUME NEW x \in B!Order PROVE Hashed(x) \in B!Order /\ Hashed(x).plan = x.plan
  <2>1. [ x EXCEPT !.planHash = TRUE ] \in B!Order /\ [ x EXCEPT !.planHash = TRUE ].plan = x.plan
    BY DEF B!Order
  <2> QED BY <2>1, Appended
<1> HIDE DEF k, plan, Hashed
<1>6. \A j \in B!OrderKeys :
        /\ orders'[j] \in B!Order \cup {Absent} /\ (orders'[j] # Absent <=> orders[j] # Absent)
        /\ orders'[j] # Absent => orders'[j].plan = j[2]
  BY <1>1, <1>4, <1>5
<1>7. Filing(orders') /\ GrowsUnder(orders, orders', m)
  <2>1. ASSUME NEW a \in B!Addresses, NEW o \in Orders, orders'[<< a, NoPlan, o >>] # Absent, NEW q \in Plans
        PROVE  orders'[<< a, q, o >>] = Absent
    <3>1. << a, NoPlan, o >> \in B!OrderKeys /\ << a, q, o >> \in B!OrderKeys
      BY BucketKey
    <3> QED BY <1>6, <2>1, <3>1, OrdersFiled DEF Filing
  <2>2. orders' \in [ B!OrderKeys -> B!Order \cup {Absent} ]
    BY <1>1, <1>6
  <2>3. GrowsUnder(orders, orders', m)
    BY <1>6 DEF GrowsUnder
  <2> QED BY <1>6, <2>1, <2>2, <2>3 DEF Filing
<1>8. /\ plans' \in [ B!PlanKeys -> B!Plan \cup {Absent} ]
      /\ \A j \in B!PlanKeys : plans[j] # Absent => plans'[j] # Absent
  BY <1>1, <1>2, <1>3, PlanStored
<1>9. Counts(unresolved, unresolved')
  BY <1>1, Uncounted
<1>10. /\ B!DeliveriesAccounted' /\ docks' \in [ B!DockKeys -> B!Dock \cup {Absent} ]
       /\ sent' \in SUBSET (Docks \X Bindings \X { "input", "output" })
  BY <1>1, <1>9, DeliveriesKept
<1> QED BY <1>1, <1>2, <1>6, <1>7, <1>8, <1>9, <1>10, SnapshotTypes, Replayed

(* Metadata: a genuine event's plan is found where the event belongs.      *)
LEMMA PlansFound ==
  ASSUME B!IndInv, NEW emitter \in B!Addresses, NEW p \in Plans
  PROVE  LET found == B!findPlanForEvent(emitter, p)
         IN /\ \A k \in found : k \in B!PlanKeys /\ plans[k] # Absent
            /\ B!Genuine(emitter, p) => found # {}
<1> DEFINE exact == << B!stateMachineAddressForOrderEvent(emitter), p >>
           others == { k \in B!PlanKeys : k[2] = p /\ plans[k] # Absent }
<1>1. B!findPlanForEvent(emitter, p) =
        IF B!PlanKnown(exact[1], p) THEN { exact } ELSE IF Cardinality(others) = 1 THEN others ELSE {}
  BY BucketCounts DEF B!findPlanForEvent
<1>2. B!PlanKnown(exact[1], p) => exact \in B!PlanKeys /\ plans[exact] # Absent
  BY DEF B!PlanKnown
<1>3. B!Genuine(emitter, p) => B!PlanKnown(exact[1], p)
  BY GenuineKnown
<1> QED BY <1>1, <1>2, <1>3

LEMMA MetadataStep ==
  ASSUME B!IndInv, B!Replays, NEW emitter \in B!Addresses, NEW p \in Plans, NEW marked,
         \A plan \in B!Plan : marked[plan] \in B!Plan,
         failed' = (B!findPlanForEvent(emitter, p) = {}),
         plans' = [ k \in B!PlanKeys |-> IF k \in B!findPlanForEvent(emitter, p) THEN marked[plans[k]] ELSE plans[k] ],
         trusted' = (trusted /\ B!Genuine(emitter, p)),
         UNCHANGED << published, modules, orders, docks, unresolved, sent >>
  PROVE  B!IndInv'
<1> DEFINE found == B!findPlanForEvent(emitter, p)
<1>1. (\A k \in found : k \in B!PlanKeys /\ plans[k] # Absent) /\ (B!Genuine(emitter, p) => found # {})
  BY PlansFound
<1>2. failed' = (found = {}) /\ plans' = [ k \in B!PlanKeys |-> IF k \in found THEN marked[plans[k]] ELSE plans[k] ]
  OBVIOUS
<1> HIDE DEF found
<1>3. /\ plans' \in [ B!PlanKeys -> B!Plan \cup {Absent} ]
      /\ \A k \in B!PlanKeys : plans[k] # Absent => plans'[k] # Absent
  BY <1>1, <1>2, SnapshotTypes
<1>4. failed' \in BOOLEAN /\ trusted' \in BOOLEAN /\ (trusted' => ~failed')
  <2> DEFINE genuine == B!Genuine(emitter, p)
  <2>1. genuine \in BOOLEAN
    BY DEF B!Genuine
  <2>2. trusted \in BOOLEAN /\ trusted' = (trusted /\ genuine) /\ (genuine => found # {})
    BY <1>1, SnapshotTypes
  <2> HIDE DEF genuine
  <2> QED BY <1>2, <2>1, <2>2
<1> QED BY <1>3, <1>4, SnapshotTypes, OrdersStay

LEMMA PublisherRecordedStep ==
  ASSUME B!IndInv, NEW emitter \in Machines, NEW p \in Plans, B!applyPlanPublisherRecorded(emitter, p)
  PROVE  B!IndInv'
<1> DEFINE marked == [ plan \in B!Plan |-> [ plan EXCEPT !.publisher = TRUE ] ]
<1>1. \A plan \in B!Plan : marked[plan] \in B!Plan
  BY DEF B!Plan
<1>2. emitter \in B!Addresses
  BY DEF B!Addresses
<1>3. \A k \in B!findPlanForEvent(emitter, p) : k \in B!PlanKeys /\ plans[k] \in B!Plan
  BY <1>2, PlansFound, SnapshotTypes
<1>4. plans' = [ k \in B!PlanKeys |-> IF k \in B!findPlanForEvent(emitter, p) THEN marked[plans[k]] ELSE plans[k] ]
  BY <1>3 DEF B!applyPlanPublisherRecorded
<1>5. /\ B!Replays /\ failed' = (B!findPlanForEvent(emitter, p) = {})
      /\ trusted' = (trusted /\ B!Genuine(emitter, p))
      /\ UNCHANGED << published, modules, orders, docks, unresolved, sent >>
  BY DEF B!applyPlanPublisherRecorded
<1> HIDE DEF marked
<1> QED BY <1>1, <1>2, <1>4, <1>5, MetadataStep

LEMMA SignalRegisteredStep ==
  ASSUME B!IndInv, NEW emitter \in Modules, NEW p \in Plans, B!applySignalCapabilityRegistered(emitter, p)
  PROVE  B!IndInv'
<1> DEFINE marked == [ plan \in B!Plan |-> [ plan EXCEPT !.vocabulary = TRUE ] ]
<1>1. \A plan \in B!Plan : marked[plan] \in B!Plan
  BY DEF B!Plan
<1>2. emitter \in B!Addresses
  BY DEF B!Addresses
<1>3. \A k \in B!findPlanForEvent(emitter, p) : k \in B!PlanKeys /\ plans[k] \in B!Plan
  BY <1>2, PlansFound, SnapshotTypes
<1>4. plans' = [ k \in B!PlanKeys |-> IF k \in B!findPlanForEvent(emitter, p) THEN marked[plans[k]] ELSE plans[k] ]
  BY <1>3 DEF B!applySignalCapabilityRegistered
<1>5. /\ B!Replays /\ failed' = (B!findPlanForEvent(emitter, p) = {})
      /\ trusted' = (trusted /\ B!Genuine(emitter, p))
      /\ UNCHANGED << published, modules, orders, docks, unresolved, sent >>
  BY DEF B!applySignalCapabilityRegistered
<1> HIDE DEF marked
<1> QED BY <1>1, <1>2, <1>4, <1>5, MetadataStep

LEMMA SelectorRegisteredStep ==
  ASSUME B!IndInv, NEW emitter \in Modules, NEW p \in Plans, B!applyStageSelectorBindingRegistered(emitter, p)
  PROVE  B!IndInv'
<1> DEFINE marked == [ plan \in B!Plan |-> [ plan EXCEPT !.selectors = TRUE ] ]
<1>1. \A plan \in B!Plan : marked[plan] \in B!Plan
  BY DEF B!Plan
<1>2. emitter \in B!Addresses
  BY DEF B!Addresses
<1>3. \A k \in B!findPlanForEvent(emitter, p) : k \in B!PlanKeys /\ plans[k] \in B!Plan
  BY <1>2, PlansFound, SnapshotTypes
<1>4. plans' = [ k \in B!PlanKeys |-> IF k \in B!findPlanForEvent(emitter, p) THEN marked[plans[k]] ELSE plans[k] ]
  BY <1>3 DEF B!applyStageSelectorBindingRegistered
<1>5. /\ B!Replays /\ failed' = (B!findPlanForEvent(emitter, p) = {})
      /\ trusted' = (trusted /\ B!Genuine(emitter, p))
      /\ UNCHANGED << published, modules, orders, docks, unresolved, sent >>
  BY DEF B!applyStageSelectorBindingRegistered
<1> HIDE DEF marked
<1> QED BY <1>1, <1>2, <1>4, <1>5, MetadataStep

(* Events of an order.                                                     *)

(* What an event does to the bucket it is filed in: y is its projection.   *)
LEMMA EventFiled ==
  ASSUME NEW os, Filing(os), NEW a \in B!Addresses, NEW p \in Plans \cup {NoPlan}, NEW o \in Orders,
         NEW made, made = B!ensureStateMachineOrder(os, a, p, o),
         NEW y \in B!Order, y.plan = made[B!KeyFor(made, a, p, o)].plan
  PROVE  LET new == [ made EXCEPT ![B!KeyFor(made, a, p, o)] = y ]
         IN  Filing(new) /\ GrowsUnder(os, new, a)
<1> DEFINE at == B!KeyFor(made, a, p, o)
           new == [ made EXCEPT ![at] = y ]
<1>1. Filing(made) /\ GrowsUnder(os, made, a) /\ at \in B!OrderKeys /\ made[at] # Absent
  BY BucketMade
<1> HIDE DEF at
<1>2. Filing(new) /\ \A k \in B!OrderKeys : new[k] # Absent <=> made[k] # Absent
  BY <1>1, BucketChanged DEF at
<1>3. GrowsUnder(os, new, a)
  BY <1>1, <1>2 DEF GrowsUnder
<1> QED BY <1>2, <1>3 DEF at

(* The projection an event finds there.                                    *)
LEMMA BucketTyped ==
  ASSUME NEW os, Filing(os), NEW a \in B!Addresses, NEW p \in Plans \cup {NoPlan}, NEW o \in Orders
  PROVE  LET made == B!ensureStateMachineOrder(os, a, p, o)
         IN  made[B!KeyFor(made, a, p, o)] \in B!Order
<1> DEFINE made == B!ensureStateMachineOrder(os, a, p, o)
           at == B!KeyFor(made, a, p, o)
<1>1. Filing(made) /\ at \in B!OrderKeys /\ made[at] # Absent
  BY BucketMade
<1> HIDE DEF made, at
<1>2. made[at] \in B!Order
  BY <1>1 DEF Filing
<1> QED BY <1>2 DEF made, at

(* A projection keeps its plan, whichever of its marks an event sets.      *)
LEMMA OrderMarked ==
  ASSUME NEW x \in B!Order
  PROVE  LET Kept(y) == y \in B!Order /\ y.plan = x.plan
         IN /\ Kept([ x EXCEPT !.status = "registered" ])
            /\ Kept([ x EXCEPT !.status = "registered", !.staged = TRUE ])
            /\ Kept([ x EXCEPT !.relayed = TRUE ])
            /\ Kept([ x EXCEPT !.linked = TRUE, !.staged = TRUE ])
<1>1. /\ [ x EXCEPT !.status = "registered" ] \in B!Order /\ [ x EXCEPT !.status = "registered" ].plan = x.plan
  BY DEF B!Order
<1>2. /\ [ x EXCEPT !.status = "registered", !.staged = TRUE ] \in B!Order
      /\ [ x EXCEPT !.status = "registered", !.staged = TRUE ].plan = x.plan
  BY DEF B!Order
<1>3. [ x EXCEPT !.relayed = TRUE ] \in B!Order /\ [ x EXCEPT !.relayed = TRUE ].plan = x.plan
  BY DEF B!Order
<1>4. /\ [ x EXCEPT !.linked = TRUE, !.staged = TRUE ] \in B!Order
      /\ [ x EXCEPT !.linked = TRUE, !.staged = TRUE ].plan = x.plan
  BY DEF B!Order
<1> QED BY <1>1, <1>2, <1>3, <1>4

LEMMA HashMarked ==
  ASSUME NEW x \in B!Order, NEW m, NEW p
  PROVE  B!WithHash(x, m, p) \in B!Order /\ B!WithHash(x, m, p).plan = x.plan
<1> DEFINE hash == x.planHash \/ B!PlanKnown(m, p)
<1>1. hash \in BOOLEAN
  BY DEF B!PlanKnown
<1>2. B!WithHash(x, m, p) = [ x EXCEPT !.planHash = hash ]
  BY DEF B!WithHash
<1> HIDE DEF hash
<1> QED BY <1>1, <1>2 DEF B!Order

LEMMA EventApplied ==
  ASSUME B!IndInv, B!Replays, NEW a \in B!Addresses, NEW p \in Plans \cup {NoPlan}, NEW o \in Orders,
         NEW made, made = B!ensureStateMachineOrder(orders, a, p, o),
         NEW y \in B!Order, y.plan = made[B!KeyFor(made, a, p, o)].plan,
         failed' = B!Ambiguous(orders, a, p, o),
         orders' = IF B!Ambiguous(orders, a, p, o) THEN orders ELSE [ made EXCEPT ![B!KeyFor(made, a, p, o)] = B!appendOrderProof(y) ],
         Counts(unresolved, unresolved'), a \in Machines \/ unresolved'["moduleOrder"] > 0,
         trusted' \in BOOLEAN, trusted' => p \in Plans,
         UNCHANGED << published, modules, plans, docks, sent >>
  PROVE  B!IndInv'
<1>1. Filing(orders') /\ GrowsUnder(orders, orders', a)
  <2>1. Filing(orders)
    BY OrdersFiled
  <2>2. CASE B!Ambiguous(orders, a, p, o)
    BY <2>1, <2>2 DEF GrowsUnder
  <2>3. CASE ~B!Ambiguous(orders, a, p, o)
    <3>1. B!appendOrderProof(y) \in B!Order /\ B!appendOrderProof(y).plan = y.plan
      BY Appended
    <3> QED BY <2>1, <2>3, <3>1, EventFiled
  <2> QED BY <2>2, <2>3
<1>2. failed' \in BOOLEAN /\ (trusted' => ~failed')
  BY IndexerConstants DEF B!Ambiguous
<1>3. /\ B!DeliveriesAccounted' /\ docks' \in [ B!DockKeys -> B!Dock \cup {Absent} ]
      /\ sent' \in SUBSET (Docks \X Bindings \X { "input", "output" })
  BY DeliveriesKept
<1> QED BY <1>1, <1>2, <1>3, SnapshotTypes, Replayed

(* Events of the state machine itself.                                     *)
LEMMA MachineEvent ==
  ASSUME B!IndInv, B!Replays, NEW m \in Machines, NEW p \in Plans \cup {NoPlan}, NEW o \in Orders,
         NEW made, made = B!ensureStateMachineOrder(orders, m, p, o),
         NEW y \in B!Order, y.plan = made[B!KeyFor(made, m, p, o)].plan,
         failed' = B!Ambiguous(orders, m, p, o),
         orders' = IF B!Ambiguous(orders, m, p, o) THEN orders ELSE [ made EXCEPT ![B!KeyFor(made, m, p, o)] = B!appendOrderProof(y) ],
         trusted' = (trusted /\ << m, p >> \in published),
         UNCHANGED << published, modules, plans, docks, unresolved, sent >>
  PROVE  B!IndInv'
<1>1. trusted' \in BOOLEAN /\ (trusted' => p \in Plans)
  BY SnapshotTypes DEF B!PlanKeys
<1>2. m \in B!Addresses /\ Counts(unresolved, unresolved')
  BY Uncounted DEF B!Addresses
<1> QED BY <1>1, <1>2, EventApplied

(* Events a module emits.                                                  *)
LEMMA ModuleEvent ==
  ASSUME B!IndInv, B!Replays, NEW emitter \in B!Addresses, NEW p \in Plans \cup {NoPlan}, NEW o \in Orders,
         NEW a, a = B!stateMachineAddressForOrderEvent(emitter),
         NEW made, made = B!ensureStateMachineOrder(orders, a, p, o),
         NEW y \in B!Order, y.plan = made[B!KeyFor(made, a, p, o)].plan,
         failed' = B!Ambiguous(orders, a, p, o),
         orders' = IF B!Ambiguous(orders, a, p, o) THEN orders ELSE [ made EXCEPT ![B!KeyFor(made, a, p, o)] = B!appendOrderProof(y) ],
         unresolved' = B!Counted(unresolved, emitter),
         trusted' = (trusted /\ B!Genuine(emitter, p)),
         UNCHANGED << published, modules, plans, docks, sent >>
  PROVE  B!IndInv'
<1>1. B!TypeOK
  BY DEF B!IndInv, B!BucketsSound
<1>2. Counts(unresolved, unresolved') /\ (a \in Machines \/ unresolved'["moduleOrder"] > 0)
  BY <1>1, EmitterCounted
<1>3. a \in B!Addresses
  BY <1>1, OwnerFound DEF B!stateMachineAddressForOrderEvent
<1>4. trusted' \in BOOLEAN /\ (trusted' => p \in Plans)
  BY SnapshotTypes, GenuineKnown DEF B!Genuine
<1> QED BY <1>2, <1>3, <1>4, EventApplied

LEMMA OrderRegisteredStep ==
  ASSUME B!IndInv, NEW m \in Machines, NEW p \in Plans, NEW o \in Orders, B!applyOrderRegistered(m, p, o)
  PROVE  B!IndInv'
<1> DEFINE made == B!ensureStateMachineOrder(orders, m, p, o)
           at == B!KeyFor(made, m, p, o)
           x == made[at]
           set == [ x EXCEPT !.status = "registered" ]
           y == B!WithHash(set, m, p)
<1>1. /\ B!Replays /\ failed' = B!Ambiguous(orders, m, p, o)
      /\ orders' = IF B!Ambiguous(orders, m, p, o) THEN orders ELSE [ made EXCEPT ![at] = B!appendOrderProof(y) ]
      /\ trusted' = (trusted /\ << m, p >> \in published)
      /\ UNCHANGED << published, modules, plans, docks, unresolved, sent >>
  BY DEF B!applyOrderRegistered, B!OrderCreation, B!EventOf, B!Filed
<1>2. m \in B!Addresses /\ x \in B!Order
  BY OrdersFiled, BucketTyped DEF B!Addresses
<1> HIDE DEF made, at, x
<1>3. set \in B!Order /\ set.plan = x.plan
  BY <1>2, OrderMarked
<1> HIDE DEF set
<1>4. y \in B!Order /\ y.plan = x.plan
  BY <1>3, HashMarked
<1> HIDE DEF y
<1> QED BY <1>1, <1>4, MachineEvent DEF made, at, x

LEMMA OrderMaterializedStep ==
  ASSUME B!IndInv, NEW m \in Machines, NEW p \in Plans, NEW o \in Orders, B!applyOrderMaterialized(m, p, o)
  PROVE  B!IndInv'
<1> DEFINE made == B!ensureStateMachineOrder(orders, m, p, o)
           at == B!KeyFor(made, m, p, o)
           x == made[at]
           set == [ x EXCEPT !.status = "registered", !.staged = TRUE ]
           y == B!WithHash(set, m, p)
<1>1. /\ B!Replays /\ failed' = B!Ambiguous(orders, m, p, o)
      /\ orders' = IF B!Ambiguous(orders, m, p, o) THEN orders ELSE [ made EXCEPT ![at] = B!appendOrderProof(y) ]
      /\ trusted' = (trusted /\ << m, p >> \in published)
      /\ UNCHANGED << published, modules, plans, docks, unresolved, sent >>
  BY DEF B!applyOrderMaterialized, B!OrderCreation, B!EventOf, B!Filed
<1>2. m \in B!Addresses /\ x \in B!Order
  BY OrdersFiled, BucketTyped DEF B!Addresses
<1> HIDE DEF made, at, x
<1>3. set \in B!Order /\ set.plan = x.plan
  BY <1>2, OrderMarked
<1> HIDE DEF set
<1>4. y \in B!Order /\ y.plan = x.plan
  BY <1>3, HashMarked
<1> HIDE DEF y
<1> QED BY <1>1, <1>4, MachineEvent DEF made, at, x

LEMMA OrderRelayerStep ==
  ASSUME B!IndInv, NEW m \in Machines, NEW p \in Plans, NEW o \in Orders, B!applyOrderRelayerRecorded(m, p, o)
  PROVE  B!IndInv'
<1> DEFINE made == B!ensureStateMachineOrder(orders, m, p, o)
           at == B!KeyFor(made, m, p, o)
           x == made[at]
           y == [ x EXCEPT !.relayed = TRUE ]
<1>1. /\ B!Replays /\ failed' = B!Ambiguous(orders, m, p, o)
      /\ orders' = IF B!Ambiguous(orders, m, p, o) THEN orders ELSE [ made EXCEPT ![at] = B!appendOrderProof(y) ]
      /\ trusted' = (trusted /\ << m, p >> \in published)
      /\ UNCHANGED << published, modules, plans, docks, unresolved, sent >>
  BY DEF B!applyOrderRelayerRecorded, B!OrderCreation, B!EventOf, B!Filed
<1>2. m \in B!Addresses /\ x \in B!Order
  BY OrdersFiled, BucketTyped DEF B!Addresses
<1> HIDE DEF made, at, x
<1>3. y \in B!Order /\ y.plan = x.plan
  BY <1>2, OrderMarked
<1> HIDE DEF y
<1> QED BY <1>1, <1>3, MachineEvent DEF made, at, x

LEMMA OrderTriggeredStep ==
  ASSUME B!IndInv, NEW m \in Machines, NEW p \in Plans, NEW o \in Orders, B!applyOrderTriggered(m, p, o)
  PROVE  B!IndInv'
<1> DEFINE made == B!ensureStateMachineOrder(orders, m, p, o)
           at == B!KeyFor(made, m, p, o)
           x == made[at]
           set == [ x EXCEPT !.status = "registered", !.staged = TRUE ]
           y == B!WithHash(set, m, p)
<1>1. /\ B!Replays /\ failed' = B!Ambiguous(orders, m, p, o)
      /\ orders' = IF B!Ambiguous(orders, m, p, o) THEN orders ELSE [ made EXCEPT ![at] = B!appendOrderProof(y) ]
      /\ trusted' = (trusted /\ << m, p >> \in published)
      /\ UNCHANGED << published, modules, plans, docks, unresolved, sent >>
  BY DEF B!applyOrderTriggered, B!OrderCreation, B!EventOf, B!Filed
<1>2. m \in B!Addresses /\ x \in B!Order
  BY OrdersFiled, BucketTyped DEF B!Addresses
<1> HIDE DEF made, at, x
<1>3. set \in B!Order /\ set.plan = x.plan
  BY <1>2, OrderMarked
<1> HIDE DEF set
<1>4. y \in B!Order /\ y.plan = x.plan
  BY <1>3, HashMarked
<1> HIDE DEF y
<1> QED BY <1>1, <1>4, MachineEvent DEF made, at, x

LEMMA OrderEventStep ==
  ASSUME B!IndInv, NEW m \in Machines, NEW p \in Plans \cup {NoPlan}, NEW o \in Orders, NEW r \in BOOLEAN,
         B!OrderEvent(m, p, o, r)
  PROVE  B!IndInv'
<1> DEFINE made == B!ensureStateMachineOrder(orders, m, p, o)
           at == B!KeyFor(made, m, p, o)
           x == made[at]
           y == IF r THEN [ x EXCEPT !.status = "registered" ] ELSE x
<1>1. /\ B!Replays /\ failed' = B!Ambiguous(orders, m, p, o)
      /\ orders' = IF B!Ambiguous(orders, m, p, o) THEN orders ELSE [ made EXCEPT ![at] = B!appendOrderProof(y) ]
      /\ trusted' = (trusted /\ << m, p >> \in published)
      /\ UNCHANGED << published, modules, plans, docks, unresolved, sent >>
  BY DEF B!OrderEvent, B!EventOf, B!Filed
<1>2. m \in B!Addresses /\ x \in B!Order
  BY OrdersFiled, BucketTyped DEF B!Addresses
<1> HIDE DEF made, at, x
<1>3. y \in B!Order /\ y.plan = x.plan
  BY <1>2, OrderMarked
<1> HIDE DEF y
<1> QED BY <1>1, <1>3, MachineEvent DEF made, at, x

LEMMA ModuleEventStep ==
  ASSUME B!IndInv, NEW emitter \in Modules, NEW p \in Plans \cup {NoPlan}, NEW o \in Orders,
         B!ensureStateMachineOrderFromModuleEvent(emitter, p, o)
  PROVE  B!IndInv'
<1> DEFINE a == B!stateMachineAddressForOrderEvent(emitter)
           made == B!ensureStateMachineOrder(orders, a, p, o)
           at == B!KeyFor(made, a, p, o)
           x == made[at]
<1>1. /\ B!Replays /\ failed' = B!Ambiguous(orders, a, p, o)
      /\ orders' = IF B!Ambiguous(orders, a, p, o) THEN orders ELSE [ made EXCEPT ![at] = B!appendOrderProof(x) ]
      /\ unresolved' = B!Counted(unresolved, emitter) /\ trusted' = (trusted /\ B!Genuine(emitter, p))
      /\ UNCHANGED << published, modules, plans, docks, sent >>
  BY DEF B!ensureStateMachineOrderFromModuleEvent, B!EventOf, B!Filed
<1>2. emitter \in B!Addresses /\ a \in B!Addresses
  BY OwnerFound DEF B!Addresses, B!stateMachineAddressForOrderEvent, B!IndInv, B!BucketsSound
<1> HIDE DEF a
<1>3. x \in B!Order
  BY <1>2, OrdersFiled, BucketTyped
<1> HIDE DEF made, at, x
<1> QED BY <1>1, <1>2, <1>3, ModuleEvent DEF a, made, at, x

LEMMA OrderLinkedStep ==
  ASSUME B!IndInv, NEW emitter \in Modules, NEW p \in Plans \cup {NoPlan}, NEW o \in Orders,
         B!applyOrderLinked(emitter, p, o)
  PROVE  B!IndInv'
<1> DEFINE a == B!stateMachineAddressForOrderEvent(emitter)
           made == B!ensureStateMachineOrder(orders, a, p, o)
           at == B!KeyFor(made, a, p, o)
           x == made[at]
           y == [ x EXCEPT !.linked = TRUE, !.staged = TRUE ]
<1>1. /\ B!Replays /\ failed' = B!Ambiguous(orders, a, p, o)
      /\ orders' = IF B!Ambiguous(orders, a, p, o) THEN orders ELSE [ made EXCEPT ![at] = B!appendOrderProof(y) ]
      /\ unresolved' = B!Counted(unresolved, emitter) /\ trusted' = (trusted /\ B!Genuine(emitter, p))
      /\ UNCHANGED << published, modules, plans, docks, sent >>
  BY DEF B!applyOrderLinked, B!EventOf, B!Filed
<1>2. emitter \in B!Addresses /\ a \in B!Addresses
  BY OwnerFound DEF B!Addresses, B!stateMachineAddressForOrderEvent, B!IndInv, B!BucketsSound
<1> HIDE DEF a
<1>3. x \in B!Order
  BY <1>2, OrdersFiled, BucketTyped
<1> HIDE DEF made, at, x
<1>4. y \in B!Order /\ y.plan = x.plan
  BY <1>3, OrderMarked
<1> HIDE DEF y
<1> QED BY <1>1, <1>2, <1>4, ModuleEvent DEF a, made, at, x

(* Docks.                                                                  *)

LEMMA TrailFiled ==
  ASSUME NEW os, Filing(os), NEW a \in B!Addresses, NEW p \in Plans \cup {NoPlan}, NEW o \in Orders
  PROVE  LET new == B!Filed(os, a, p, o, B!appendOrderProof)
         IN  Filing(new) /\ GrowsUnder(os, new, a)
<1> DEFINE made == B!ensureStateMachineOrder(os, a, p, o)
           at == B!KeyFor(made, a, p, o)
           y == B!appendOrderProof(made[at])
<1>1. B!Filed(os, a, p, o, B!appendOrderProof) = [ made EXCEPT ![at] = y ]
  BY DEF B!Filed
<1>2. made[at] \in B!Order
  BY BucketTyped
<1> HIDE DEF made, at
<1>3. y \in B!Order /\ y.plan = made[at].plan
  BY <1>2, Appended
<1> HIDE DEF y
<1>4. Filing([ made EXCEPT ![at] = y ]) /\ GrowsUnder(os, [ made EXCEPT ![at] = y ], a)
  BY <1>3, EventFiled DEF made, at
<1> QED BY <1>1, <1>4

LEMMA GrowsTwice ==
  ASSUME NEW os, NEW mid, NEW new, NEW a, GrowsUnder(os, mid, a), GrowsUnder(mid, new, a)
  PROVE  GrowsUnder(os, new, a)
BY DEF GrowsUnder

(* The machine a dock event is filed under, and the counters then.         *)
LEMMA DockEmitter ==
  ASSUME B!IndInv, NEW emitter \in B!Addresses
  PROVE  LET m == B!stateMachineAddressForOrderEvent(emitter)
             after == B!Counted(unresolved, emitter)
         IN /\ m \in B!Addresses /\ Counts(unresolved, after)
            /\ after["dock"] = unresolved["dock"] /\ after["dockTarget"] = unresolved["dockTarget"]
            /\ m \in Machines \/ after["moduleOrder"] > 0
<1>1. B!TypeOK
  BY DEF B!IndInv, B!BucketsSound
<1> QED BY <1>1, OwnerFound, EmitterCounted DEF B!stateMachineAddressForOrderEvent

(* One more unit of a counter the emitter does not touch.                  *)
LEMMA CountedOnce ==
  ASSUME B!IndInv, NEW after, Counts(unresolved, after), NEW c \in { "dock", "dockTarget" },
         after[c] = unresolved[c], NEW n \in {0, 1}
  PROVE  LET new == [ after EXCEPT ![c] = @ + n ]
         IN /\ Counts(unresolved, new) /\ new["moduleOrder"] = after["moduleOrder"]
            /\ new[c] = unresolved[c] + n
<1>1. unresolved \in [ B!Counters -> 0..MaxReplay ] /\ MaxReplay \in Nat /\ c \in B!Counters /\ c # "moduleOrder"
  BY SnapshotTypes, IndexerConstants DEF B!Counters
<1>2. /\ after \in [ B!Counters -> Nat ]
      /\ \A d \in B!Counters : unresolved[d] <= after[d] /\ after[d] <= unresolved[d] + 1
  BY DEF Counts
<1> DEFINE new == [ after EXCEPT ![c] = @ + n ]
<1>3. /\ new \in [ B!Counters -> Nat ] /\ new[c] = unresolved[c] + n
      /\ \A d \in B!Counters : d # c => new[d] = after[d]
  BY <1>1, <1>2
<1> HIDE DEF new
<1>4. Counts(unresolved, new)
  BY <1>1, <1>2, <1>3 DEF Counts
<1> QED BY <1>1, <1>3, <1>4 DEF new, B!Counters

LEMMA DockOpenedStep ==
  ASSUME B!IndInv, NEW emitter \in Modules, NEW d \in Docks, NEW lp \in Plans, NEW tp \in Plans,
         NEW lo \in Orders, NEW to \in Orders, B!applyDockOpened(emitter, d, lp, lo, tp, to)
  PROVE  B!IndInv'
<1> DEFINE m == B!stateMachineAddressForOrderEvent(emitter)
           after == B!Counted(unresolved, emitter)
           n == IF B!PlanKnown(m, tp) THEN 0 ELSE 1
           opened == [ localOrder |-> lo, localPlan |-> lp, linkedOrder |-> to, targetPlan |-> tp,
                       inputs |-> {}, outputs |-> {} ]
           mid == B!Filed(orders, m, lp, lo, B!appendOrderProof)
<1>1. /\ B!Replays /\ failed' = FALSE /\ \A a \in B!Addresses : docks[<< a, d >>] = Absent
      /\ orders' = B!Filed(mid, m, tp, to, B!appendOrderProof)
      /\ docks' = [ docks EXCEPT ![<< m, d >>] = opened ]
      /\ unresolved' = [ after EXCEPT !["dockTarget"] = IF B!PlanKnown(m, tp) THEN @ ELSE @ + 1 ]
      /\ trusted' = (trusted /\ B!Genuine(emitter, lp))
      /\ UNCHANGED << published, modules, plans, sent >>
  BY DEF B!applyDockOpened, B!Applied
<1>2. emitter \in B!Addresses
  BY DEF B!Addresses
<1>3. /\ m \in B!Addresses /\ Counts(unresolved, after)
      /\ after["dock"] = unresolved["dock"] /\ after["dockTarget"] = unresolved["dockTarget"]
      /\ m \in Machines \/ after["moduleOrder"] > 0
  BY <1>2, DockEmitter
<1>4. Filing(orders') /\ GrowsUnder(orders, orders', m)
  <2> HIDE DEF m
  <2>1. Filing(mid) /\ GrowsUnder(orders, mid, m)
    BY <1>3, OrdersFiled, TrailFiled
  <2> HIDE DEF mid
  <2>2. Filing(orders') /\ GrowsUnder(mid, orders', m)
    BY <1>1, <1>3, <2>1, TrailFiled
  <2> QED BY <2>1, <2>2, GrowsTwice
<1>5. /\ Counts(unresolved, unresolved') /\ unresolved'["moduleOrder"] = after["moduleOrder"]
      /\ unresolved'["dock"] = unresolved["dock"]
  <2>1. after \in [ B!Counters -> Nat ] /\ n \in {0, 1}
    BY <1>3 DEF Counts
  <2>2. unresolved' = [ after EXCEPT !["dockTarget"] = @ + n ]
    <3> HIDE DEF after, m
    <3>1. after["dockTarget"] \in Nat
      BY <2>1 DEF B!Counters
    <3>2. (IF B!PlanKnown(m, tp) THEN after["dockTarget"] ELSE after["dockTarget"] + 1) = after["dockTarget"] + n
      BY <3>1
    <3> QED BY <1>1, <3>2
  <2> HIDE DEF after, n, m
  <2>3. Counts(unresolved, unresolved') /\ unresolved'["moduleOrder"] = after["moduleOrder"]
    BY <1>3, <2>1, <2>2, CountedOnce
  <2>4. unresolved'["dock"] = after["dock"]
    BY <2>1, <2>2 DEF B!Counters
  <2> QED BY <1>3, <2>3, <2>4
<1>6. << m, d >> \in B!DockKeys /\ opened \in B!Dock
  BY <1>3 DEF B!DockKeys, B!Dock
<1>7. B!DeliveriesAccounted'
  <2> HIDE DEF m, opened
  <2> SUFFICES ASSUME NEW x \in sent, ~(unresolved["dock"] > 0)
               PROVE  \E a \in B!Addresses :
                        /\ docks'[<< a, x[1] >>] # Absent
                        /\ x[2] \in IF x[3] = "input" THEN docks'[<< a, x[1] >>].inputs ELSE docks'[<< a, x[1] >>].outputs
    BY <1>1, <1>5 DEF B!DeliveriesAccounted
  <2>1. PICK a \in B!Addresses :
          /\ docks[<< a, x[1] >>] # Absent
          /\ x[2] \in IF x[3] = "input" THEN docks[<< a, x[1] >>].inputs ELSE docks[<< a, x[1] >>].outputs
    BY DEF B!IndInv, B!BucketsSound, B!DeliveriesAccounted
  <2>2. x[1] # d /\ << a, x[1] >> # << m, d >>
    BY <1>1, <2>1
  <2>3. docks'[<< a, x[1] >>] = docks[<< a, x[1] >>]
    BY <1>1, <2>2, SnapshotTypes
  <2> QED BY <2>1, <2>3
<1>8. docks' \in [ B!DockKeys -> B!Dock \cup {Absent} ] /\ sent' \in SUBSET (Docks \X Bindings \X { "input", "output" })
  <2> HIDE DEF m, opened
  <2> QED BY <1>1, <1>6, SnapshotTypes DEF B!IndInv
<1>9. trusted' \in BOOLEAN
  BY <1>1, SnapshotTypes DEF B!Genuine
<1> HIDE DEF m, after, mid, opened, n
<1> QED BY <1>1, <1>3, <1>4, <1>5, <1>7, <1>8, <1>9, SnapshotTypes, Replayed

LEMMA DockDelivered ==
  ASSUME B!IndInv, B!Replays, NEW emitter \in B!Addresses, NEW d \in Docks, NEW b \in Bindings,
         NEW dir \in { "input", "output" }, NEW m, m = B!stateMachineAddressForOrderEvent(emitter),
         NEW dock, NEW new,
         docks[<< m, d >>] # Absent =>
           /\ dock \in B!Dock /\ docks[<< m, d >>].inputs \subseteq dock.inputs
           /\ docks[<< m, d >>].outputs \subseteq dock.outputs
           /\ b \in IF dir = "input" THEN dock.inputs ELSE dock.outputs
           /\ Filing(new) /\ GrowsUnder(orders, new, m),
         IF docks[<< m, d >>] = Absent
         THEN /\ unresolved' = B!CountUnresolvedDock(B!Counted(unresolved, emitter))
              /\ UNCHANGED << docks, orders >>
         ELSE /\ docks' = [ docks EXCEPT ![<< m, d >>] = dock ] /\ orders' = new
              /\ unresolved' = B!Counted(unresolved, emitter),
         failed' = FALSE, trusted' \in BOOLEAN, sent' = sent \cup { << d, b, dir >> },
         UNCHANGED << published, modules, plans >>
  PROVE  B!IndInv'
<1> DEFINE after == B!Counted(unresolved, emitter)
<1>1. /\ m \in B!Addresses /\ Counts(unresolved, after)
      /\ after["dock"] = unresolved["dock"] /\ after["dockTarget"] = unresolved["dockTarget"]
      /\ m \in Machines \/ after["moduleOrder"] > 0
  BY DockEmitter
<1>2. << m, d >> \in B!DockKeys
  BY <1>1 DEF B!DockKeys
<1>3. sent' \in SUBSET (Docks \X Bindings \X { "input", "output" })
  BY DEF B!IndInv
<1>4. CASE docks[<< m, d >>] = Absent
  <2>1. unresolved' = [ after EXCEPT !["dock"] = @ + 1 ]
    BY <1>4 DEF B!CountUnresolvedDock
  <2> HIDE DEF after
  <2>2. Counts(unresolved, unresolved') /\ unresolved'["moduleOrder"] = after["moduleOrder"]
        /\ unresolved'["dock"] = unresolved["dock"] + 1
    BY <1>1, <2>1, CountedOnce
  <2>3. unresolved'["dock"] > 0
    <3>1. unresolved["dock"] \in Nat
      BY SnapshotTypes DEF B!Counters
    <3> QED BY <2>2, <3>1
  <2>4. B!DeliveriesAccounted'
    BY <2>3 DEF B!DeliveriesAccounted
  <2>5. UNCHANGED << docks, orders >> /\ Filing(orders') /\ GrowsUnder(orders, orders', m)
    BY <1>4, OrdersFiled DEF GrowsUnder
  <2> QED BY <1>1, <1>3, <2>2, <2>4, <2>5, SnapshotTypes, Replayed
<1>5. CASE docks[<< m, d >>] # Absent
  <2>1. /\ dock \in B!Dock /\ docks[<< m, d >>].inputs \subseteq dock.inputs
        /\ docks[<< m, d >>].outputs \subseteq dock.outputs
        /\ b \in IF dir = "input" THEN dock.inputs ELSE dock.outputs
        /\ Filing(orders') /\ GrowsUnder(orders, orders', m)
        /\ docks' = [ docks EXCEPT ![<< m, d >>] = dock ] /\ unresolved' = after
    BY <1>5
  <2>2. /\ docks' \in [ B!DockKeys -> B!Dock \cup {Absent} ] /\ docks'[<< m, d >>] = dock
        /\ \A k \in B!DockKeys : k # << m, d >> => docks'[k] = docks[k]
        /\ Absent \notin B!Dock
    BY <1>2, <2>1, SnapshotTypes
  <2> HIDE DEF after
  <2>3. B!DeliveriesAccounted'
    <3> SUFFICES ASSUME NEW x \in sent', ~(unresolved'["dock"] > 0)
                 PROVE  \E a \in B!Addresses :
                          /\ docks'[<< a, x[1] >>] # Absent
                          /\ x[2] \in IF x[3] = "input" THEN docks'[<< a, x[1] >>].inputs ELSE docks'[<< a, x[1] >>].outputs
      BY DEF B!DeliveriesAccounted
    <3>1. CASE x = << d, b, dir >>
      BY <1>1, <2>1, <2>2, <3>1
    <3>2. CASE x \in sent
      <4>1. PICK a \in B!Addresses :
              /\ docks[<< a, x[1] >>] # Absent
              /\ x[2] \in IF x[3] = "input" THEN docks[<< a, x[1] >>].inputs ELSE docks[<< a, x[1] >>].outputs
        BY <1>1, <2>1, <3>2 DEF B!IndInv, B!BucketsSound, B!DeliveriesAccounted
      <4>2. CASE << a, x[1] >> = << m, d >>
        BY <2>1, <2>2, <4>1, <4>2
      <4>3. CASE << a, x[1] >> # << m, d >>
        <5>1. << a, x[1] >> \in B!DockKeys
          BY <3>2 DEF B!IndInv, B!DockKeys
        <5>2. docks'[<< a, x[1] >>] = docks[<< a, x[1] >>]
          BY <2>2, <4>3, <5>1
        <5> QED BY <4>1, <5>2
      <4> QED BY <4>2, <4>3
    <3> QED BY <3>1, <3>2
  <2>4. Counts(unresolved, unresolved') /\ (m \in Machines \/ unresolved'["moduleOrder"] > 0)
    BY <1>1, <2>1
  <2> QED BY <1>1, <1>3, <2>1, <2>2, <2>3, <2>4, SnapshotTypes, Replayed
<1> QED BY <1>4, <1>5

(* The orders a delivery is appended to.                                   *)
LEMMA LocalTouched ==
  ASSUME NEW os, Filing(os), NEW m \in B!Addresses, NEW dock \in B!Dock
  PROVE  Filing(B!AtLocal(os, m, dock)) /\ GrowsUnder(os, B!AtLocal(os, m, dock), m)
<1>1. dock.localPlan \in Plans \cup {NoPlan} /\ dock.localOrder \in Orders
  BY DEF B!Dock
<1> QED BY <1>1, TrailFiled DEF B!AtLocal

LEMMA LinkedTouched ==
  ASSUME NEW os, Filing(os), NEW m \in B!Addresses, NEW dock \in B!Dock
  PROVE  Filing(B!AtLinked(os, m, dock)) /\ GrowsUnder(os, B!AtLinked(os, m, dock), m)
<1>1. dock.targetPlan \in Plans \cup {NoPlan} /\ dock.linkedOrder \in Orders
  BY DEF B!Dock
<1> QED BY <1>1, TrailFiled DEF B!AtLinked

(* A dock takes a delivery and keeps those it has.                         *)
LEMMA DockTakes ==
  ASSUME NEW x \in B!Dock, NEW b \in Bindings
  PROVE  /\ LET y == [ x EXCEPT !.inputs = @ \cup {b} ]
            IN  y \in B!Dock /\ b \in y.inputs /\ x.inputs \subseteq y.inputs /\ x.outputs \subseteq y.outputs
         /\ LET y == [ x EXCEPT !.outputs = @ \cup {b} ]
            IN  y \in B!Dock /\ b \in y.outputs /\ x.inputs \subseteq y.inputs /\ x.outputs \subseteq y.outputs
<1>1. LET y == [ x EXCEPT !.inputs = @ \cup {b} ]
      IN  y \in B!Dock /\ b \in y.inputs /\ x.inputs \subseteq y.inputs /\ x.outputs \subseteq y.outputs
  BY DEF B!Dock
<1>2. LET y == [ x EXCEPT !.outputs = @ \cup {b} ]
      IN  y \in B!Dock /\ b \in y.outputs /\ x.inputs \subseteq y.inputs /\ x.outputs \subseteq y.outputs
  BY DEF B!Dock
<1> QED BY <1>1, <1>2

LEMMA DockFound ==
  ASSUME B!IndInv, NEW emitter \in Modules, NEW d \in Docks
  PROVE  LET m == B!stateMachineAddressForOrderEvent(emitter)
         IN /\ emitter \in B!Addresses /\ m \in B!Addresses
            /\ docks[<< m, d >>] # Absent => docks[<< m, d >>] \in B!Dock
<1>1. emitter \in B!Addresses
  BY DEF B!Addresses
<1>2. B!stateMachineAddressForOrderEvent(emitter) \in B!Addresses
  BY <1>1, DockEmitter
<1>3. << B!stateMachineAddressForOrderEvent(emitter), d >> \in B!DockKeys
  BY <1>2 DEF B!DockKeys
<1> QED BY <1>1, <1>2, <1>3, SnapshotTypes

LEMMA InputSubmittedStep ==
  ASSUME B!IndInv, NEW emitter \in Modules, NEW d \in Docks, NEW b \in Bindings,
         B!applyDockInputSubmitted(emitter, d, b)
  PROVE  B!IndInv'
<1> DEFINE m == B!stateMachineAddressForOrderEvent(emitter)
           x == docks[<< m, d >>]
           dock == [ x EXCEPT !.inputs = @ \cup {b} ]
           new == B!AtLinked(B!AtLocal(orders, m, x), m, x)
<1>1. /\ B!Replays /\ failed' = FALSE
      /\ IF x = Absent
         THEN /\ unresolved' = B!CountUnresolvedDock(B!Counted(unresolved, emitter))
              /\ UNCHANGED << docks, orders >>
         ELSE /\ docks' = [ docks EXCEPT ![<< m, d >>] = dock ] /\ orders' = new
              /\ unresolved' = B!Counted(unresolved, emitter)
      /\ trusted' = (trusted /\ B!Cardinality(B!Owners(emitter)) = 1)
      /\ sent' = sent \cup { << d, b, "input" >> }
      /\ UNCHANGED << published, modules, plans >>
  BY DEF B!applyDockInputSubmitted, B!Delivery, B!findDockForEvent, B!Applied
<1>2. emitter \in B!Addresses /\ m \in B!Addresses /\ (x # Absent => x \in B!Dock)
  BY DockFound
<1>3. trusted' \in BOOLEAN
  BY <1>1, SnapshotTypes
<1>4. ASSUME x # Absent PROVE Filing(new) /\ GrowsUnder(orders, new, m)
  <2>1. x \in B!Dock /\ m \in B!Addresses
    BY <1>2, <1>4
  <2> DEFINE mid == B!AtLocal(orders, m, x)
  <2> HIDE DEF m, x
  <2>2. Filing(mid) /\ GrowsUnder(orders, mid, m)
    BY <2>1, OrdersFiled, LocalTouched, LinkedTouched
  <2> HIDE DEF mid
  <2>3. Filing(B!AtLinked(mid, m, x)) /\ GrowsUnder(mid, B!AtLinked(mid, m, x), m)
    BY <2>1, <2>2, LocalTouched, LinkedTouched
  <2>4. GrowsUnder(orders, B!AtLinked(mid, m, x), m)
    BY <2>2, <2>3, GrowsTwice
  <2> QED BY <2>3, <2>4 DEF mid
<1>5. x # Absent => /\ dock \in B!Dock /\ x.inputs \subseteq dock.inputs /\ x.outputs \subseteq dock.outputs
                    /\ b \in dock.inputs
  <2> HIDE DEF m, x
  <2> QED BY <1>2, DockTakes
<1> HIDE DEF m, dock, new
<1> QED BY <1>1, <1>2, <1>3, <1>4, <1>5, DockDelivered DEF m

LEMMA OutputSubmittedStep ==
  ASSUME B!IndInv, NEW emitter \in Modules, NEW d \in Docks, NEW b \in Bindings,
         B!applyDockOutputSubmitted(emitter, d, b)
  PROVE  B!IndInv'
<1> DEFINE m == B!stateMachineAddressForOrderEvent(emitter)
           x == docks[<< m, d >>]
           dock == [ x EXCEPT !.outputs = @ \cup {b} ]
           new == B!AtLocal(B!AtLinked(orders, m, x), m, x)
<1>1. /\ B!Replays /\ failed' = FALSE
      /\ IF x = Absent
         THEN /\ unresolved' = B!CountUnresolvedDock(B!Counted(unresolved, emitter))
              /\ UNCHANGED << docks, orders >>
         ELSE /\ docks' = [ docks EXCEPT ![<< m, d >>] = dock ] /\ orders' = new
              /\ unresolved' = B!Counted(unresolved, emitter)
      /\ trusted' = (trusted /\ B!Cardinality(B!Owners(emitter)) = 1)
      /\ sent' = sent \cup { << d, b, "output" >> }
      /\ UNCHANGED << published, modules, plans >>
  BY DEF B!applyDockOutputSubmitted, B!Delivery, B!findDockForEvent, B!Applied
<1>2. emitter \in B!Addresses /\ m \in B!Addresses /\ (x # Absent => x \in B!Dock)
  BY DockFound
<1>3. trusted' \in BOOLEAN
  BY <1>1, SnapshotTypes
<1>4. ASSUME x # Absent PROVE Filing(new) /\ GrowsUnder(orders, new, m)
  <2>1. x \in B!Dock /\ m \in B!Addresses
    BY <1>2, <1>4
  <2> DEFINE mid == B!AtLinked(orders, m, x)
  <2> HIDE DEF m, x
  <2>2. Filing(mid) /\ GrowsUnder(orders, mid, m)
    BY <2>1, OrdersFiled, LocalTouched, LinkedTouched
  <2> HIDE DEF mid
  <2>3. Filing(B!AtLocal(mid, m, x)) /\ GrowsUnder(mid, B!AtLocal(mid, m, x), m)
    BY <2>1, <2>2, LocalTouched, LinkedTouched
  <2>4. GrowsUnder(orders, B!AtLocal(mid, m, x), m)
    BY <2>2, <2>3, GrowsTwice
  <2> QED BY <2>3, <2>4 DEF mid
<1>5. x # Absent => /\ dock \in B!Dock /\ x.inputs \subseteq dock.inputs /\ x.outputs \subseteq dock.outputs
                    /\ b \in dock.outputs
  <2> HIDE DEF m, x
  <2> QED BY <1>2, DockTakes
<1> HIDE DEF m, dock, new
<1> QED BY <1>1, <1>2, <1>3, <1>4, <1>5, DockDelivered DEF m

LEMMA OutputSatisfiedStep ==
  ASSUME B!IndInv, NEW emitter \in Modules, NEW d \in Docks, NEW b \in Bindings,
         B!applyDockOutputSatisfied(emitter, d, b)
  PROVE  B!IndInv'
<1> DEFINE m == B!stateMachineAddressForOrderEvent(emitter)
           x == docks[<< m, d >>]
           dock == [ x EXCEPT !.outputs = @ \cup {b} ]
           new == B!AtLocal(orders, m, x)
<1>1. /\ B!Replays /\ failed' = FALSE
      /\ IF x = Absent
         THEN /\ unresolved' = B!CountUnresolvedDock(B!Counted(unresolved, emitter))
              /\ UNCHANGED << docks, orders >>
         ELSE /\ docks' = [ docks EXCEPT ![<< m, d >>] = dock ] /\ orders' = new
              /\ unresolved' = B!Counted(unresolved, emitter)
      /\ trusted' = (trusted /\ B!Cardinality(B!Owners(emitter)) = 1)
      /\ sent' = sent \cup { << d, b, "output" >> }
      /\ UNCHANGED << published, modules, plans >>
  BY DEF B!applyDockOutputSatisfied, B!Delivery, B!findDockForEvent, B!Applied
<1>2. emitter \in B!Addresses /\ m \in B!Addresses /\ (x # Absent => x \in B!Dock)
  BY DockFound
<1>3. trusted' \in BOOLEAN
  BY <1>1, SnapshotTypes
<1>4. ASSUME x # Absent PROVE Filing(new) /\ GrowsUnder(orders, new, m)
  <2>1. x \in B!Dock /\ m \in B!Addresses
    BY <1>2, <1>4
  <2> HIDE DEF m, x
  <2> QED BY <2>1, OrdersFiled, LocalTouched
<1>5. x # Absent => /\ dock \in B!Dock /\ x.inputs \subseteq dock.inputs /\ x.outputs \subseteq dock.outputs
                    /\ b \in dock.outputs
  <2> HIDE DEF m, x
  <2> QED BY <1>2, DockTakes
<1> HIDE DEF m, dock, new
<1> QED BY <1>1, <1>2, <1>3, <1>4, <1>5, DockDelivered DEF m

LEMMA BucketsStep ==
  ASSUME B!IndInv, [B!Next]_(B!bucketVars)
  PROVE  B!IndInv'
<1>1. CASE UNCHANGED B!bucketVars
  BY <1>1 DEF B!bucketVars, B!IndInv, B!BucketsSound, B!TypeOK, B!NoSplitOrder, B!NoSilentPhantom,
              B!ContractStreamReplays, B!DeliveriesAccounted
<1>2. CASE B!Next
  <2>1. CASE \E m \in Machines, id \in ModuleIds, a \in Modules : B!applyStateMachineModuleSet(m, id, a)
    BY <2>1, ModuleSetStep
  <2>2. CASE \E m \in Machines, p \in Plans :
               \/ B!applyPlanCommitted(m, p) \/ B!applyPlanFinalized(m, p) \/ B!applyPlanRegistered(m, p)
               \/ B!applyPlanPublisherRecorded(m, p)
    BY <2>2, PlanCommittedStep, PlanFinalizedStep, PlanRegisteredStep, PublisherRecordedStep
  <2>3. CASE \E a \in Modules, p \in Plans :
               B!applySignalCapabilityRegistered(a, p) \/ B!applyStageSelectorBindingRegistered(a, p)
    BY <2>3, SignalRegisteredStep, SelectorRegisteredStep
  <2>4. CASE \E m \in Machines, p \in Plans, o \in Orders :
               \/ B!applyOrderRegistered(m, p, o) \/ B!applyOrderMaterialized(m, p, o)
               \/ B!applyOrderRelayerRecorded(m, p, o) \/ B!applyOrderTriggered(m, p, o)
    BY <2>4, OrderRegisteredStep, OrderMaterializedStep, OrderRelayerStep, OrderTriggeredStep
  <2>5. CASE \E m \in Machines, p \in Plans \cup {NoPlan}, o \in Orders, r \in BOOLEAN : B!OrderEvent(m, p, o, r)
    BY <2>5, OrderEventStep
  <2>6. CASE \E a \in Modules, p \in Plans \cup {NoPlan}, o \in Orders :
               B!ensureStateMachineOrderFromModuleEvent(a, p, o) \/ B!applyOrderLinked(a, p, o)
    BY <2>6, ModuleEventStep, OrderLinkedStep
  <2>7. CASE \E a \in Modules, d \in Docks, lp \in Plans, tp \in Plans, lo \in Orders, to \in Orders :
               B!applyDockOpened(a, d, lp, lo, tp, to)
    BY <2>7, DockOpenedStep
  <2>8. CASE \E a \in Modules, d \in Docks, b \in Bindings :
               \/ B!applyDockInputSubmitted(a, d, b) \/ B!applyDockOutputSubmitted(a, d, b)
               \/ B!applyDockOutputSatisfied(a, d, b)
    BY <2>8, InputSubmittedStep, OutputSubmittedStep, OutputSatisfiedStep
  <2> QED BY <1>2, <2>1, <2>2, <2>3, <2>4, <2>5, <2>6, <2>7, <2>8 DEF B!Next, B!rebuildOrderProjections
<1> QED BY <1>1, <1>2

(* A bucket of an unknown plan stands alone, one under a module's address  *)
(* comes with the diagnostic count, every delivery of a dock is recorded   *)
(* or counted, and a stream the contracts emit is replayed to the end: for *)
(* any number of state machines, plans and orders and any order of events. *)
THEOREM BucketsTruthful == Spec => []BucketsSound
<1> DEFINE Inv == focus = "buckets" => B!IndInv
<1>1. Init => Inv
  BY BucketsInit DEF Init
<1>2. Inv /\ [Next]_vars => Inv'
  BY FocusStep, BucketsStep
<1>3. Inv => BucketsSound
  BY DEF BucketsSound, B!IndInv
<1> QED BY <1>1, <1>2, <1>3, PTL DEF Spec

-----------------------------------------------------------------------------
(* The log. A hash that is on chain stands for the blocks up to it, and    *)
(* what the operation in progress read is still what the chain says.       *)

LEMMA LogBounds ==
  /\ X!Deployment = 1 /\ MaxHeight \in Nat /\ MaxForks \in Nat /\ MaxFaults \in Nat /\ MaxRebuilds \in Nat
  /\ Confirmations \in Nat /\ NoTx \notin Txs
  /\ X!Heights = 0..MaxHeight /\ X!Hashes = (0..MaxHeight) \X (0..MaxForks)
BY IndexerConstants DEF X!Deployment, X!Heights, X!Hashes

(* A chain of the model, now or after a step.                              *)
Chains == { c \in Seq(X!Blocks) : Len(c) <= MaxHeight }

LEMMA ChainShape ==
  ASSUME NEW c \in Chains
  PROVE  /\ c \in Seq(X!Blocks) /\ Len(c) \in 0..MaxHeight
         /\ \A k \in 1..Len(c) : c[k] \in [ fork : 0..MaxForks, tx : Txs \cup {NoTx} ]
<1>1. c \in Seq(X!Blocks) /\ Len(c) <= MaxHeight
  BY DEF Chains
<1>2. Len(c) \in Nat
  BY <1>1, LenProperties
<1>3. \A k \in 1..Len(c) : c[k] \in X!Blocks
  BY <1>1, ElementOfSeq
<1> QED BY <1>1, <1>2, <1>3, LogBounds DEF X!Blocks

(* What the chain logs between two heights.                                *)
LEMMA LogsOf ==
  ASSUME NEW c \in Chains, NEW a \in Nat, NEW b \in Int
  PROVE  /\ \A e \in X!Logs(c, a, b) :
              /\ e \in [ h : Int, tx : Txs, fork : Int ]
              /\ e.h \in a..b /\ e.h \in 1..Len(c)
              /\ e.tx = c[e.h].tx /\ e.fork = c[e.h].fork
         /\ \A e \in [ h : Int, tx : Txs, fork : Int ] :
              e.h \in a..b /\ e.h \in 1..Len(c) /\ e.tx = c[e.h].tx /\ e.fork = c[e.h].fork
                => e \in X!Logs(c, a, b)
         /\ X!Logs(c, a, b) \subseteq X!Events
<1>1. MaxHeight \in Nat /\ MaxForks \in Nat /\ NoTx \notin Txs
  BY LogBounds
<1>2. \A k \in 1..Len(c) : c[k] \in [ fork : 0..MaxForks, tx : Txs \cup {NoTx} ]
  BY ChainShape
<1>3. Len(c) \in 0..MaxHeight
  BY ChainShape
<1>4. ASSUME NEW e \in X!Logs(c, a, b)
      PROVE  /\ e \in [ h : 1..MaxHeight, tx : Txs, fork : 0..MaxForks ]
             /\ e.h \in a..b /\ e.h \in 1..Len(c)
             /\ e.tx = c[e.h].tx /\ e.fork = c[e.h].fork
  <2>1. PICK h \in { k \in a..b : k \in 1..Len(c) /\ c[k].tx # NoTx } :
          e = [ h |-> h, tx |-> c[h].tx, fork |-> c[h].fork ]
    BY DEF X!Logs
  <2> QED BY <1>1, <1>2, <1>3, <2>1
<1>5. ASSUME NEW e \in [ h : Int, tx : Txs, fork : Int ], e.h \in a..b, e.h \in 1..Len(c),
             e.tx = c[e.h].tx, e.fork = c[e.h].fork
      PROVE  e \in X!Logs(c, a, b)
  <2>1. e = [ h |-> e.h, tx |-> c[e.h].tx, fork |-> c[e.h].fork ]
    BY <1>5
  <2>2. e.h \in { k \in a..b : k \in 1..Len(c) /\ c[k].tx # NoTx }
    BY <1>1, <1>5
  <2> QED BY <2>1, <2>2 DEF X!Logs
<1>6. X!Events = [ h : 1..MaxHeight, tx : Txs, fork : 0..MaxForks ]
  BY DEF X!Events
<1> QED BY <1>1, <1>4, <1>5, <1>6

LEMMA LogHash ==
  ASSUME NEW c \in Chains, NEW h \in 0..Len(c)
  PROVE  /\ X!HashOf(c, h) \in X!Hashes
         /\ X!HashOf(c, h)[1] = h
         /\ X!HashOf(c, h)[2] = IF h = 0 THEN 0 ELSE c[h].fork
         /\ h > 0 => c[h].fork \in 0..MaxForks
<1>1. MaxHeight \in Nat /\ MaxForks \in Nat /\ Len(c) \in 0..MaxHeight
  BY LogBounds, ChainShape
<1>2. h > 0 => c[h] \in [ fork : 0..MaxForks, tx : Txs \cup {NoTx} ]
  BY <1>1, ChainShape
<1> QED BY <1>1, <1>2, LogBounds DEF X!HashOf

(* What it logs up to one height, and from there to another.               *)
LEMMA LogsJoin ==
  ASSUME NEW c \in Chains, NEW a \in Nat, NEW m \in Nat, NEW b \in Int, a <= m, m <= b + 1
  PROVE  /\ X!Logs(c, a, b) = X!Logs(c, a, m - 1) \cup X!Logs(c, m, b)
         /\ { e \in X!Logs(c, a, b) : e.h <= m - 1 } = X!Logs(c, a, m - 1)
<1> DEFINE All == X!Logs(c, a, b)  Low == X!Logs(c, a, m - 1)  High == X!Logs(c, m, b)
<1>1. /\ \A e \in All : e \in [ h : Int, tx : Txs, fork : Int ] /\ e.h \in a..b /\ e.h \in 1..Len(c)
                          /\ e.tx = c[e.h].tx /\ e.fork = c[e.h].fork
      /\ \A e \in [ h : Int, tx : Txs, fork : Int ] :
           e.h \in a..b /\ e.h \in 1..Len(c) /\ e.tx = c[e.h].tx /\ e.fork = c[e.h].fork => e \in All
  <2>1. \A e \in All : e \in [ h : Int, tx : Txs, fork : Int ] /\ e.h \in a..b /\ e.h \in 1..Len(c)
                       /\ e.tx = c[e.h].tx /\ e.fork = c[e.h].fork
    BY LogsOf, SMTT(30)
  <2>2. \A e \in [ h : Int, tx : Txs, fork : Int ] :
          e.h \in a..b /\ e.h \in 1..Len(c) /\ e.tx = c[e.h].tx /\ e.fork = c[e.h].fork => e \in All
    BY LogsOf, SMTT(30)
  <2> QED BY <2>1, <2>2
<1>2. /\ \A e \in Low : e \in [ h : Int, tx : Txs, fork : Int ] /\ e.h \in a..m - 1 /\ e.h \in 1..Len(c)
                          /\ e.tx = c[e.h].tx /\ e.fork = c[e.h].fork
      /\ \A e \in [ h : Int, tx : Txs, fork : Int ] :
           e.h \in a..m - 1 /\ e.h \in 1..Len(c) /\ e.tx = c[e.h].tx /\ e.fork = c[e.h].fork => e \in Low
  BY LogsOf
<1>3. /\ \A e \in High : e \in [ h : Int, tx : Txs, fork : Int ] /\ e.h \in m..b /\ e.h \in 1..Len(c)
                          /\ e.tx = c[e.h].tx /\ e.fork = c[e.h].fork
      /\ \A e \in [ h : Int, tx : Txs, fork : Int ] :
           e.h \in m..b /\ e.h \in 1..Len(c) /\ e.tx = c[e.h].tx /\ e.fork = c[e.h].fork => e \in High
  BY LogsOf
<1> HIDE DEF All, Low, High
<1>4. All \subseteq Low \cup High
  BY <1>1, <1>2, <1>3
<1>5. Low \cup High \subseteq All
  BY <1>1, <1>2, <1>3
<1>6. \A e : e \in All /\ e.h <= m - 1 <=> e \in Low
  BY <1>1, <1>2
<1>7. All = Low \cup High /\ { e \in All : e.h <= m - 1 } = Low
  BY <1>4, <1>5, <1>6
<1> QED BY <1>7 DEF All, Low, High

(* Two chains that agree up to a height have the same logs up to it.       *)
LEMMA LogsAgree ==
  ASSUME NEW c \in Chains, NEW d \in Chains, NEW a \in Nat, NEW m \in Nat, m <= Len(c), m <= Len(d),
         \A i \in 1..m : c[i] = d[i]
  PROVE  X!Logs(c, a, m) = X!Logs(d, a, m)
<1> DEFINE C == X!Logs(c, a, m)  D == X!Logs(d, a, m)
<1>1. /\ \A e \in C : e \in [ h : Int, tx : Txs, fork : Int ] /\ e.h \in a..m /\ e.h \in 1..Len(c)
                          /\ e.tx = c[e.h].tx /\ e.fork = c[e.h].fork
      /\ \A e \in [ h : Int, tx : Txs, fork : Int ] :
           e.h \in a..m /\ e.h \in 1..Len(c) /\ e.tx = c[e.h].tx /\ e.fork = c[e.h].fork => e \in C
  BY LogsOf
<1>2. /\ \A e \in D : e \in [ h : Int, tx : Txs, fork : Int ] /\ e.h \in a..m /\ e.h \in 1..Len(d)
                          /\ e.tx = d[e.h].tx /\ e.fork = d[e.h].fork
      /\ \A e \in [ h : Int, tx : Txs, fork : Int ] :
           e.h \in a..m /\ e.h \in 1..Len(d) /\ e.tx = d[e.h].tx /\ e.fork = d[e.h].fork => e \in D
  BY LogsOf
<1>3. Len(c) \in Nat /\ Len(d) \in Nat
  BY ChainShape
<1> HIDE DEF C, D
<1>4. \A e \in C : e \in D
  BY <1>1, <1>2, <1>3
<1>5. \A e \in D : e \in C
  BY <1>1, <1>2, <1>3
<1>6. C = D
  BY <1>4, <1>5
<1> QED BY <1>6 DEF C, D

(* The chain keeps its first k blocks and gets another one, which carries  *)
(* a new name unless it only grows.                                        *)
Reshaped(k) ==
  /\ k \in 0..Len(chain) /\ chain' \in Chains /\ Len(chain') = k + 1
  /\ \A i \in 1..k : chain'[i] = chain[i]
  /\ chain'[k + 1].fork = forks' /\ forks' \in 0..MaxForks
  /\ \/ k = Len(chain) /\ forks' = forks /\ (k = 0 => chain'[1].tx # NoTx)
     \/ k >= 1 /\ forks' = forks + 1

LEMMA ChainReshaped ==
  ASSUME X!Types, X!OneProcess, X!Mine \/ \E k \in X!Heights : X!Reorg(k)
  PROVE  \E k \in 0..Len(chain) : Reshaped(k)
<1>1. /\ chain \in Seq(X!Blocks) /\ Len(chain) \in 0..MaxHeight /\ forks \in 0..MaxForks /\ chain \in Chains
  <2>1. chain \in Chains /\ forks \in 0..MaxForks
    BY DEF X!Types, Chains
  <2> QED BY <2>1, ChainShape
<1>2. CASE X!Mine
  <2>1. PICK tx \in Txs \cup {NoTx} : X!MayHold(Len(chain) + 1, tx) /\ chain' = Append(chain, [ fork |-> forks, tx |-> tx ])
    BY <1>2 DEF X!Mine
  <2>2. Len(chain) < MaxHeight /\ forks' = forks
    BY <1>2 DEF X!Mine
  <2> DEFINE b == [ fork |-> forks, tx |-> tx ]
  <2>3. b \in X!Blocks /\ b.fork = forks /\ b.tx = tx
    BY <1>1 DEF X!Blocks
  <2> HIDE DEF b
  <2>4. chain' \in Seq(X!Blocks) /\ Len(chain') = Len(chain) + 1 /\ chain'[Len(chain) + 1] = b
        /\ \A i \in 1..Len(chain) : chain'[i] = chain[i]
    BY <1>1, <2>1, <2>3, AppendProperties DEF b
  <2>5. Len(chain) = 0 => tx # NoTx
    BY <2>1, LogBounds DEF X!MayHold, X!OneProcess
  <2>6. chain' \in Chains
    BY <1>1, <2>2, <2>4, LogBounds DEF Chains
  <2> QED BY <1>1, <2>2, <2>3, <2>4, <2>5, <2>6 DEF Reshaped
<1>3. ASSUME NEW k \in X!Heights, X!Reorg(k)
      PROVE  Reshaped(k) /\ k \in 0..Len(chain)
  <2>1. PICK tx \in Txs \cup {NoTx} : chain' = Append(SubSeq(chain, 1, k), [ fork |-> forks + 1, tx |-> tx ])
    BY <1>3 DEF X!Reorg
  <2>2. k \in 1..Len(chain) - 1 /\ forks' = forks + 1 /\ forks < MaxForks
    BY <1>3, LogBounds DEF X!Reorg
  <2> DEFINE b == [ fork |-> forks + 1, tx |-> tx ]
             s == SubSeq(chain, 1, k)
  <2>3. b \in X!Blocks /\ b.fork = forks + 1
    BY <1>1, <2>2, LogBounds DEF X!Blocks
  <2>4. s \in Seq(X!Blocks) /\ Len(s) = k /\ \A i \in 1..k : s[i] = chain[i]
    BY <1>1, <2>2, SubSeqProperties
  <2> HIDE DEF b, s
  <2>5. chain' = Append(s, b)
    BY <2>1 DEF b, s
  <2>6. chain' \in Seq(X!Blocks) /\ Len(chain') = k + 1 /\ chain'[k + 1] = b /\ \A i \in 1..k : chain'[i] = s[i]
    BY <2>3, <2>4, <2>5, AppendProperties
  <2>7. chain' \in Chains
    BY <1>1, <2>2, <2>6, LogBounds DEF Chains
  <2> QED BY <1>1, <2>2, <2>3, <2>4, <2>6, <2>7, LogBounds DEF Reshaped
<1> QED BY <1>2, <1>3

LEMMA HashKept ==
  ASSUME X!Types, NEW k \in 0..Len(chain), Reshaped(k), NEW hash \in X!Hashes, X!Seen(hash)
  PROVE  /\ X!Seen(hash)'
         /\ X!OnChain(hash)' => X!OnChain(hash) /\ hash[1] <= k
<1>1. chain \in Chains /\ Len(chain) \in 0..MaxHeight /\ forks \in 0..MaxForks /\ hash[1] \in Nat /\ hash[2] \in Nat
      /\ hash = << hash[1], hash[2] >>
  <2>1. chain \in Chains /\ forks \in 0..MaxForks
    BY DEF X!Types, Chains
  <2> QED BY <2>1, ChainShape, LogBounds
<1>2. X!Seen(hash)'
  BY <1>1 DEF Reshaped, X!Seen
<1>3. ASSUME X!OnChain(hash)' PROVE X!OnChain(hash) /\ hash[1] <= k
  <2>1. hash[1] <= k + 1 /\ X!HashOf(chain', hash[1]) = hash
    BY <1>3 DEF X!OnChain, Reshaped
  <2>2. hash[1] # k + 1
    BY <1>1, <2>1 DEF X!HashOf, Reshaped, X!Seen
  <2> QED BY <1>1, <2>1, <2>2 DEF X!HashOf, X!OnChain, Reshaped
<1> QED BY <1>2, <1>3

LEMMA AgreementKept ==
  ASSUME X!Types, NEW k \in 0..Len(chain), Reshaped(k), UNCHANGED events,
         NEW hash \in X!Hashes, X!Seen(hash), X!Agrees(hash)
  PROVE  X!Agrees(hash)'
<1> SUFFICES ASSUME X!OnChain(hash)'
             PROVE  { e \in events : e.h <= hash[1] } = X!Logs(chain', 1, hash[1])
  BY LogBounds DEF X!Agrees, X!UpTo
<1>1. X!OnChain(hash) /\ hash[1] <= k /\ hash[1] \in Nat
  BY HashKept, LogBounds
<1>2. { e \in events : e.h <= hash[1] } = X!Logs(chain, 1, hash[1])
  BY <1>1, LogBounds DEF X!Agrees, X!UpTo
<1>3. chain \in Chains /\ chain' \in Chains /\ hash[1] <= Len(chain) /\ hash[1] <= Len(chain')
      /\ \A i \in 1..hash[1] : chain[i] = chain'[i]
  <2>1. chain \in Chains
    BY DEF X!Types, Chains
  <2>2. Len(chain) \in Nat
    BY <2>1, ChainShape
  <2> QED BY <1>1, <2>1, <2>2 DEF Reshaped
<1>4. X!Logs(chain, 1, hash[1]) = X!Logs(chain', 1, hash[1])
  BY <1>1, <1>3, LogsAgree
<1> QED BY <1>2, <1>4

(* The chain moves: what was true of a hash on it stays true, and inside   *)
(* an operation it only grows.                                             *)
LEMMA ChainStep ==
  ASSUME X!IndInv, X!OneProcess, X!Mine \/ \E k \in X!Heights : X!Reorg(k)
  PROVE  X!IndInv'
<1>0. PICK k \in 0..Len(chain) : Reshaped(k)
  BY ChainReshaped DEF X!IndInv
<1>1. /\ UNCHANGED << X!storeVars, X!memVars, other, X!histVars >>
      /\ X!Types /\ X!ChainInv /\ X!CursorInv /\ X!RoundInv /\ X!OwedInv /\ X!GhostInv
  BY DEF X!Mine, X!Reorg, X!IndInv
<1>2. /\ UNCHANGED << events, cursor, sync, steps, deliveries, memory, casFailures, pc, job, other,
                      faults, rebuilds, forgone, uncleaned >>
  BY <1>1 DEF X!storeVars, X!memVars, X!histVars
<1>3. /\ chain \in Chains /\ Len(chain) \in 0..MaxHeight /\ forks \in 0..MaxForks
      /\ events \subseteq X!Events /\ cursor \in X!Cursors /\ job \in X!Job
  <2>1. chain \in Chains
    BY <1>1 DEF X!Types, Chains
  <2> QED BY <1>1, <2>1, ChainShape DEF X!Types
<1>4. X!Types'
  <2>1. chain' \in Seq(X!Blocks) /\ Len(chain') <= MaxHeight /\ forks' \in 0..MaxForks
    BY <1>0 DEF Reshaped, Chains
  <2> QED BY <1>1, <1>2, <2>1 DEF X!Types
<1>5. X!ChainInv'
  <2>1. ASSUME NEW i \in 1..k PROVE chain'[i].fork <= forks'
    <3>1. i \in 1..Len(chain) /\ chain'[i] = chain[i] /\ forks <= forks'
      BY <1>0, <1>3 DEF Reshaped
    <3>2. chain[i].fork <= forks /\ chain[i].fork \in 0..MaxForks
      BY <1>1, <1>3, <3>1, ChainShape DEF X!ChainInv
    <3> QED BY <1>0, <1>3, <3>1, <3>2, LogBounds DEF Reshaped
  <2>2. \A i \in 1..Len(chain') : i \in 1..k \/ i = k + 1
    BY <1>0 DEF Reshaped
  <2>3. chain'[1].tx # NoTx
    BY <1>0, <1>1, <1>3 DEF X!ChainInv, Reshaped
  <2> QED BY <1>0, <2>1, <2>2, <2>3 DEF X!ChainInv, Reshaped
<1>6. X!CursorInv'
  <2>1. cursor.hash \in X!Hashes
    BY <1>3 DEF X!Cursors, X!Hashes
  <2>2. X!Seen(cursor.hash)' /\ X!Agrees(cursor.hash)'
    <3>1. X!Seen(cursor.hash) /\ X!Agrees(cursor.hash)
      BY <1>1 DEF X!CursorInv
    <3>2. PICK hash \in X!Hashes : hash = cursor.hash
      BY <2>1
    <3>3. X!Seen(hash)' /\ X!Agrees(hash)'
      BY <1>0, <1>1, <1>2, <3>1, <3>2, HashKept, AgreementKept
    <3> QED BY <1>2, <3>2, <3>3
  <2>3. ASSUME NEW e \in X!BehindCursor
        PROVE  X!Seen(<< e.h, e.fork >>)' /\ X!Agrees(<< e.h, e.fork >>)'
    <3>1. << e.h, e.fork >> \in X!Hashes
      BY <1>3, LogBounds DEF X!BehindCursor, X!Events
    <3>2. X!Seen(<< e.h, e.fork >>) /\ X!Agrees(<< e.h, e.fork >>)
      BY <1>1 DEF X!CursorInv
    <3> QED BY <1>0, <1>1, <1>2, <3>1, <3>2, HashKept, AgreementKept
  <2>4. X!BehindCursor' = X!BehindCursor
    BY <1>2 DEF X!BehindCursor
  <2>5. Len(chain) >= 1 => Len(chain') >= 1
    BY <1>0, <1>3 DEF Reshaped
  <2> QED BY <1>1, <1>2, <2>2, <2>3, <2>4, <2>5 DEF X!CursorInv
<1>7. X!RoundInv'
  <2>1. CASE pc = "idle"
    <3>1. memory \in { X!NoCursor, cursor }
      BY <1>1, <2>1 DEF X!RoundInv, X!MemoryInv
    <3> QED BY <1>2, <2>1, <3>1 DEF X!RoundInv, X!MemoryInv, X!RefreshInv, X!UpdateInv, X!RebuildInv,
                              X!InRefresh, X!InClean, X!InSweep, X!InRebuild
  <2>2. CASE pc # "idle"
    <3>1. /\ chain' \in Chains /\ Len(chain') = Len(chain) + 1 /\ Len(chain) \in Nat
          /\ \A i \in 1..Len(chain) : chain'[i] = chain[i]
      BY <1>0, <1>1, <1>3, <2>2 DEF X!Reorg, X!Mine, X!At, X!OneProcess, Reshaped
    <3>2. ASSUME NEW a \in Nat, NEW m \in Nat, m <= Len(chain)
          PROVE  X!Logs(chain', a, m) = X!Logs(chain, a, m)
      <4>1. m <= Len(chain') /\ \A i \in a..m : i \in 1..m => chain'[i] = chain[i]
        BY <3>1, <3>2
      <4>2. \A i \in 1..m : chain'[i] = chain[i]
        BY <3>1, <3>2
      <4>3. PICK d \in Chains : d = chain'
        BY <3>1
      <4> QED BY <1>3, <3>2, <4>1, <4>2, <4>3, LogsAgree
    <3>3. ASSUME NEW m \in Nat, m <= Len(chain) PROVE X!HashOf(chain', m) = X!HashOf(chain, m)
      BY <3>1, <3>3 DEF X!HashOf
    <3>4. ASSUME NEW hash \in X!Hashes, X!OnChain(hash) PROVE X!OnChain(hash)'
      BY <3>1, <3>3, <3>4, LogBounds DEF X!OnChain
    <3>5. /\ cursor.hash \in X!Hashes /\ job.hash \in X!Hashes
          /\ job.final \in Nat /\ job.from \in Nat /\ job.next \in Nat /\ Len(chain') \in Nat
      BY <1>3, <3>1, LogBounds DEF X!Cursors, X!Hashes, X!Job
    <3>6. X!OnChain(cursor.hash) => X!OnChain(cursor.hash)'
      <4>1. PICK hash \in X!Hashes : hash = cursor.hash
        BY <3>5
      <4> QED BY <1>2, <3>4, <4>1
    <3>7. X!OnChain(job.hash) => X!OnChain(job.hash)'
      <4>1. PICK hash \in X!Hashes : hash = job.hash
        BY <3>5
      <4> QED BY <1>2, <3>4, <4>1
    <3>8. /\ X!OnCursor' = X!OnCursor /\ X!BehindCursor' = X!BehindCursor /\ X!Pending' = X!Pending
          /\ \A h : X!UpTo(h)' = X!UpTo(h)
          /\ \A a \in Nat : a <= Len(chain) => a <= Len(chain')
      BY <1>2, <3>1 DEF X!OnCursor, X!BehindCursor, X!Pending, X!UpTo
    <3>9. /\ pc' = pc /\ job' = job /\ memory' = memory /\ cursor' = cursor /\ X!Deployment \in Nat
          /\ { e \in events' : e.h \in job'.from..job'.next - 1 } = { e \in events : e.h \in job.from..job.next - 1 }
      BY <1>2, LogBounds
    <3>10. X!RefreshInv'
      BY <1>1, <3>1, <3>5, <3>6, <3>7, <3>8, <3>9 DEF X!RoundInv, X!RefreshInv, X!OnCanonicalCursor
    <3>11. X!UpdateInv'
      <4>1. X!UpdateInv /\ job.final \in Nat /\ job.from \in Nat /\ (job.next >= 1 => job.next - 1 \in Nat)
        BY <1>1, <3>5 DEF X!RoundInv
      <4>2. job.next = 0 => pc # "save"
        BY <1>1, <1>3, <4>1, LogBounds
           DEF X!UpdateInv, X!OnCanonicalCursor, X!OnCursor, X!CursorInv, X!Cursors, X!Job
      <4>3. ASSUME pc \in { "read", "commit", "notify", "hash", "save" } /\ ~job.rebuild
            PROVE  X!OnCanonicalCursor'
        BY <4>1, <4>3, <3>6, <3>8, <3>9 DEF X!UpdateInv, X!OnCanonicalCursor
      <4>4. ASSUME pc \in { "commit", "notify", "hash" } /\ ~job.rebuild
            PROVE  job.from <= job.final /\ job.final <= Len(chain') /\ job.events = X!Logs(chain', job.from, job.final)
        BY <4>1, <4>4, <3>1, <3>2 DEF X!UpdateInv
      <4>5. ASSUME pc \in { "notify", "hash" } /\ ~job.rebuild
            PROVE  X!UpTo(job.final)' = X!Logs(chain', X!Deployment, job.final)
        BY <4>1, <4>5, <3>2, <3>8, <3>9 DEF X!UpdateInv, X!UpTo
      <4>6. ASSUME pc = "save"
            PROVE  /\ job.from <= job.next /\ job.next - 1 <= Len(chain')
                   /\ job.hash = X!HashOf(chain', job.next - 1)
                   /\ { e \in events : e.h <= job.next - 1 } = X!Logs(chain', X!Deployment, job.next - 1)
                   /\ job.events = { e \in events : e.h \in job.from..job.next - 1 }
        <5>1. job.next - 1 \in Nat /\ job.next - 1 <= Len(chain)
          BY <3>5, <4>1, <4>2, <4>6 DEF X!UpdateInv
        <5> QED BY <4>1, <4>6, <5>1, <3>1, <3>2, <3>3, <3>9 DEF X!UpdateInv, X!UpTo
      <4> QED BY <4>1, <4>3, <4>4, <4>5, <4>6, <3>9, <1>2 DEF X!UpdateInv, X!UpTo
    <3>12. X!RebuildInv'
      BY <1>1, <3>1, <3>2, <3>3, <3>5, <3>8, <3>9 DEF X!RoundInv, X!RebuildInv, X!InRebuild
    <3>13. X!MemoryInv'
      BY <1>1, <3>9 DEF X!RoundInv, X!MemoryInv
    <3> QED BY <3>10, <3>11, <3>12, <3>13 DEF X!RoundInv
  <2> QED BY <2>1, <2>2
<1>8. X!OwedInv'
  BY <1>1, <1>2 DEF X!OwedInv, X!NotificationsOwed, X!BehindCursor, X!Owed, X!Pending, X!Notifying, X!At
<1>9. X!GhostInv'
  BY <1>1, <1>2 DEF X!GhostInv, X!BehindCursor, X!Live, X!InHand, X!ToClear
<1> QED BY <1>4, <1>5, <1>6, <1>7, <1>8, <1>9 DEF X!IndInv

(* Steps that leave the log, the cursor and what is owed alone.            *)
LEMMA StoreSame ==
  ASSUME UNCHANGED << chain, forks, events, cursor >>
  PROVE  /\ X!BehindCursor' = X!BehindCursor
         /\ X!ChainInv => X!ChainInv'
         /\ X!CursorInv => X!CursorInv'
<1>1. X!BehindCursor' = X!BehindCursor
  BY DEF X!BehindCursor
<1>2. X!ChainInv => X!ChainInv'
  BY DEF X!ChainInv
<1>3. X!CursorInv => X!CursorInv'
  BY <1>1 DEF X!CursorInv, X!Seen, X!Agrees, X!UpTo, X!OnChain
<1> QED BY <1>1, <1>2, <1>3

Special == { "hash", "save", "notify", "invalidate", "trim", "rb_commit" }

LEMMA QuietFrame ==
  ASSUME X!IndInv, UNCHANGED << chain, forks, events, cursor, steps, deliveries, forgone >>,
         pc \notin Special, pc' \notin Special, uncleaned => uncleaned', uncleaned \in BOOLEAN,
         pc' = "sweeping" => job'.todo \subseteq steps \/ (pc = "sweeping" /\ job'.todo \subseteq job.todo)
  PROVE  X!ChainInv' /\ X!CursorInv' /\ X!OwedInv' /\ X!GhostInv'
<1>0. X!ChainInv /\ X!CursorInv /\ UNCHANGED << chain, forks, events, cursor >>
  BY DEF X!IndInv
<1>1. X!ChainInv' /\ X!CursorInv' /\ X!BehindCursor' = X!BehindCursor
  BY <1>0, StoreSame
<1>2. X!OwedInv'
  <2>1. X!NotificationsOwed /\ X!Pending' = X!Pending /\ X!Notifying = {} /\ X!Notifying' = {}
    BY DEF X!IndInv, X!OwedInv, X!Pending, X!Notifying, X!At, Special
  <2>2. X!NotificationsOwed'
    BY <1>1, <2>1 DEF X!NotificationsOwed, X!Key
  <2> QED BY <2>2 DEF X!OwedInv, Special
<1>3. X!GhostInv'
  <2> SUFFICES ASSUME ~uncleaned' PROVE X!GhostInv'
    BY DEF X!GhostInv
  <2>1. /\ X!InHand = {} /\ X!InHand' = {} /\ X!Live' = X!Live
        /\ X!ToClear({ "invalidate" }) = {} /\ X!ToClear(X!InClean) = {}
        /\ X!ToClear({ "invalidate" })' = {} /\ X!ToClear(X!InClean)' = {}
    BY DEF X!InHand, X!Live, X!ToClear, X!InClean, Special
  <2>2. /\ X!Live \subseteq X!Keys(X!BehindCursor)
        /\ \A s \in steps : X!Keys(s.events) \subseteq X!Keys(X!BehindCursor)
        /\ pc = "sweeping" => \A s \in job.todo : X!Keys(s.events) \subseteq X!Keys(X!BehindCursor)
    BY <2>1 DEF X!IndInv, X!GhostInv, Special
  <2>3. X!Keys(X!BehindCursor)' = X!Keys(X!BehindCursor) /\ \A s : X!Keys(s.events)' = X!Keys(s.events)
    BY <1>1 DEF X!Keys
  <2>4. pc' = "sweeping" => \A s \in job'.todo : X!Keys(s.events) \subseteq X!Keys(X!BehindCursor)
    BY <2>2
  <2> QED BY <2>1, <2>2, <2>3, <2>4 DEF X!GhostInv
<1> QED BY <1>1, <1>2, <1>3

LEMMA TypeFrame ==
  ASSUME X!Types, UNCHANGED << chain, forks, events, cursor, memory, steps, deliveries, casFailures, other,
                               faults, rebuilds, forgone, uncleaned >>,
         sync' \in X!Heights, pc' \in X!Labels, job' \in X!Job, pc' \in X!InRebuild => rebuilds <= MaxRebuilds
  PROVE  X!Types'
BY DEF X!Types

LEMMA JobTypes ==
  ASSUME X!Types
  PROVE  /\ X!NoJob \in X!Job /\ job \in X!Job /\ chain \in Chains
         /\ X!NoJob = [ from |-> 0, final |-> 0, reported |-> 0, events |-> {}, hash |-> << 0, 0 >>,
                        todo |-> {}, next |-> 0, rebuild |-> FALSE ]
         /\ Len(chain) \in 0..MaxHeight /\ X!FinalizedBlock \in 0..Len(chain) /\ X!FinalizedBlock \in X!Heights
         /\ cursor \in X!Cursors /\ memory \in X!Cursors
         /\ X!NoCursor = [ next |-> 0, final |-> 0, hash |-> << 0, 0 >> ]
<1>1. chain \in Chains /\ cursor \in X!Cursors /\ memory \in X!Cursors /\ job \in X!Job
  BY DEF X!Types, Chains
<1>2. Len(chain) \in 0..MaxHeight
  BY <1>1, ChainShape
<1>3. X!NoJob \in X!Job
  BY LogBounds DEF X!NoJob, X!Job, X!Hashes, X!Heights
<1> QED BY <1>1, <1>2, <1>3, LogBounds DEF X!NoJob, X!NoCursor, X!FinalizedBlock

LEMMA JobNumbers ==
  ASSUME X!Types
  PROVE  /\ job.from \in 0..MaxHeight + 1 /\ job.next \in 0..MaxHeight + 1 /\ job.final \in 0..MaxHeight
         /\ job.reported \in 0..MaxHeight /\ job.hash \in X!Hashes /\ job.rebuild \in BOOLEAN
         /\ job.events \subseteq X!Events /\ job.todo \subseteq X!Step
         /\ cursor.next \in 0..MaxHeight + 1 /\ cursor.final \in 0..MaxHeight /\ cursor.hash \in X!Hashes
         /\ cursor.hash[1] \in 0..MaxHeight /\ cursor.hash[2] \in 0..MaxForks
         /\ memory.final \in 0..MaxHeight /\ Len(chain) \in Nat /\ MaxHeight \in Nat
<1>1. job \in X!Job /\ cursor \in X!Cursors /\ memory \in X!Cursors /\ Len(chain) \in 0..MaxHeight
  BY JobTypes
<1>2. /\ job.from \in 0..MaxHeight + 1 /\ job.next \in 0..MaxHeight + 1 /\ job.final \in X!Heights
      /\ job.reported \in X!Heights /\ job.hash \in X!Hashes /\ job.rebuild \in BOOLEAN
      /\ job.events \subseteq X!Events /\ job.todo \subseteq X!Step
  BY <1>1 DEF X!Job
<1>3. /\ cursor.next \in 0..MaxHeight + 1 /\ cursor.final \in X!Heights /\ cursor.hash \in X!Hashes
      /\ memory.final \in X!Heights
  BY <1>1 DEF X!Cursors, X!Hashes
<1>4. cursor.hash[1] \in 0..MaxHeight /\ cursor.hash[2] \in 0..MaxForks
  BY <1>3, LogBounds
<1> QED BY <1>1, <1>2, <1>3, <1>4, LogBounds

(* A round or a sweep begins.                                              *)
LEMMA RefreshStartStep ==
  ASSUME X!IndInv, X!RefreshStart
  PROVE  X!IndInv'
<1>0. /\ X!Types /\ X!CursorInv /\ X!RoundInv /\ pc = "idle" /\ pc' = "check" /\ X!Current # X!NoCursor
      /\ job' = [ X!NoJob EXCEPT !.from = X!Larger(X!Current.next, X!Deployment), !.final = X!FinalizedBlock ]
      /\ UNCHANGED << chain, forks, events, cursor, sync, steps, deliveries, memory, casFailures, other,
                      faults, rebuilds, forgone, uncleaned >>
  BY DEF X!RefreshStart, X!IndInv, X!At, X!Goto, X!chainVars, X!storeVars, X!histVars
<1>1. cursor # X!NoCursor /\ X!Current.next = cursor.next /\ cursor.next \in 1..MaxHeight + 1
  <2>1. memory \in { X!NoCursor, cursor }
    BY <1>0 DEF X!RoundInv, X!MemoryInv
  <2>2. X!Current = cursor
    BY <1>0, <2>1 DEF X!Current
  <2> QED BY <1>0, <2>2, JobTypes, LogBounds DEF X!CursorInv, X!Cursors, X!Hashes
<1>2. X!Larger(X!Current.next, X!Deployment) = cursor.next
  BY <1>1, LogBounds DEF X!Larger
<1>3. job' \in X!Job /\ job'.from = cursor.next /\ job'.final = X!FinalizedBlock /\ job'.events = {} /\ ~job'.rebuild
      /\ job'.todo = {}
  <2>1. job' = [ X!NoJob EXCEPT !.from = cursor.next, !.final = X!FinalizedBlock ]
    BY <1>0, <1>2
  <2>2. cursor.next \in 0..MaxHeight + 1 /\ X!FinalizedBlock \in X!Heights
    BY <1>0, <1>1, JobTypes
  <2>3. X!NoJob \in X!Job /\ X!NoJob.events = {} /\ X!NoJob.rebuild = FALSE /\ X!NoJob.todo = {}
    BY <1>0, JobTypes
  <2> QED BY <2>1, <2>2, <2>3 DEF X!Job
<1>4. X!Types'
  BY <1>0, <1>3, TypeFrame DEF X!Labels, X!InRefresh, X!InRebuild, X!Types
<1>5. X!ChainInv' /\ X!CursorInv' /\ X!OwedInv' /\ X!GhostInv'
  BY <1>0, QuietFrame DEF Special, X!Types
<1>6. X!RoundInv'
  <2>1. X!MemoryInv'
    BY <1>0 DEF X!RoundInv, X!MemoryInv
  <2>2. X!RefreshInv'
    BY <1>0, <1>1, <1>3, JobTypes DEF X!RefreshInv, X!OnCursor, X!InRefresh, X!InClean, X!InSweep
  <2>3. X!UpdateInv' /\ X!RebuildInv'
    BY <1>0 DEF X!UpdateInv, X!RebuildInv, X!InRebuild
  <2> QED BY <2>1, <2>2, <2>3 DEF X!RoundInv
<1> QED BY <1>4, <1>5, <1>6 DEF X!IndInv

LEMMA SweepStartStep ==
  ASSUME X!IndInv, X!SweepStart
  PROVE  X!IndInv'
<1>0. /\ X!Types /\ X!RoundInv /\ pc = "idle" /\ pc' = "sweep" /\ job' = X!NoJob
      /\ UNCHANGED << chain, forks, events, cursor, sync, steps, deliveries, memory, casFailures, other,
                      faults, rebuilds, forgone, uncleaned >>
  BY DEF X!SweepStart, X!IndInv, X!At, X!Goto, X!chainVars, X!storeVars, X!histVars
<1>1. /\ job' \in X!Job /\ job'.from = 0 /\ job'.final = 0 /\ job'.events = {} /\ ~job'.rebuild
      /\ 0 <= Len(chain)
  BY <1>0, JobTypes
<1>2. X!Types'
  BY <1>0, <1>1, TypeFrame DEF X!Labels, X!InSweep, X!InRebuild, X!Types
<1>3. X!ChainInv' /\ X!CursorInv' /\ X!OwedInv' /\ X!GhostInv'
  BY <1>0, QuietFrame DEF Special, X!Types
<1>4. X!MemoryInv'
  BY <1>0 DEF X!RoundInv, X!MemoryInv
<1>5. X!RefreshInv'
  BY <1>0, <1>1 DEF X!RefreshInv, X!InRefresh, X!InClean, X!InSweep
<1>6. X!UpdateInv' /\ X!RebuildInv'
  BY <1>0 DEF X!UpdateInv, X!RebuildInv, X!InRebuild
<1> QED BY <1>2, <1>3, <1>4, <1>5, <1>6 DEF X!IndInv, X!RoundInv

(* The check, the search for the ancestor, the list of the sweep, and the  *)
(* reads: only the operation itself moves on.                              *)
LocalStep(from, to) ==
  /\ pc = from /\ pc' = to
  /\ UNCHANGED << chain, forks, events, cursor, sync, steps, deliveries, memory, casFailures, other,
                  faults, rebuilds, forgone, uncleaned >>

LEMMA CheckStep ==
  ASSUME X!IndInv, X!CheckHash
  PROVE  X!IndInv'
<1>0. /\ X!Types /\ X!CursorInv /\ X!RoundInv /\ LocalStep("check", "sweep") /\ job' = job
      /\ X!HashChecked => X!HashMatches
  BY DEF X!CheckHash, X!IndInv, X!At, X!Goto, X!chainVars, X!storeVars, X!histVars, LocalStep
<1>1. X!OnCanonicalCursor
  <2>1. X!OnCursor /\ cursor # X!NoCursor /\ cursor.next = cursor.hash[1] + 1 /\ job.from = cursor.next
    BY <1>0 DEF X!RoundInv, X!RefreshInv, X!InRefresh, LocalStep, X!OnCursor, X!CursorInv
  <2>2. cursor.hash \in X!Hashes /\ cursor.hash[1] \in Nat /\ Len(chain) \in Nat
    BY <1>0, JobTypes, LogBounds DEF X!Cursors, X!Hashes
  <2>3. X!OnChain(cursor.hash)
    <3>1. CASE cursor.hash[1] >= 1
      <4>1. X!HashMatches /\ job.from - 1 = cursor.hash[1] /\ X!HashOf(chain, cursor.hash[1]) = cursor.hash
        BY <1>0, <2>1, <2>2, <3>1, LogBounds DEF X!HashChecked, X!HashMatches
      <4>2. job.from - 1 <= Len(chain)
        BY <2>1, <2>2, <3>1, LogBounds DEF X!CheckHash, X!HashChecked
      <4> QED BY <4>1, <4>2 DEF X!OnChain
    <3>2. CASE cursor.hash[1] = 0
      <4>1. cursor.hash = << 0, 0 >>
        BY <1>0, <2>2, <3>2, LogBounds DEF X!CursorInv, X!Seen
      <4> QED BY <2>2, <4>1 DEF X!OnChain, X!HashOf
    <3> QED BY <2>2, <3>1, <3>2
  <2> QED BY <2>1, <2>3 DEF X!OnCanonicalCursor
<1>2. X!Types'
  BY <1>0, TypeFrame DEF X!Labels, X!InSweep, X!InRebuild, X!Types, LocalStep
<1>3. X!ChainInv' /\ X!CursorInv' /\ X!OwedInv' /\ X!GhostInv'
  BY <1>0, QuietFrame DEF Special, X!Types, LocalStep
<1>4. X!MemoryInv'
  BY <1>0 DEF X!RoundInv, X!MemoryInv, LocalStep
<1>5. X!RefreshInv'
  BY <1>0, <1>1 DEF X!RoundInv, X!RefreshInv, X!InRefresh, X!InClean, X!InSweep, LocalStep,
                    X!OnCanonicalCursor, X!OnCursor, X!OnChain
<1>6. X!UpdateInv' /\ X!RebuildInv'
  BY <1>0 DEF X!UpdateInv, X!RebuildInv, X!InRebuild, LocalStep
<1> QED BY <1>2, <1>3, <1>4, <1>5, <1>6 DEF X!IndInv, X!RoundInv

LEMMA CheckFailsStep ==
  ASSUME X!IndInv, X!CheckHashFails
  PROVE  X!IndInv'
<1>0. /\ X!Types /\ X!RoundInv /\ LocalStep("check", "ancestor") /\ job' = job /\ job.from - 1 >= 1
  BY LogBounds DEF X!HashChecked, X!CheckHashFails, X!IndInv, X!At, X!Goto, X!chainVars, X!storeVars, X!histVars, LocalStep
<1>1. job \in X!Job /\ sync \in X!Heights
  BY <1>0 DEF X!Types
<1>2. X!Types'
  BY <1>0, <1>1, TypeFrame DEF X!Labels, X!InRefresh, X!InRebuild, LocalStep
<1>3. X!ChainInv' /\ X!CursorInv' /\ X!OwedInv' /\ X!GhostInv'
  BY <1>0, QuietFrame DEF Special, X!Types, LocalStep
<1>4. X!MemoryInv'
  BY <1>0 DEF X!RoundInv, X!MemoryInv, LocalStep
<1>5. X!RefreshInv'
  <2>1. job.from >= 2
    BY <1>0, <1>1, LogBounds DEF X!Job
  <2> QED BY <1>0, <2>1 DEF X!RoundInv, X!RefreshInv, X!InRefresh, X!InClean, X!InSweep, LocalStep, X!OnCursor
<1>6. X!UpdateInv' /\ X!RebuildInv'
  BY <1>0 DEF X!UpdateInv, X!RebuildInv, X!InRebuild, LocalStep
<1> QED BY <1>2, <1>3, <1>4, <1>5, <1>6 DEF X!IndInv, X!RoundInv

(* The ancestor is the block of a stored event that is on chain.           *)
LEMMA NewestExists ==
  ASSUME NEW es, es \subseteq X!Events, es # {}
  PROVE  X!NewestOf(es) \in es /\ \A d \in es : d.h <= X!NewestOf(es).h
<1> DEFINE Below == { MaxHeight - e.h : e \in es }
<1>1. \A e \in es : e.h \in 1..MaxHeight
  BY DEF X!Events
<1>2. Below \subseteq Nat /\ Below # {}
  BY <1>1, LogBounds
<1>3. PICK x \in Below : \A y \in Below : x <= y
  <2> HIDE DEF Below
  <2> QED BY <1>2, LeastOf
<1>4. PICK e \in es : x = MaxHeight - e.h
  BY <1>3
<1>5. \A d \in es : d.h <= e.h
  <2> SUFFICES ASSUME NEW d \in es PROVE d.h <= e.h
    OBVIOUS
  <2>1. MaxHeight - d.h \in Below
    OBVIOUS
  <2>2. x <= MaxHeight - d.h
    BY <1>3, <2>1
  <2> HIDE DEF Below
  <2>3. d.h \in 1..MaxHeight /\ e.h \in 1..MaxHeight
    BY <1>1
  <2> QED BY <1>4, <2>2, <2>3, LogBounds
<1> QED BY <1>4, <1>5 DEF X!NewestOf

LEMMA AncestorStep ==
  ASSUME X!IndInv, X!FindAncestor
  PROVE  X!IndInv'
<1> DEFINE e == X!NewestOf(X!CommonAncestors)
<1>0. /\ X!Types /\ X!CursorInv /\ X!RoundInv /\ LocalStep("ancestor", "rollback")
      /\ job' = [ job EXCEPT !.hash = << e.h, e.fork >> ] /\ X!CommonAncestors # {}
  BY DEF X!FindAncestor, X!IndInv, X!At, X!Goto, X!chainVars, X!storeVars, X!histVars, LocalStep
<1>1. X!CommonAncestors \subseteq X!Events
  BY <1>0 DEF X!CommonAncestors, X!Anchors, X!Types
<1>2. e \in X!CommonAncestors
  BY <1>0, <1>1, NewestExists
<1> HIDE DEF e
<1>3. /\ e \in X!BehindCursor /\ X!OnChain(<< e.h, e.fork >>) /\ e.h >= 1 /\ << e.h, e.fork >> \in X!Hashes
  <2>1. X!OnCursor
    BY <1>0 DEF X!RoundInv, X!RefreshInv, X!InRefresh, LocalStep
  <2>2. e \in X!Events
    BY <1>1, <1>2
  <2>3. << e.h, e.fork >> \in X!Hashes
    BY <2>2, LogBounds DEF X!Events
  <2> QED BY <1>2, <2>1, <2>3, LogBounds DEF X!CommonAncestors, X!Anchors, X!BehindCursor, X!OnCursor
<1>4. job \in X!Job /\ sync \in X!Heights
  BY <1>0 DEF X!Types
<1>5. /\ job' \in X!Job /\ job'.hash = << e.h, e.fork >>
      /\ job'.from = job.from /\ job'.final = job.final /\ job'.events = job.events /\ job'.rebuild = job.rebuild
  BY <1>0, <1>3, <1>4 DEF X!Job
<1>6. X!Types'
  BY <1>0, <1>4, <1>5, TypeFrame DEF X!Labels, X!InRefresh, X!InRebuild, LocalStep
<1>7. X!ChainInv' /\ X!CursorInv' /\ X!OwedInv' /\ X!GhostInv'
  BY <1>0, QuietFrame DEF Special, X!Types, LocalStep
<1>8. X!MemoryInv'
  BY <1>0 DEF X!RoundInv, X!MemoryInv, LocalStep
<1>9. X!RefreshInv'
  <2>1. X!BehindCursor' = X!BehindCursor
    BY <1>0 DEF X!BehindCursor, LocalStep
  <2>2. X!OnChain(job.hash)'
    BY <1>0, <1>3, <1>5 DEF X!OnChain, LocalStep
  <2> QED BY <1>0, <1>3, <1>5, <2>1, <2>2, LogBounds
        DEF X!RoundInv, X!RefreshInv, X!InRefresh, X!InClean, X!InSweep, LocalStep, X!OnCursor
<1>10. X!UpdateInv' /\ X!RebuildInv'
  BY <1>0 DEF X!UpdateInv, X!RebuildInv, X!InRebuild, LocalStep
<1> QED BY <1>6, <1>7, <1>8, <1>9, <1>10 DEF X!IndInv, X!RoundInv

(* The deployment block holds an event, so there is an ancestor.           *)
LEMMA EventStored ==
  ASSUME X!IndInv, X!NoEventStored
  PROVE  FALSE
BY DEF X!NoEventStored, X!IndInv, X!BehindCursor, X!RoundInv, X!At, X!RefreshInv, X!InRefresh, X!OnCursor, X!CursorInv

LEMMA ListStep ==
  ASSUME X!IndInv, X!SweepList
  PROVE  X!IndInv'
<1>0. /\ X!Types /\ X!RoundInv /\ LocalStep("sweep", "sweeping") /\ job' = [ job EXCEPT !.todo = steps ]
  BY DEF X!SweepList, X!IndInv, X!At, X!Goto, X!chainVars, X!storeVars, X!histVars, LocalStep
<1>1. job \in X!Job /\ sync \in X!Heights /\ steps \subseteq X!Step
  BY <1>0 DEF X!Types
<1>2. /\ job' \in X!Job /\ job'.todo = steps
      /\ job'.from = job.from /\ job'.final = job.final /\ job'.events = job.events /\ job'.rebuild = job.rebuild
  BY <1>0, <1>1 DEF X!Job
<1>3. X!Types'
  BY <1>0, <1>1, <1>2, TypeFrame DEF X!Labels, X!InSweep, X!InRebuild, LocalStep
<1>4. X!ChainInv' /\ X!CursorInv' /\ X!OwedInv' /\ X!GhostInv'
  BY <1>0, <1>2, QuietFrame DEF Special, X!Types, LocalStep
<1>5. X!MemoryInv'
  BY <1>0 DEF X!RoundInv, X!MemoryInv, LocalStep
<1>6. X!RefreshInv'
  BY <1>0, <1>2 DEF X!RoundInv, X!RefreshInv, X!InRefresh, X!InClean, X!InSweep, LocalStep,
                    X!OnCanonicalCursor, X!OnCursor, X!OnChain
<1>7. X!UpdateInv' /\ X!RebuildInv'
  BY <1>0 DEF X!UpdateInv, X!RebuildInv, X!InRebuild, LocalStep
<1> QED BY <1>3, <1>4, <1>5, <1>6, <1>7 DEF X!IndInv, X!RoundInv

(* One step of the sweep is dealt with; the log is left alone.             *)
LEMMA SweepOn ==
  ASSUME X!RoundInv, NEW s, pc = "sweeping", pc' = "sweeping", job \in X!Job, job' = [ job EXCEPT !.todo = @ \ {s} ],
         UNCHANGED << chain, forks, events, cursor, memory >>
  PROVE  job' \in X!Job /\ job'.todo = job.todo \ {s} /\ X!RoundInv'
<1>1. /\ job' \in X!Job /\ job'.todo = job.todo \ {s}
      /\ job'.from = job.from /\ job'.final = job.final /\ job'.events = job.events /\ job'.rebuild = job.rebuild
  BY DEF X!Job
<1>2. X!MemoryInv'
  BY DEF X!RoundInv, X!MemoryInv
<1>3. X!RefreshInv'
  BY <1>1 DEF X!RoundInv, X!RefreshInv, X!InRefresh, X!InClean, X!InSweep,
              X!OnCanonicalCursor, X!OnCursor, X!OnChain
<1>4. X!UpdateInv' /\ X!RebuildInv'
  BY DEF X!UpdateInv, X!RebuildInv, X!InRebuild
<1> QED BY <1>1, <1>2, <1>3, <1>4 DEF X!RoundInv

LEMMA WaitStep ==
  ASSUME X!IndInv, NEW s \in job.todo, X!SweepWaits(s)
  PROVE  X!IndInv'
<1>0. /\ X!Types /\ X!RoundInv /\ LocalStep("sweeping", "sweeping") /\ job' = [ job EXCEPT !.todo = @ \ {s} ]
  BY DEF X!SweepWaits, X!IndInv, X!At, X!Goto, X!Next1, X!chainVars, X!storeVars, X!histVars, LocalStep
<1>1. job \in X!Job /\ sync \in X!Heights
  BY <1>0 DEF X!Types
<1>2. job' \in X!Job /\ job'.todo = job.todo \ {s} /\ X!RoundInv'
  BY <1>0, <1>1, SweepOn DEF LocalStep
<1>3. X!Types'
  BY <1>0, <1>1, <1>2, TypeFrame DEF X!Labels, X!InSweep, X!InRebuild, LocalStep
<1>4. X!ChainInv' /\ X!CursorInv' /\ X!OwedInv' /\ X!GhostInv'
  BY <1>0, <1>2, QuietFrame DEF Special, X!Types, LocalStep
<1> QED BY <1>2, <1>3, <1>4 DEF X!IndInv

LEMMA SweepDoneStep ==
  ASSUME X!IndInv, X!SweepDone
  PROVE  X!IndInv'
<1>0. /\ X!Types /\ X!RoundInv /\ pc = "sweeping" /\ job.todo = {}
      /\ UNCHANGED << chain, forks, events, cursor, sync, steps, deliveries, memory, casFailures, other,
                      faults, rebuilds, forgone, uncleaned >>
  BY DEF X!SweepDone, X!IndInv, X!At, X!Goto, X!chainVars, X!storeVars, X!histVars
<1>1. job \in X!Job /\ sync \in X!Heights /\ cursor \in X!Cursors /\ memory \in X!Cursors
  BY <1>0 DEF X!Types
<1>2. X!MemoryInv'
  BY <1>0 DEF X!RoundInv, X!MemoryInv
<1>3. CASE job.from = 0
  <2>1. pc' = "idle" /\ job' = X!NoJob
    BY <1>3 DEF X!SweepDone, X!Return, X!Goto
  <2>2. X!Types'
    BY <1>0, <1>1, <2>1, JobTypes, TypeFrame DEF X!Labels, X!InRebuild
  <2>3. X!ChainInv' /\ X!CursorInv' /\ X!OwedInv' /\ X!GhostInv'
    BY <1>0, <2>1, QuietFrame DEF Special, X!Types
  <2>4. X!RefreshInv' /\ X!UpdateInv' /\ X!RebuildInv'
    BY <2>1 DEF X!RefreshInv, X!UpdateInv, X!RebuildInv, X!InRefresh, X!InClean, X!InSweep, X!InRebuild
  <2> QED BY <1>2, <2>2, <2>3, <2>4 DEF X!IndInv, X!RoundInv
<1>4. CASE job.from # 0
  <2> DEFINE final == X!Larger(X!Larger(cursor.final, memory.final), job.final)
  <2>1. pc' = "read" /\ job' = [ job EXCEPT !.reported = final ]
    BY <1>4 DEF X!SweepDone, X!Goto
  <2>2. final \in X!Heights
    BY <1>1 DEF X!Larger, X!Cursors, X!Job
  <2>3. /\ job' \in X!Job
        /\ job'.from = job.from /\ job'.final = job.final /\ job'.events = job.events /\ job'.rebuild = job.rebuild
    BY <1>1, <2>1, <2>2 DEF X!Job
  <2>4. X!Types'
    BY <1>0, <1>1, <2>1, <2>3, TypeFrame DEF X!Labels, X!InUpdate, X!InRebuild
  <2>5. X!ChainInv' /\ X!CursorInv' /\ X!OwedInv' /\ X!GhostInv'
    BY <1>0, <2>1, QuietFrame DEF Special, X!Types
  <2>6. X!OnCanonicalCursor /\ ~job.rebuild /\ job.final <= Len(chain) /\ job.events = {}
    BY <1>0, <1>4 DEF X!RoundInv, X!RefreshInv, X!InSweep
  <2>7. X!OnCanonicalCursor'
    BY <1>0, <2>3, <2>6 DEF X!OnCanonicalCursor, X!OnCursor, X!OnChain
  <2>8. X!RefreshInv'
    BY <1>0, <2>1, <2>3, <2>6 DEF X!RefreshInv, X!InRefresh, X!InClean, X!InSweep
  <2>9. X!UpdateInv'
    BY <2>1, <2>7 DEF X!UpdateInv
  <2>10. X!RebuildInv'
    BY <2>1 DEF X!RebuildInv, X!InRebuild
  <2> QED BY <1>2, <2>4, <2>5, <2>8, <2>9, <2>10 DEF X!IndInv, X!RoundInv
<1> QED BY <1>3, <1>4

(* A step out of the sweep or the update that touches no store: what is in *)
(* hand stays in hand, or the operation ends with a debt that is recorded. *)
LEMMA MoveFrame ==
  ASSUME X!IndInv, UNCHANGED << chain, forks, events, cursor, steps, deliveries, forgone >>,
         uncleaned => uncleaned', uncleaned \in BOOLEAN, uncleaned' \in BOOLEAN,
         pc \notin { "invalidate", "trim", "rb_commit" }, X!Notifying = {}, pc' # "sweeping",
         ~uncleaned' => X!InHand \subseteq X!InHand',
         pc' \in { "hash", "save" } => \A e \in job'.events : X!Owed(X!Key(e))
  PROVE  X!ChainInv' /\ X!CursorInv' /\ X!OwedInv' /\ X!GhostInv'
<1>0. X!ChainInv /\ X!CursorInv /\ UNCHANGED << chain, forks, events, cursor >>
  BY DEF X!IndInv
<1>1. X!ChainInv' /\ X!CursorInv' /\ X!BehindCursor' = X!BehindCursor
  BY <1>0, StoreSame
<1>2. X!OwedInv'
  <2>1. X!NotificationsOwed /\ X!Pending' = X!Pending
    BY DEF X!IndInv, X!OwedInv, X!Pending
  <2>2. X!NotificationsOwed'
    BY <1>1, <2>1 DEF X!NotificationsOwed, X!Key
  <2>3. pc' \in { "hash", "save" } => \A e \in job'.events : X!Owed(X!Key(e))'
    BY <2>1 DEF X!Owed, X!Key
  <2> QED BY <2>2, <2>3 DEF X!OwedInv
<1>3. X!GhostInv'
  <2> SUFFICES ASSUME ~uncleaned' PROVE X!GhostInv'
    BY DEF X!GhostInv
  <2>1. /\ X!InHand \subseteq X!InHand' /\ X!Live' = X!Live
        /\ X!ToClear({ "invalidate" }) = {} /\ X!ToClear(X!InClean) = {}
    BY DEF X!Live, X!ToClear, X!InClean
  <2>2. /\ X!Live \subseteq X!Keys(X!BehindCursor) \cup X!InHand
        /\ \A s \in steps : X!Keys(s.events) \subseteq X!Keys(X!BehindCursor) \cup X!InHand
    BY <2>1 DEF X!IndInv, X!GhostInv
  <2>3. X!Keys(X!BehindCursor)' = X!Keys(X!BehindCursor) /\ \A s : X!Keys(s.events)' = X!Keys(s.events)
    BY <1>1 DEF X!Keys
  <2>4. X!Live' \subseteq X!Keys(X!BehindCursor)' \cup X!InHand' \cup X!ToClear({ "invalidate" })'
    BY <2>1, <2>2, <2>3
  <2>5. \A s \in steps' : X!Keys(s.events) \subseteq X!Keys(X!BehindCursor)' \cup X!InHand' \cup X!ToClear(X!InClean)'
    BY <2>1, <2>2, <2>3
  <2> QED BY <2>3, <2>4, <2>5 DEF X!GhostInv
<1> QED BY <1>1, <1>2, <1>3

(* The reads of an update.                                                 *)
LEMMA IdleStep ==
  ASSUME X!IndInv, X!RefreshIdle
  PROVE  X!IndInv'
<1>0. /\ X!Types /\ X!RoundInv /\ X!CursorInv /\ LocalStep("read", "save") /\ job.from - 1 <= Len(chain)
      /\ job' = [ job EXCEPT !.next = job.from, !.hash = X!HashOf(chain, job.from - 1) ]
  BY DEF X!RefreshIdle, X!IndInv, X!At, X!Goto, X!chainVars, X!storeVars, X!histVars, LocalStep
<1>1. job \in X!Job /\ sync \in X!Heights /\ uncleaned \in BOOLEAN
  BY <1>0 DEF X!Types
<1>2. X!OnCanonicalCursor /\ ~job.rebuild /\ job.events = {}
  BY <1>0 DEF X!RoundInv, X!RefreshInv, X!UpdateInv, LocalStep
<1>3. /\ job.from = cursor.next /\ cursor.next = cursor.hash[1] + 1 /\ cursor.hash[1] \in Nat
      /\ X!OnChain(cursor.hash) /\ X!HashOf(chain, job.from - 1) = cursor.hash /\ cursor.hash \in X!Hashes
  <2>1. cursor.next = cursor.hash[1] + 1 /\ job.from = cursor.next /\ X!OnChain(cursor.hash)
    BY <1>0, <1>2 DEF X!CursorInv, X!OnCanonicalCursor, X!OnCursor
  <2>2. cursor.hash \in X!Hashes /\ cursor.hash[1] \in Nat
    BY <1>0, JobTypes, LogBounds DEF X!Cursors, X!Hashes
  <2>3. job.from - 1 = cursor.hash[1]
    BY <2>1, <2>2
  <2> QED BY <2>1, <2>2, <2>3 DEF X!OnChain
<1>4. /\ job' \in X!Job /\ job'.next = job.from /\ job'.hash = cursor.hash
      /\ job'.from = job.from /\ job'.final = job.final /\ job'.events = {} /\ job'.rebuild = job.rebuild
  BY <1>0, <1>1, <1>2, <1>3 DEF X!Job
<1>5. X!Types'
  BY <1>0, <1>1, <1>4, TypeFrame DEF X!Labels, X!InUpdate, X!InRebuild, LocalStep
<1>6. X!ChainInv' /\ X!CursorInv' /\ X!OwedInv' /\ X!GhostInv'
  <2>1. X!Notifying = {} /\ X!InHand = {}
    BY <1>0 DEF X!Notifying, X!InHand, X!At, LocalStep
  <2> QED BY <1>0, <1>1, <1>4, <2>1, MoveFrame DEF LocalStep
<1>7. X!MemoryInv'
  BY <1>0 DEF X!RoundInv, X!MemoryInv, LocalStep
<1>8. X!RefreshInv'
  BY <1>0 DEF X!RefreshInv, X!InRefresh, X!InClean, X!InSweep, LocalStep
<1>9. X!OnCanonicalCursor'
  BY <1>0, <1>2, <1>4 DEF X!OnCanonicalCursor, X!OnCursor, X!OnChain, LocalStep
<1>10. { e \in events : e.h <= job.from - 1 } = X!Logs(chain, X!Deployment, job.from - 1)
  BY <1>0, <1>3, LogBounds DEF X!CursorInv, X!Agrees, X!UpTo
<1>11. { e \in events : e.h \in job.from..job.from - 1 } = {}
  BY <1>1, LogBounds DEF X!Job
<1>12. X!UpdateInv'
  <2>1. /\ job'.from = job'.next /\ job'.next - 1 <= Len(chain') /\ job'.hash = X!HashOf(chain', job'.next - 1)
        /\ job'.next \in Nat
    BY <1>0, <1>3, <1>4, JobNumbers DEF LocalStep
  <2>2. { e \in events' : e.h <= job'.next - 1 } = X!Logs(chain', X!Deployment, job'.next - 1)
    BY <1>0, <1>4, <1>10 DEF LocalStep
  <2>3. job'.events = { e \in events' : e.h \in job'.from..job'.next - 1 }
    BY <1>0, <1>4, <1>11 DEF LocalStep
  <2> QED BY <1>0, <1>2, <1>4, <1>9, <2>1, <2>2, <2>3 DEF X!UpdateInv, X!UpTo, LocalStep
<1>13. X!RebuildInv'
  BY <1>0 DEF X!RebuildInv, X!InRebuild, LocalStep
<1> QED BY <1>5, <1>6, <1>7, <1>8, <1>12, <1>13 DEF X!IndInv, X!RoundInv

LEMMA ReadStep ==
  ASSUME X!IndInv, X!ReadEvents
  PROVE  X!IndInv'
<1>0. /\ X!Types /\ X!RoundInv /\ LocalStep("read", "commit") /\ job.final >= job.from
      /\ job' = [ job EXCEPT !.events = X!Logs(chain, job.from, job.final) ]
  BY DEF X!ReadEvents, X!IndInv, X!At, X!Goto, X!chainVars, X!storeVars, X!histVars, LocalStep
<1>1. job \in X!Job /\ sync \in X!Heights /\ chain \in Chains /\ job.from \in Nat /\ job.final \in Int
  <2>1. job \in X!Job /\ sync \in X!Heights /\ chain \in Chains
    BY <1>0, JobTypes DEF X!Types
  <2> QED BY <1>0, <2>1, JobNumbers
<1>2. X!OnCanonicalCursor /\ ~job.rebuild /\ job.final <= Len(chain)
  BY <1>0 DEF X!RoundInv, X!RefreshInv, X!UpdateInv, LocalStep
<1>3. X!Logs(chain, job.from, job.final) \subseteq X!Events
  BY <1>1, LogsOf
<1>4. /\ job' \in X!Job /\ job'.events = X!Logs(chain, job.from, job.final)
      /\ job'.from = job.from /\ job'.final = job.final /\ job'.rebuild = job.rebuild
  BY <1>0, <1>1, <1>3 DEF X!Job
<1>5. X!Types'
  BY <1>0, <1>1, <1>4, TypeFrame DEF X!Labels, X!InUpdate, X!InRebuild, LocalStep
<1>6. X!ChainInv' /\ X!CursorInv' /\ X!OwedInv' /\ X!GhostInv'
  BY <1>0, QuietFrame DEF Special, X!Types, LocalStep
<1>7. X!MemoryInv' /\ X!RefreshInv' /\ X!RebuildInv'
  BY <1>0 DEF X!RoundInv, X!MemoryInv, X!RefreshInv, X!InRefresh, X!InClean, X!InSweep,
              X!RebuildInv, X!InRebuild, LocalStep
<1>8. X!OnCanonicalCursor'
  BY <1>0, <1>2, <1>4 DEF X!OnCanonicalCursor, X!OnCursor, X!OnChain, LocalStep
<1>9. X!UpdateInv'
  BY <1>0, <1>1, <1>2, <1>4, <1>8 DEF X!UpdateInv, LocalStep
<1> QED BY <1>5, <1>6, <1>7, <1>9 DEF X!IndInv, X!RoundInv

LEMMA ReadHashStep ==
  ASSUME X!IndInv, X!ReadHash
  PROVE  X!IndInv'
<1>0. /\ X!Types /\ X!RoundInv /\ LocalStep("hash", "save") /\ job.final <= Len(chain)
      /\ job' = [ job EXCEPT !.next = job.final + 1, !.hash = X!HashOf(chain, job.final) ]
      /\ X!OwedInv
  BY DEF X!ReadHash, X!IndInv, X!At, X!Goto, X!chainVars, X!storeVars, X!histVars, LocalStep
<1>1. job \in X!Job /\ sync \in X!Heights /\ chain \in Chains /\ job.from \in Nat /\ job.final \in Nat
      /\ uncleaned \in BOOLEAN /\ job.final \in 0..MaxHeight /\ Len(chain) \in Nat
  <2>1. job \in X!Job /\ sync \in X!Heights /\ chain \in Chains /\ uncleaned \in BOOLEAN
    BY <1>0, JobTypes DEF X!Types
  <2> QED BY <1>0, <2>1, JobNumbers
<1>2. X!UpdateInv /\ ~job.rebuild
  BY <1>0 DEF X!RoundInv, X!UpdateInv, LocalStep
<1>3. X!HashOf(chain, job.final) \in X!Hashes
  BY <1>0, <1>1, LogHash
<1>4. /\ job' \in X!Job /\ job'.events = job.events /\ job'.next = job.final + 1
      /\ job'.hash = X!HashOf(chain, job.final)
      /\ job'.from = job.from /\ job'.final = job.final /\ job'.rebuild = job.rebuild
  <2>1. job.final + 1 \in 0..MaxHeight + 1
    BY <1>1, LogBounds
  <2> QED BY <1>0, <1>1, <1>3, <2>1 DEF X!Job
<1>5. X!Types'
  BY <1>0, <1>1, <1>4, TypeFrame DEF X!Labels, X!InUpdate, X!InRebuild, LocalStep
<1>6. X!ChainInv' /\ X!CursorInv' /\ X!OwedInv' /\ X!GhostInv'
  <2>1. X!Notifying = {} /\ X!InHand \subseteq X!InHand' /\ \A e \in job'.events : X!Owed(X!Key(e))
    BY <1>0, <1>4 DEF X!Notifying, X!InHand, X!At, X!OwedInv, X!Keys, LocalStep
  <2> QED BY <1>0, <1>1, <2>1, MoveFrame DEF LocalStep
<1>7. X!MemoryInv' /\ X!RefreshInv' /\ X!RebuildInv'
  BY <1>0 DEF X!RoundInv, X!MemoryInv, X!RefreshInv, X!InRefresh, X!InClean, X!InSweep,
              X!RebuildInv, X!InRebuild, LocalStep
<1>8. X!OnCanonicalCursor'
  BY <1>0, <1>2, <1>4 DEF X!OnCanonicalCursor, X!OnCursor, X!OnChain, X!UpdateInv, LocalStep
<1>9. /\ job.from <= job.final /\ job.events = X!Logs(chain, job.from, job.final)
      /\ X!UpTo(job.final) = X!Logs(chain, 1, job.final)
  BY <1>0, <1>2, LogBounds DEF X!UpdateInv, LocalStep
<1>10. job.events = { e \in events : e.h \in job.from..job.final }
  <2>1. job.from >= 1
    <3>1. job.from = cursor.next /\ cursor.next = cursor.hash[1] + 1
      BY <1>0, <1>2 DEF X!UpdateInv, X!OnCanonicalCursor, X!OnCursor, X!IndInv, X!CursorInv, LocalStep
    <3> QED BY <1>0, <3>1, JobNumbers
  <2>2. X!Logs(chain, 1, job.final) = X!Logs(chain, 1, job.from - 1) \cup X!Logs(chain, job.from, job.final)
    BY <1>1, <1>9, <2>1, LogsJoin
  <2>3. (\A e \in X!Logs(chain, 1, job.from - 1) : e.h \in 1..job.from - 1)
        /\ (\A e \in X!Logs(chain, job.from, job.final) : e.h \in job.from..job.final)
    BY <1>1, LogsOf
  <2>4. \A e \in events : e.h \in Nat
    BY <1>0, LogBounds DEF X!Types, X!Events
  <2> QED BY <1>1, <1>9, <2>1, <2>2, <2>3, <2>4 DEF X!UpTo
<1>11. X!UpdateInv'
  BY <1>0, <1>1, <1>2, <1>4, <1>8, <1>9, <1>10, LogBounds DEF X!UpdateInv, X!UpTo, LocalStep
<1> QED BY <1>5, <1>6, <1>7, <1>11 DEF X!IndInv, X!RoundInv

(* A step ends without a word: the operation is over.                      *)
LEMMA NothingInHand ==
  ASSUME pc' = "idle", X!MemoryInv'
  PROVE  X!RoundInv'
BY DEF X!RoundInv, X!RefreshInv, X!UpdateInv, X!RebuildInv, X!InRefresh, X!InClean, X!InSweep, X!InRebuild

LEMMA RoundFailsStep ==
  ASSUME X!IndInv, X!RoundFails
  PROVE  X!IndInv'
<1>0. /\ X!Types /\ X!RoundInv /\ pc \in { "check", "ancestor", "read", "hash", "rb_hash" }
      /\ pc' = "idle" /\ job' = X!NoJob /\ uncleaned' = (uncleaned \/ pc = "hash")
      /\ UNCHANGED << chain, forks, events, cursor, sync, steps, deliveries, memory, casFailures, other,
                      faults, rebuilds, forgone >>
  BY DEF X!RoundFails, X!Return, X!IndInv, X!At, X!Goto, X!chainVars, X!storeVars
<1>1. uncleaned \in BOOLEAN /\ uncleaned' \in BOOLEAN /\ (uncleaned => uncleaned') /\ (pc = "hash" => uncleaned')
  BY <1>0 DEF X!Types
<1>2. X!Types'
  BY <1>0, <1>1, JobTypes DEF X!Types, X!Labels, X!InRebuild
<1>3. X!ChainInv' /\ X!CursorInv' /\ X!OwedInv' /\ X!GhostInv'
  <2>1. X!Notifying = {} /\ (~uncleaned' => X!InHand = {})
    <3>1. ~uncleaned' => pc \in { "check", "ancestor", "read", "rb_hash" }
      BY <1>0, <1>1
    <3> QED BY <1>0, <3>1 DEF X!Notifying, X!InHand, X!At
  <2> QED BY <1>0, <1>1, <2>1, MoveFrame
<1>4. X!MemoryInv'
  BY <1>0 DEF X!RoundInv, X!MemoryInv
<1> QED BY <1>0, <1>2, <1>3, <1>4, NothingInHand DEF X!IndInv

LEMMA SummarizeStep ==
  ASSUME X!IndInv, X!Summarize
  PROVE  X!IndInv'
<1>0. /\ X!Types /\ X!RoundInv /\ pc = "summary" /\ pc' = "automation" /\ job' = job /\ sync' = job.reported
      /\ UNCHANGED << chain, forks, events, cursor, steps, deliveries, memory, casFailures, other,
                      faults, rebuilds, forgone, uncleaned >>
  BY DEF X!Summarize, X!IndInv, X!At, X!Goto, X!chainVars, X!histVars, X!saveSyncState
<1>1. sync' \in X!Heights /\ job \in X!Job /\ ~job.rebuild
  BY <1>0, JobNumbers, LogBounds DEF X!RoundInv, X!UpdateInv, X!Types
<1>2. X!Types'
  BY <1>0, <1>1, TypeFrame DEF X!Labels, X!InUpdate, X!InRebuild
<1>3. X!ChainInv' /\ X!CursorInv' /\ X!OwedInv' /\ X!GhostInv'
  BY <1>0, QuietFrame DEF Special, X!Types
<1>4. X!MemoryInv' /\ X!RefreshInv' /\ X!UpdateInv' /\ X!RebuildInv'
  BY <1>0, <1>1 DEF X!RoundInv, X!MemoryInv, X!RefreshInv, X!UpdateInv, X!RebuildInv,
                    X!InRefresh, X!InClean, X!InSweep, X!InRebuild
<1> QED BY <1>2, <1>3, <1>4 DEF X!IndInv, X!RoundInv

(* The operation ends; a rebuild makes its cursor the one in memory.       *)
LEMMA MemoryAfterwards ==
  ASSUME X!IndInv, pc = "automation"
  PROVE  X!MemoryAfter \in { X!NoCursor, cursor } /\ X!MemoryAfter \in X!Cursors
<1>1. X!Types /\ X!MemoryInv /\ X!RebuildInv /\ cursor \in X!Cursors /\ memory \in X!Cursors
  BY DEF X!IndInv, X!RoundInv, X!Types
<1> QED BY <1>1 DEF X!MemoryInv, X!RebuildInv, X!MemoryAfter

LEMMA AutomationStep ==
  ASSUME X!IndInv, X!Automation
  PROVE  X!IndInv'
<1>0. /\ X!Types /\ X!RoundInv /\ pc = "automation" /\ pc' = "idle" /\ job' = X!NoJob /\ memory' = X!MemoryAfter
      /\ UNCHANGED << chain, forks, events, cursor, sync, steps, deliveries, casFailures, other,
                      faults, rebuilds, forgone, uncleaned >>
  BY DEF X!Automation, X!Return, X!IndInv, X!At, X!Goto, X!chainVars, X!storeVars, X!histVars
<1>1. memory' \in { X!NoCursor, cursor } /\ memory' \in X!Cursors
  BY <1>0, MemoryAfterwards
<1>2. X!Types'
  BY <1>0, <1>1, JobTypes DEF X!Types, X!Labels, X!InRebuild
<1>3. X!ChainInv' /\ X!CursorInv' /\ X!OwedInv' /\ X!GhostInv'
  BY <1>0, QuietFrame DEF Special, X!Types
<1>4. X!MemoryInv'
  BY <1>0, <1>1 DEF X!MemoryInv
<1> QED BY <1>0, <1>2, <1>3, <1>4, NothingInHand DEF X!IndInv

(* A rebuild reads the chain.                                              *)
LEMMA RebuildStartStep ==
  ASSUME X!IndInv, X!RebuildStart
  PROVE  X!IndInv'
<1>0. /\ X!Types /\ X!RoundInv /\ X!CursorInv /\ pc = "idle" /\ pc' = "rb_read" /\ X!MayRebuild
      /\ UNCHANGED << chain, forks, events, cursor, steps, deliveries, memory, casFailures, other,
                      faults, rebuilds, forgone, uncleaned >>
  BY DEF X!RebuildStart, X!IndInv, X!At, X!Goto, X!chainVars, X!histVars
<1>1. PICK final \in { t \in X!Targets : t >= X!Deployment } :
        sync' = final /\ job' = [ X!NoJob EXCEPT !.final = final, !.next = final + 1, !.rebuild = TRUE ]
  BY DEF X!RebuildStart, X!Goto, X!saveSyncState
<1>2. final \in 1..Len(chain) /\ Len(chain) \in 0..MaxHeight /\ final \in X!Heights /\ final + 1 \in 0..MaxHeight + 1
  <2>1. X!FinalizedBlock \in 0..Len(chain) /\ Len(chain) \in 0..MaxHeight
    BY <1>0, JobTypes
  <2>2. final \in 0..X!FinalizedBlock /\ final >= 1
    BY <2>1, LogBounds DEF X!Targets
  <2> QED BY <2>1, <2>2, LogBounds
<1>3. /\ job' \in X!Job /\ job'.final = final /\ job'.next = final + 1 /\ job'.rebuild = TRUE /\ job'.todo = {}
  <2>1. X!NoJob \in X!Job /\ X!NoJob.todo = {}
    BY <1>0, JobTypes
  <2> QED BY <1>1, <1>2, <2>1 DEF X!Job
<1>4. rebuilds <= MaxRebuilds
  <2>1. CASE cursor = X!NoCursor
    BY <1>0, <2>1, LogBounds DEF X!Types
  <2>2. CASE X!Begun < MaxRebuilds
    <3>1. X!Begun = rebuilds /\ rebuilds \in Nat
      BY <1>0, LogBounds DEF X!Begun, X!Types
    <3> QED BY <2>2, <3>1, LogBounds
  <2> QED BY <1>0, <2>1, <2>2 DEF X!MayRebuild
<1>5. X!Types'
  BY <1>0, <1>1, <1>2, <1>3, <1>4, TypeFrame DEF X!Labels, X!InRebuild
<1>6. X!ChainInv' /\ X!CursorInv' /\ X!OwedInv' /\ X!GhostInv'
  BY <1>0, QuietFrame DEF Special, X!Types
<1>7. X!MemoryInv' /\ X!RefreshInv' /\ X!UpdateInv'
  BY <1>0 DEF X!RoundInv, X!MemoryInv, X!RefreshInv, X!UpdateInv, X!InRefresh, X!InClean, X!InSweep
<1>8. X!RebuildInv'
  BY <1>0, <1>2, <1>3, LogBounds DEF X!RebuildInv, X!InRebuild
<1> QED BY <1>5, <1>6, <1>7, <1>8 DEF X!IndInv, X!RoundInv

LEMMA RebuildReadStep ==
  ASSUME X!IndInv, X!RebuildRead
  PROVE  X!IndInv'
<1>0. /\ X!Types /\ X!RoundInv /\ LocalStep("rb_read", "rb_hash")
      /\ job' = [ job EXCEPT !.events = X!Logs(chain, X!Deployment, job.final) ]
  BY DEF X!RebuildRead, X!IndInv, X!At, X!Goto, X!chainVars, X!storeVars, X!histVars, LocalStep
<1>1. job \in X!Job /\ sync \in X!Heights /\ chain \in Chains /\ rebuilds <= MaxRebuilds
  BY <1>0, JobTypes DEF X!Types, X!InRebuild, LocalStep
<1>2. X!Logs(chain, X!Deployment, job.final) \subseteq X!Events
  <2>1. X!Deployment = 1 /\ 1 \in Nat /\ job.final \in Int
    BY <1>0, LogBounds, JobNumbers
  <2> QED BY <1>1, <2>1, LogsOf
<1>3. /\ job' \in X!Job /\ job'.events = X!Logs(chain, X!Deployment, job.final) /\ job'.next = job.next
      /\ job'.from = job.from /\ job'.final = job.final /\ job'.rebuild = job.rebuild /\ job'.todo = job.todo
  BY <1>0, <1>1, <1>2 DEF X!Job
<1>4. X!Types'
  BY <1>0, <1>1, <1>3, TypeFrame DEF X!Labels, X!InRebuild, LocalStep
<1>5. X!ChainInv' /\ X!CursorInv' /\ X!OwedInv' /\ X!GhostInv'
  BY <1>0, QuietFrame DEF Special, X!Types, LocalStep
<1>6. X!MemoryInv' /\ X!RefreshInv' /\ X!UpdateInv'
  BY <1>0 DEF X!RoundInv, X!MemoryInv, X!RefreshInv, X!UpdateInv, X!InRefresh, X!InClean, X!InSweep, LocalStep
<1>7. X!RebuildInv'
  BY <1>0, <1>3 DEF X!RoundInv, X!RebuildInv, X!InRebuild, LocalStep
<1> QED BY <1>4, <1>5, <1>6, <1>7 DEF X!IndInv, X!RoundInv

LEMMA StageFailsStep ==
  ASSUME X!IndInv, X!RebuildStageFails
  PROVE  X!IndInv'
<1>0. /\ X!Types /\ X!RoundInv /\ pc = "rb_hash" /\ pc' = "rb_commit" /\ job.final <= Len(chain)
      /\ job' = [ job EXCEPT !.hash = X!HashOf(chain, job.final) ]
      /\ faults < MaxFaults /\ faults' = faults + 1
      /\ UNCHANGED << chain, forks, events, cursor, sync, steps, deliveries, memory, casFailures, other,
                      rebuilds, forgone, uncleaned >>
  BY DEF X!RebuildStageFails, X!Fault, X!IndInv, X!At, X!Goto, X!chainVars, X!storeVars
<1>1. job \in X!Job /\ chain \in Chains /\ rebuilds <= MaxRebuilds /\ uncleaned \in BOOLEAN
  BY <1>0, JobTypes DEF X!Types, X!InRebuild
<1>2. X!HashOf(chain, job.final) \in X!Hashes
  BY <1>0, <1>1, LogHash, JobNumbers
<1>3. /\ job' \in X!Job /\ job'.hash = X!HashOf(chain, job.final) /\ job'.next = job.next /\ job'.events = job.events
      /\ job'.from = job.from /\ job'.final = job.final /\ job'.rebuild = job.rebuild /\ job'.todo = job.todo
  BY <1>0, <1>1, <1>2 DEF X!Job
<1>4. X!Types'
  <2>1. faults \in 0..MaxFaults /\ \A s \in steps : s.attempts <= faults /\ s.attempts \in 0..MaxFaults
    BY <1>0 DEF X!Types, X!Step
  <2>2. faults' \in 0..MaxFaults /\ \A s \in steps : s.attempts <= faults'
    BY <1>0, <2>1, LogBounds
  <2> QED BY <1>0, <1>1, <1>3, <2>2 DEF X!Types, X!Labels, X!InRebuild
<1>5. X!ChainInv' /\ X!CursorInv' /\ X!OwedInv' /\ X!GhostInv'
  <2>1. X!Notifying = {} /\ X!InHand = {}
    BY <1>0 DEF X!Notifying, X!InHand, X!At
  <2> QED BY <1>0, <1>1, <2>1, MoveFrame
<1>6. X!MemoryInv' /\ X!RefreshInv' /\ X!UpdateInv'
  BY <1>0 DEF X!RoundInv, X!MemoryInv, X!RefreshInv, X!UpdateInv, X!InRefresh, X!InClean, X!InSweep
<1>7. X!RebuildInv'
  BY <1>0, <1>3 DEF X!RoundInv, X!RebuildInv, X!InRebuild
<1> QED BY <1>4, <1>5, <1>6, <1>7 DEF X!IndInv, X!RoundInv

(* A cursor on the chain, over exactly what the chain logs below it.       *)
LEMMA CursorOnLogs ==
  ASSUME X!Types, X!ChainInv, UNCHANGED << chain, forks >>, NEW n \in 1..Len(chain) + 1, cursor'.next = n,
         cursor'.hash = X!HashOf(chain, n - 1), events' \subseteq X!Events,
         { e \in events' : e.h <= n - 1 } = X!Logs(chain, 1, n - 1)
  PROVE  X!CursorInv' /\ X!OnChain(cursor.hash)' /\ X!BehindCursor' = X!Logs(chain, 1, n - 1)
<1>1. /\ chain \in Chains /\ Len(chain) \in 0..MaxHeight /\ n - 1 \in 0..Len(chain) /\ forks \in Nat
      /\ X!Deployment = 1 /\ MaxHeight \in Nat
  BY JobTypes, LogBounds DEF X!Types
<1>2. /\ cursor'.hash[1] = n - 1 /\ cursor'.hash[2] = IF n - 1 = 0 THEN 0 ELSE chain[n - 1].fork
  BY <1>1, LogHash
<1>3. \A e \in events' : e.h \in 1..MaxHeight
  BY DEF X!Events
<1>4. X!BehindCursor' = X!Logs(chain, 1, n - 1)
  <2>1. \A e \in events' : e.h < n <=> e.h <= n - 1
    BY <1>1, <1>3
  <2> QED BY <2>1 DEF X!BehindCursor
<1>5. X!OnChain(cursor.hash)'
  BY <1>1, <1>2 DEF X!OnChain
<1>6. X!Seen(cursor.hash)'
  <2>1. n - 1 > 0 => chain[n - 1].fork <= forks
    BY <1>1 DEF X!ChainInv
  <2> QED BY <1>1, <1>2, <2>1 DEF X!Seen
<1>7. X!Agrees(cursor.hash)'
  BY <1>1, <1>2 DEF X!Agrees, X!UpTo
<1>8. ASSUME NEW e \in X!Logs(chain, 1, n - 1)
      PROVE  X!Seen(<< e.h, e.fork >>)' /\ X!Agrees(<< e.h, e.fork >>)'
  <2>1. e.h \in 1..n - 1 /\ e.h \in 1..Len(chain) /\ e.fork = chain[e.h].fork
    BY <1>1, LogsOf
  <2>2. X!Seen(<< e.h, e.fork >>)'
    BY <1>1, <2>1 DEF X!Seen, X!ChainInv
  <2>3. X!Logs(chain, 1, e.h) = { d \in X!Logs(chain, 1, n - 1) : d.h <= e.h }
    <3>1. e.h + 1 \in Nat /\ 1 <= e.h + 1 /\ e.h + 1 <= (n - 1) + 1 /\ (e.h + 1) - 1 = e.h
      BY <1>1, <2>1
    <3>2. { d \in X!Logs(chain, 1, n - 1) : d.h <= (e.h + 1) - 1 } = X!Logs(chain, 1, (e.h + 1) - 1)
      BY <1>1, <3>1, LogsJoin
    <3> QED BY <3>1, <3>2
  <2>4. { d \in events' : d.h <= e.h } = { d \in { x \in events' : x.h <= n - 1 } : d.h <= e.h }
    BY <1>1, <1>3, <2>1
  <2>5. X!Agrees(<< e.h, e.fork >>)'
    BY <1>1, <2>3, <2>4 DEF X!Agrees, X!UpTo
  <2> QED BY <2>2, <2>5
<1>9. n >= 2 => Len(chain) >= 1 /\ X!Logs(chain, 1, n - 1) # {}
  <2> SUFFICES ASSUME n >= 2 PROVE Len(chain) >= 1 /\ X!Logs(chain, 1, n - 1) # {}
    OBVIOUS
  <2>1. Len(chain) >= 1 /\ chain[1].tx # NoTx /\ 1 \in 1..n - 1 /\ 1 \in 1..Len(chain)
    BY <1>1 DEF X!ChainInv
  <2> QED BY <2>1 DEF X!Logs
<1>10. cursor'.next = cursor'.hash[1] + 1
  BY <1>1, <1>2
<1>11. X!CursorInv'
  BY <1>4, <1>6, <1>7, <1>8, <1>9, <1>10 DEF X!CursorInv
<1> QED BY <1>4, <1>5, <1>11

LEMMA KeyShape ==
  \A e \in X!Events : X!Key(e) \in X!AllKeys /\ X!Key(e)[1] = e.h /\ e.h \in 1..MaxHeight
BY LogBounds DEF X!Events, X!Key, X!AllKeys

LEMMA KeysShape ==
  ASSUME NEW S, S \subseteq X!Events
  PROVE  /\ X!Keys(S) \subseteq X!AllKeys
         /\ \A k \in X!Keys(S) : \E e \in S : k = X!Key(e) /\ k[1] = e.h
         /\ \A e \in S : X!Key(e) \in X!Keys(S)
BY KeyShape DEF X!Keys

(* The cursor is written by this process alone.                            *)
LEMMA NeverDeferred ==
  ASSUME X!IndInv
  PROVE  ~X!RollbackDeferred /\ ~X!SaveDeferred
<1>1. (pc = "rollback" => X!OnCursor) /\ (pc = "save" => X!OnCursor)
  BY DEF X!IndInv, X!RoundInv, X!RefreshInv, X!UpdateInv, X!InRefresh, X!OnCanonicalCursor
<1> QED BY <1>1 DEF X!OnCursor, X!CasHolds, X!RollbackDeferred, X!SaveDeferred, X!At

(* What lies behind the cursor after the rollback lay behind it before,    *)
(* and is what the chain says.                                             *)
LEMMA RollbackStep ==
  ASSUME X!IndInv, X!ApplyRollback
  PROVE  X!IndInv'
<1> DEFINE a == job.hash[1]
           back == [ next |-> a + 1, final |-> a, hash |-> job.hash ]
<1>0. /\ X!Types /\ X!ChainInv /\ X!CursorInv /\ X!RoundInv /\ X!OwedInv /\ X!GhostInv
      /\ pc = "rollback" /\ pc' = "invalidate"
      /\ events' = X!deleteEventsAfterBlock(events, a)
      /\ UNCHANGED << chain, forks, steps, deliveries, other, faults, rebuilds, forgone, uncleaned >>
      /\ casFailures' = 0 /\ sync' = a
  BY DEF X!ApplyRollback, X!IndInv, X!At, X!Goto, X!chainVars, X!histVars, X!saveSyncState
<1>1. /\ X!OnCursor /\ X!OnChain(job.hash) /\ a >= 1 /\ \E e \in X!BehindCursor : job.hash = << e.h, e.fork >>
      /\ ~job.rebuild /\ job.final <= Len(chain) /\ job.events = {} /\ job.from = cursor.next
  BY <1>0, LogBounds DEF X!RoundInv, X!RefreshInv, X!InRefresh, X!OnCursor
<1>2. PICK e \in X!BehindCursor : job.hash = << e.h, e.fork >>
  BY <1>1
<1>3. /\ e \in events /\ a = e.h /\ a \in 1..MaxHeight /\ a < cursor.next /\ cursor.next \in 0..MaxHeight + 1
      /\ job.hash \in X!Hashes /\ a <= Len(chain) /\ Len(chain) \in Nat /\ MaxHeight \in Nat
      /\ events \subseteq X!Events
  <2>1. e \in events /\ a = e.h /\ e \in X!Events /\ a < cursor.next /\ events \subseteq X!Events
    BY <1>0, <1>2 DEF X!BehindCursor, X!Types
  <2>2. a \in 1..MaxHeight
    BY <2>1 DEF X!Events
  <2> QED BY <1>0, <1>1, <2>1, <2>2, JobNumbers DEF X!OnChain
<1>4. X!Larger(a + 1, X!Deployment) = a + 1
  BY <1>3, LogBounds DEF X!Larger
<1>5. cursor' = back /\ memory' = back /\ job' = [ job EXCEPT !.from = a + 1 ]
  BY <1>4 DEF X!ApplyRollback, X!Cursor, X!Goto
<1>6. /\ back \in X!Cursors /\ back # X!NoCursor /\ back.next = a + 1 /\ back.hash = job.hash /\ back.hash[1] = a
  BY <1>3, LogBounds DEF X!Cursors, X!NoCursor, X!Hashes
<1>7. events' = { d \in events : d.h <= a } /\ events' \subseteq X!Events /\ e \in events'
      /\ \A d \in events : d.h \in 1..MaxHeight
  BY <1>0, <1>3 DEF X!deleteEventsAfterBlock, X!Events
<1>8. job \in X!Job /\ job' \in X!Job /\ job'.from = a + 1 /\ job'.hash = job.hash
      /\ job'.final = job.final /\ job'.events = job.events /\ job'.rebuild = job.rebuild
  <2>1. job \in X!Job /\ a + 1 \in 0..MaxHeight + 1
    BY <1>0, <1>3, JobTypes
  <2>2. job' = [ job EXCEPT !.from = a + 1 ]
    BY <1>5
  <2> HIDE DEF a
  <2> QED BY <2>1, <2>2 DEF X!Job
<1> HIDE DEF back
<1>9. X!Types'
  <2>1. a \in X!Heights /\ 0 \in Nat /\ "invalidate" \in X!Labels /\ "invalidate" \notin X!InRebuild
    BY <1>3, LogBounds DEF X!Labels, X!InClean, X!InRebuild
  <2> QED BY <1>0, <1>5, <1>6, <1>7, <1>8, <2>1 DEF X!Types
<1>10. X!ChainInv'
  BY <1>0 DEF X!ChainInv
<1>11. X!BehindCursor' = { d \in events : d.h <= a } /\ X!BehindCursor' \subseteq X!BehindCursor
  BY <1>3, <1>5, <1>6, <1>7 DEF X!BehindCursor
<1>12. X!CursorInv'
  <2>1. ASSUME NEW d \in X!BehindCursor, d.h <= a
        PROVE  X!Seen(<< d.h, d.fork >>)' /\ X!Agrees(<< d.h, d.fork >>)'
    <3>1. X!Seen(<< d.h, d.fork >>) /\ X!Agrees(<< d.h, d.fork >>)
      BY <1>0 DEF X!CursorInv
    <3>2. { x \in events' : x.h <= d.h } = { x \in events : x.h <= d.h }
      BY <1>3, <1>7, <2>1 DEF X!BehindCursor
    <3> QED BY <1>0, <3>1, <3>2 DEF X!Seen, X!Agrees, X!UpTo, X!OnChain
  <2>2. X!Seen(cursor.hash)' /\ X!Agrees(cursor.hash)'
    <3>1. cursor'.hash = << e.h, e.fork >>
      BY <1>2, <1>5, <1>6
    <3>2. X!Seen(<< e.h, e.fork >>)' /\ X!Agrees(<< e.h, e.fork >>)'
      BY <1>3, <2>1
    <3> QED BY <3>1, <3>2 DEF X!Seen, X!Agrees, X!UpTo, X!OnChain
  <2>3. \A d \in X!BehindCursor' : d \in X!BehindCursor /\ d.h <= a
    BY <1>11
  <2>4. e \in X!BehindCursor' /\ cursor'.next = cursor'.hash[1] + 1 /\ Len(chain') >= 1
    BY <1>0, <1>3, <1>5, <1>6, <1>7, <1>11
  <2> QED BY <2>1, <2>2, <2>3, <2>4 DEF X!CursorInv
<1>13. X!OnChain(cursor.hash)' /\ X!OnCursor'
  BY <1>0, <1>1, <1>5, <1>6, <1>8 DEF X!OnChain, X!OnCursor
<1>14. X!RoundInv'
  <2>1. X!MemoryInv'
    BY <1>5 DEF X!MemoryInv
  <2>2. X!RefreshInv'
    BY <1>0, <1>1, <1>5, <1>6, <1>8, <1>13 DEF X!RefreshInv, X!InRefresh, X!InClean, X!InSweep, X!OnCanonicalCursor
  <2>3. X!UpdateInv' /\ X!RebuildInv'
    BY <1>0 DEF X!UpdateInv, X!RebuildInv, X!InRebuild
  <2> QED BY <2>1, <2>2, <2>3 DEF X!RoundInv
<1>15. X!OwedInv'
  <2>1. X!NotificationsOwed /\ X!Notifying = {} /\ X!Pending' = X!Pending
    BY <1>0 DEF X!OwedInv, X!Notifying, X!Pending, X!At
  <2>2. \A d \in X!BehindCursor' : deliveries'[X!Key(d)] # "none" \/ X!Key(d) \in X!Pending' \cup forgone'
    BY <1>0, <1>11, <2>1 DEF X!NotificationsOwed
  <2>3. X!NotificationsOwed'
    BY <2>2 DEF X!NotificationsOwed, X!Key
  <2> QED BY <1>0, <2>3 DEF X!OwedInv
<1>16. X!GhostInv'
  <2> SUFFICES ASSUME ~uncleaned PROVE X!GhostInv'
    BY <1>0 DEF X!GhostInv
  <2> DEFINE Above == { k \in X!AllKeys : k[1] > a }
             Behind == X!Keys(X!BehindCursor)
             After == X!Keys({ d \in events : d.h <= a })
  <2>1. Behind \subseteq After \cup Above
    <3>1. X!BehindCursor \subseteq X!Events /\ X!BehindCursor \subseteq events
      BY <1>3 DEF X!BehindCursor
    <3>2. ASSUME NEW k \in Behind PROVE k \in After \cup Above
      <4>1. PICK d \in X!BehindCursor : k = X!Key(d) /\ k[1] = d.h /\ k \in X!AllKeys
        BY <3>1, KeysShape
      <4>2. CASE d.h <= a
        BY <3>1, <4>1, <4>2, KeysShape DEF X!Keys
      <4>3. CASE ~(d.h <= a)
        <5>1. d.h \in Int /\ a \in Int
          BY <1>3, <1>7, <3>1
        <5> QED BY <4>1, <4>3, <5>1
      <4> QED BY <4>2, <4>3
    <3> QED BY <3>2
  <2>2. /\ X!InHand = {} /\ X!ToClear({ "invalidate" }) = {} /\ X!ToClear(X!InClean) = {} /\ X!Live' = X!Live
    BY <1>0 DEF X!InHand, X!ToClear, X!InClean, X!Live
  <2>3. X!ToClear({ "invalidate" })' = Above /\ X!ToClear(X!InClean)' = Above
    BY <1>0, <1>8 DEF X!ToClear, X!InClean, X!AllKeys
  <2>4. X!Live \subseteq Behind /\ \A s \in steps : X!Keys(s.events) \subseteq Behind
    BY <1>0, <2>2 DEF X!GhostInv
  <2>5. X!Keys(X!BehindCursor)' = After
    BY <1>11 DEF X!Keys, X!Key
  <2> HIDE DEF Above, Behind, After
  <2>6. X!Live' \subseteq X!Keys(X!BehindCursor)' \cup X!InHand' \cup X!ToClear({ "invalidate" })'
    BY <2>1, <2>2, <2>3, <2>4, <2>5
  <2>7. \A s \in steps' : X!Keys(s.events) \subseteq X!Keys(X!BehindCursor)' \cup X!InHand' \cup X!ToClear(X!InClean)'
    BY <1>0, <2>1, <2>3, <2>4, <2>5
  <2>8. \A s : X!Keys(s.events)' = X!Keys(s.events)
    BY DEF X!Keys, X!Key
  <2> QED BY <1>0, <2>6, <2>7, <2>8 DEF X!GhostInv
<1> QED BY <1>9, <1>10, <1>12, <1>14, <1>15, <1>16 DEF X!IndInv

(* Rows behind the cursor stay as they are: so does what it says of them.  *)
LEMMA CursorFrame ==
  ASSUME X!Types, X!CursorInv, UNCHANGED << chain, forks, cursor >>, events' \subseteq X!Events,
         { e \in events' : e.h < cursor.next } = { e \in events : e.h < cursor.next }
  PROVE  X!CursorInv' /\ X!BehindCursor' = X!BehindCursor
<1>1. X!BehindCursor' = X!BehindCursor
  BY DEF X!BehindCursor
<1>2. events \subseteq X!Events /\ (\A e \in events \cup events' : e.h \in 1..MaxHeight)
      /\ cursor.next \in Nat /\ cursor.hash[1] \in Nat
  <2>1. events \subseteq X!Events
    BY DEF X!Types
  <2>2. \A e \in events \cup events' : e.h \in 1..MaxHeight
    BY <2>1 DEF X!Events
  <2> QED BY <2>1, <2>2, JobNumbers
<1>3. ASSUME NEW h \in Int, h < cursor.next \/ h = 0
      PROVE  { e \in events' : e.h <= h } = { e \in events : e.h <= h }
  BY <1>2, <1>3
<1>4. ASSUME NEW e \in X!BehindCursor
      PROVE  X!Seen(<< e.h, e.fork >>)' /\ X!Agrees(<< e.h, e.fork >>)'
  <2>1. X!Seen(<< e.h, e.fork >>) /\ X!Agrees(<< e.h, e.fork >>) /\ e.h < cursor.next /\ e.h \in Int
    BY <1>2 DEF X!CursorInv, X!BehindCursor
  <2>2. { d \in events' : d.h <= e.h } = { d \in events : d.h <= e.h }
    BY <1>3, <2>1
  <2> QED BY <2>1, <2>2 DEF X!Seen, X!Agrees, X!UpTo, X!OnChain
<1>5. X!Seen(cursor.hash)' /\ X!Agrees(cursor.hash)'
  <2>1. X!Seen(cursor.hash) /\ X!Agrees(cursor.hash)
    BY DEF X!CursorInv
  <2>2. cursor.hash[1] < cursor.next \/ cursor.hash[1] = 0
    BY <1>2 DEF X!CursorInv, X!NoCursor
  <2>3. { d \in events' : d.h <= cursor.hash[1] } = { d \in events : d.h <= cursor.hash[1] }
    BY <1>2, <1>3, <2>2
  <2> QED BY <2>1, <2>3 DEF X!Seen, X!Agrees, X!UpTo, X!OnChain
<1> QED BY <1>1, <1>4, <1>5 DEF X!CursorInv

LEMMA CommitStep ==
  ASSUME X!IndInv, X!CommitEvents
  PROVE  X!IndInv'
<1> DEFINE new == { e \in job.events : X!Key(e) \notin X!Keys(X!deleteEventsAfterBlock(events, job.from - 1)) }
<1>0. /\ X!Types /\ X!ChainInv /\ X!CursorInv /\ X!RoundInv /\ X!OwedInv /\ X!GhostInv
      /\ pc = "commit" /\ pc' = "notify" /\ job' = job /\ sync' = job.reported
      /\ UNCHANGED << chain, forks, cursor, steps, deliveries, memory, casFailures, other,
                      faults, rebuilds, forgone, uncleaned >>
  BY DEF X!CommitEvents, X!IndInv, X!At, X!Goto, X!chainVars, X!histVars, X!saveSyncState
<1>1. /\ X!OnCanonicalCursor /\ ~job.rebuild /\ job.from = cursor.next /\ cursor.next = cursor.hash[1] + 1
      /\ job.from <= job.final /\ job.final <= Len(chain) /\ job.events = X!Logs(chain, job.from, job.final)
      /\ X!OnChain(cursor.hash) /\ X!Agrees(cursor.hash)
  BY <1>0 DEF X!RoundInv, X!UpdateInv, X!OnCanonicalCursor, X!OnCursor, X!CursorInv
<1>2. /\ job.from \in 1..MaxHeight + 1 /\ job.final \in 0..MaxHeight /\ cursor.hash[1] = job.from - 1
      /\ events \subseteq X!Events /\ chain \in Chains /\ Len(chain) \in Nat /\ job.reported \in X!Heights
      /\ \A e \in events : e.h \in 1..MaxHeight
  <2>1. events \subseteq X!Events /\ chain \in Chains
    BY <1>0, JobTypes DEF X!Types
  <2>2. \A e \in events : e.h \in 1..MaxHeight
    BY <2>1 DEF X!Events
  <2>3. job.from \in 0..MaxHeight + 1 /\ job.final \in 0..MaxHeight /\ cursor.hash[1] \in 0..MaxHeight
        /\ job.reported \in 0..MaxHeight /\ Len(chain) \in Nat /\ MaxHeight \in Nat
    BY <1>0, JobNumbers
  <2>4. job.reported \in X!Heights
    BY <2>3, LogBounds
  <2>5. job.from \in 1..MaxHeight + 1 /\ cursor.hash[1] = job.from - 1
    BY <1>1, <2>3
  <2> QED BY <2>1, <2>2, <2>3, <2>4, <2>5
<1>3. events' = X!UpTo(job.from - 1) \cup new
  BY <1>1 DEF X!CommitEvents, X!appendEvents, X!deleteEventsAfterBlock, X!UpTo
<1>4. \A e \in job.events : e.h \in job.from..job.final /\ e \in X!Events
  BY <1>1, <1>2, LogsOf
<1>5. new = job.events
  <2>1. ASSUME NEW e \in job.events PROVE X!Key(e) \notin X!Keys(X!UpTo(job.from - 1))
    <3>1. X!UpTo(job.from - 1) \subseteq X!Events
      BY <1>2 DEF X!UpTo
    <3>2. X!Key(e)[1] = e.h /\ e.h >= job.from /\ e.h \in Int
      BY <1>2, <1>4, KeyShape
    <3>3. ASSUME X!Key(e) \in X!Keys(X!UpTo(job.from - 1)) PROVE FALSE
      <4>1. PICK d \in X!UpTo(job.from - 1) : X!Key(e)[1] = d.h
        BY <3>1, <3>3, KeysShape
      <4>2. d.h <= job.from - 1 /\ d.h \in Int
        BY <1>2, <4>1 DEF X!UpTo
      <4> QED BY <1>2, <3>2, <4>1, <4>2
    <3> QED BY <3>3
  <2> QED BY <2>1 DEF X!UpTo, X!deleteEventsAfterBlock
<1> HIDE DEF new
<1>6. events' = X!UpTo(job.from - 1) \cup job.events /\ events' \subseteq X!Events
  BY <1>2, <1>3, <1>4, <1>5 DEF X!UpTo
<1>7. { e \in events' : e.h < cursor.next } = { e \in events : e.h < cursor.next }
  BY <1>1, <1>2, <1>4, <1>6 DEF X!UpTo
<1>8. X!CursorInv' /\ X!BehindCursor' = X!BehindCursor
  BY <1>0, <1>6, <1>7, CursorFrame
<1>9. X!Types'
  BY <1>0, <1>2, <1>6 DEF X!Types, X!Labels, X!InUpdate, X!InRebuild
<1>10. X!ChainInv'
  BY <1>0 DEF X!ChainInv
<1>11. { e \in events' : e.h <= job.final } = X!Logs(chain, 1, job.final)
  <2>1. { e \in events' : e.h <= job.final } = X!UpTo(job.from - 1) \cup job.events
    BY <1>1, <1>2, <1>4, <1>6 DEF X!UpTo
  <2>2. X!UpTo(job.from - 1) = X!Logs(chain, 1, job.from - 1)
    BY <1>1, <1>2, LogBounds DEF X!Agrees
  <2>3. X!Logs(chain, 1, job.final) = X!Logs(chain, 1, job.from - 1) \cup X!Logs(chain, job.from, job.final)
    BY <1>1, <1>2, LogsJoin
  <2> QED BY <1>1, <2>1, <2>2, <2>3
<1>12. X!RoundInv'
  <2>1. X!MemoryInv' /\ X!RefreshInv' /\ X!RebuildInv'
    BY <1>0, <1>1 DEF X!RoundInv, X!MemoryInv, X!RefreshInv, X!InRefresh, X!InClean, X!InSweep,
                      X!RebuildInv, X!InRebuild
  <2>2. X!OnCanonicalCursor'
    BY <1>0, <1>1 DEF X!OnCanonicalCursor, X!OnCursor, X!OnChain
  <2>3. X!UpdateInv'
    BY <1>0, <1>1, <1>11, <2>2, LogBounds DEF X!UpdateInv, X!UpTo
  <2> QED BY <2>1, <2>3 DEF X!RoundInv
<1>13. X!OwedInv'
  <2>1. X!NotificationsOwed /\ X!Pending' = X!Pending /\ X!Notifying = {}
    BY <1>0 DEF X!OwedInv, X!Pending, X!Notifying, X!At
  <2>2. X!NotificationsOwed'
    BY <1>0, <1>8, <2>1 DEF X!NotificationsOwed, X!Key
  <2> QED BY <1>0, <2>2 DEF X!OwedInv
<1>14. X!GhostInv'
  BY <1>0, <1>8 DEF X!GhostInv, X!Live, X!Keys, X!Key, X!InHand, X!ToClear, X!InClean
<1> QED BY <1>8, <1>9, <1>10, <1>12, <1>13, <1>14 DEF X!IndInv

(* The cursor moves over the rows it was saved for: they were in hand.     *)
LEMMA SaveStep ==
  ASSUME X!IndInv, X!SaveCursor
  PROVE  X!IndInv'
<1> DEFINE saved == [ next |-> job.next, final |-> job.reported, hash |-> job.hash ]
<1>0. /\ X!Types /\ X!ChainInv /\ X!CursorInv /\ X!RoundInv /\ X!OwedInv /\ X!GhostInv
      /\ pc = "save" /\ job' = job /\ cursor' = saved /\ memory' = cursor' /\ casFailures' = 0
      /\ pc' = X!AfterSave
      /\ UNCHANGED << chain, forks, events, sync, steps, deliveries, other,
                      faults, rebuilds, forgone, uncleaned >>
  BY DEF X!SaveCursor, X!IndInv, X!At, X!Goto, X!chainVars, X!histVars, X!Cursor
<1>1. /\ X!OnCursor /\ ~job.rebuild /\ job.from = cursor.next /\ cursor.next = cursor.hash[1] + 1
      /\ job.from <= job.next /\ job.next - 1 <= Len(chain) /\ job.hash = X!HashOf(chain, job.next - 1)
      /\ X!UpTo(job.next - 1) = X!Logs(chain, 1, job.next - 1)
      /\ job.events = { e \in events : e.h \in job.from..job.next - 1 }
  BY <1>0, LogBounds DEF X!RoundInv, X!UpdateInv, X!OnCanonicalCursor, X!OnCursor, X!CursorInv
<1>2. /\ job.from \in 1..MaxHeight + 1 /\ job.next \in 1..Len(chain) + 1 /\ job.next \in 0..MaxHeight + 1
      /\ job.reported \in X!Heights /\ job.hash \in X!Hashes /\ chain \in Chains
      /\ events \subseteq X!Events /\ \A e \in events : e.h \in 1..MaxHeight
  <2>1. /\ job.from \in 0..MaxHeight + 1 /\ job.next \in 0..MaxHeight + 1 /\ cursor.hash[1] \in 0..MaxHeight
        /\ job.reported \in 0..MaxHeight /\ job.hash \in X!Hashes /\ Len(chain) \in Nat /\ MaxHeight \in Nat
    BY <1>0, JobNumbers
  <2>2. events \subseteq X!Events /\ chain \in Chains
    BY <1>0, JobTypes DEF X!Types
  <2>3. \A e \in events : e.h \in 1..MaxHeight
    BY <2>2 DEF X!Events
  <2>4. job.reported \in X!Heights
    BY <2>1, LogBounds
  <2>5. job.from \in 1..MaxHeight + 1 /\ job.next \in 1..Len(chain) + 1
    BY <1>1, <2>1
  <2> QED BY <2>1, <2>2, <2>3, <2>4, <2>5
<1>3. saved \in X!Cursors /\ saved # X!NoCursor /\ saved.next = job.next /\ saved.hash = job.hash
  BY <1>2, LogBounds DEF X!Cursors, X!Hashes, X!NoCursor
<1> HIDE DEF saved
<1>4. X!Types'
  <2>1. X!AfterSave \in X!Labels /\ X!AfterSave \notin X!InRebuild /\ 0 \in Nat
    BY DEF X!AfterSave, X!Labels, X!InUpdate, X!InRebuild
  <2> QED BY <1>0, <1>3, <2>1 DEF X!Types
<1>5. X!ChainInv'
  BY <1>0 DEF X!ChainInv
<1>6. X!CursorInv' /\ X!OnChain(cursor.hash)' /\ X!BehindCursor' = X!Logs(chain, 1, job.next - 1)
  <2>1. { e \in events' : e.h <= job.next - 1 } = X!Logs(chain, 1, job.next - 1)
    BY <1>0, <1>1 DEF X!UpTo
  <2>2. cursor'.next = job.next /\ cursor'.hash = X!HashOf(chain, job.next - 1) /\ events' \subseteq X!Events
    BY <1>0, <1>1, <1>2, <1>3
  <2> QED BY <1>0, <1>2, <2>1, <2>2, CursorOnLogs
<1>7. X!BehindCursor' = X!BehindCursor \cup job.events
  <2>1. X!BehindCursor' = { e \in events : e.h <= job.next - 1 }
    BY <1>1, <1>6 DEF X!UpTo
  <2>2. X!BehindCursor = { e \in events : e.h < job.from }
    BY <1>1 DEF X!BehindCursor
  <2> QED BY <1>1, <1>2, <2>1, <2>2
<1>8. X!RoundInv'
  <2>1. X!MemoryInv'
    BY <1>0 DEF X!MemoryInv
  <2>2. X!RefreshInv' /\ X!UpdateInv' /\ X!RebuildInv'
    BY <1>0, <1>1 DEF X!RefreshInv, X!UpdateInv, X!RebuildInv, X!InRefresh, X!InClean, X!InSweep,
                      X!InRebuild, X!AfterSave
  <2> QED BY <2>1, <2>2 DEF X!RoundInv
<1>9. X!OwedInv'
  <2>1. X!NotificationsOwed /\ X!Notifying = {} /\ \A e \in job.events : X!Owed(X!Key(e))
    BY <1>0 DEF X!OwedInv, X!Notifying, X!At
  <2>2. \A e \in X!BehindCursor \cup job.events : deliveries[X!Key(e)] # "none" \/ X!Key(e) \in X!Pending \cup forgone
    BY <2>1 DEF X!NotificationsOwed, X!Owed
  <2>3. X!Pending' = X!Pending
    BY <1>0 DEF X!Pending
  <2>4. X!NotificationsOwed'
    BY <1>0, <1>7, <2>2, <2>3 DEF X!NotificationsOwed, X!Key
  <2> QED BY <1>0, <2>4 DEF X!OwedInv, X!AfterSave
<1>10. X!GhostInv'
  <2> SUFFICES ASSUME ~uncleaned PROVE X!GhostInv'
    BY <1>0 DEF X!GhostInv
  <2>1. /\ X!InHand = X!Keys(job.events) /\ X!Live' = X!Live
        /\ X!ToClear({ "invalidate" }) = {} /\ X!ToClear(X!InClean) = {}
    BY <1>0 DEF X!InHand, X!ToClear, X!InClean, X!Live
  <2>2. X!Keys(X!BehindCursor)' = X!Keys(X!BehindCursor) \cup X!Keys(job.events)
    BY <1>7 DEF X!Keys, X!Key
  <2>3. /\ X!Live' \subseteq X!Keys(X!BehindCursor)'
        /\ \A s \in steps' : X!Keys(s.events) \subseteq X!Keys(X!BehindCursor)'
    BY <1>0, <2>1, <2>2 DEF X!GhostInv
  <2>4. \A s : X!Keys(s.events)' = X!Keys(s.events)
    BY DEF X!Keys, X!Key
  <2> QED BY <1>0, <2>3, <2>4 DEF X!GhostInv, X!AfterSave
<1> QED BY <1>4, <1>5, <1>6, <1>8, <1>9, <1>10 DEF X!IndInv

(* A rebuild before anything is finalized writes a cursor with nothing     *)
(* behind it.                                                              *)
LEMMA RebuildEmptyStep ==
  ASSUME X!IndInv, X!RebuildEmpty
  PROVE  X!IndInv'
<1>0. /\ X!Types /\ X!ChainInv /\ X!CursorInv /\ X!RoundInv /\ X!OwedInv /\ X!GhostInv
      /\ pc = "idle" /\ X!MayRebuild
      /\ memory' = cursor' /\ rebuilds' = rebuilds + 1 /\ uncleaned' = (uncleaned \/ X!Outside({}))
      /\ UNCHANGED << chain, forks, events, steps, deliveries, casFailures, pc, job, other, faults, forgone >>
  BY DEF X!RebuildEmpty, X!IndInv, X!At, X!chainVars
<1>1. PICK final \in { t \in X!Targets : t < X!Deployment } :
        cursor' = X!BeforeDeployment(final) /\ sync' = final
  BY DEF X!RebuildEmpty, X!saveSyncState
<1>2. /\ Len(chain) \in 0..MaxHeight /\ X!FinalizedBlock \in 0..Len(chain) /\ MaxHeight \in Nat /\ X!Deployment = 1
      /\ MaxForks \in Nat /\ MaxRebuilds \in Nat /\ chain \in Chains /\ rebuilds \in Nat
  <2>1. rebuilds \in 0..MaxRebuilds + 1 /\ MaxRebuilds \in Nat
    BY <1>0, LogBounds DEF X!Types
  <2> QED BY <1>0, <2>1, LogBounds, JobTypes
<1>3. final = 0
  <2>1. final \in 0..X!FinalizedBlock
    BY <1>1, <1>2 DEF X!Targets
  <2> QED BY <1>1, <1>2, <2>1
<1>4. cursor' = [ next |-> 1, final |-> 0, hash |-> << 0, 0 >> ] /\ sync' = 0
  BY <1>1, <1>2, <1>3 DEF X!BeforeDeployment, X!Cursor, X!HashOf
<1>5. cursor' \in X!Cursors /\ cursor' # X!NoCursor /\ cursor'.next = 1 /\ cursor'.hash = X!HashOf(chain, 1 - 1)
      /\ sync' \in X!Heights
  BY <1>2, <1>4, LogBounds DEF X!Cursors, X!NoCursor, X!HashOf
<1>6. rebuilds < MaxRebuilds \/ rebuilds = 0
  <2>1. other = X!NoJob /\ (cursor = X!NoCursor => rebuilds = 0)
    BY <1>0 DEF X!Types
  <2> QED BY <1>0, <1>2, <2>1 DEF X!MayRebuild, X!Begun
<1>7. X!Types'
  <2>1. rebuilds' \in 0..MaxRebuilds + 1 /\ uncleaned' \in BOOLEAN /\ pc' \notin X!InRebuild
    BY <1>0, <1>2, <1>6 DEF X!Types, X!InRebuild
  <2> QED BY <1>0, <1>5, <2>1 DEF X!Types
<1>8. X!ChainInv'
  BY <1>0 DEF X!ChainInv
<1>9. X!CursorInv' /\ X!BehindCursor' = X!Logs(chain, 1, 1 - 1)
  <2>1. X!Logs(chain, 1, 1 - 1) = {}
    BY DEF X!Logs
  <2>2. events \subseteq X!Events /\ \A e \in events : e.h \in 1..MaxHeight
    BY <1>0 DEF X!Types, X!Events
  <2>3. { e \in events' : e.h <= 1 - 1 } = X!Logs(chain, 1, 1 - 1)
    BY <1>0, <2>1, <2>2
  <2>4. 1 \in 1..Len(chain) + 1
    BY <1>2
  <2> QED BY <1>0, <1>5, <2>2, <2>3, <2>4, CursorOnLogs
<1>10. X!BehindCursor' = {}
  BY <1>9 DEF X!Logs
<1>11. X!RoundInv'
  BY <1>0 DEF X!RoundInv, X!MemoryInv, X!RefreshInv, X!UpdateInv, X!RebuildInv, X!InRefresh, X!InClean, X!InSweep,
              X!InRebuild
<1>12. X!OwedInv'
  BY <1>0, <1>10 DEF X!OwedInv, X!NotificationsOwed
<1>13. X!GhostInv'
  <2> SUFFICES ASSUME ~uncleaned, ~X!Outside({}) PROVE X!GhostInv'
    BY <1>0 DEF X!GhostInv
  <2>1. X!Live \cup X!Pending \subseteq {}
    BY DEF X!Outside, X!Keys
  <2>2. X!Live' = {} /\ \A s \in steps' : X!Keys(s.events) = {}
    BY <1>0, <2>1 DEF X!Live, X!Pending
  <2>3. \A s : X!Keys(s.events)' = X!Keys(s.events)
    BY DEF X!Keys, X!Key
  <2> QED BY <1>0, <2>2, <2>3 DEF X!GhostInv
<1> QED BY <1>7, <1>8, <1>9, <1>11, <1>12, <1>13 DEF X!IndInv

(* A rebuild replaces the log, and the cursor with it.                     *)
LEMMA RebuildCommitStep ==
  ASSUME X!IndInv, X!RebuildCommit
  PROVE  X!IndInv'
<1> DEFINE built == [ next |-> job.next, final |-> job.final, hash |-> job.hash ]
<1>0. /\ X!Types /\ X!ChainInv /\ X!CursorInv /\ X!RoundInv /\ X!OwedInv /\ X!GhostInv
      /\ pc = "rb_commit" /\ pc' = "notify" /\ job' = job /\ events' = job.events
      /\ cursor' = X!Cursor(job.next, job.final, job.hash) /\ cursor' = built
      /\ rebuilds' = rebuilds + 1 /\ uncleaned' = (uncleaned \/ X!Outside(job.events))
      /\ UNCHANGED << chain, forks, steps, deliveries, memory, casFailures, other, faults, forgone >>
  BY DEF X!RebuildCommit, X!resetFromEvents, X!IndInv, X!At, X!Goto, X!chainVars, X!Cursor
<1>1. sync' = job.final
  BY DEF X!RebuildCommit, X!resetFromEvents, X!saveSyncState, X!Cursor
<1>2. /\ job.rebuild /\ 1 <= job.final /\ job.final <= Len(chain) /\ job.next = job.final + 1
      /\ job.events = X!Logs(chain, 1, job.final) /\ job.hash = X!HashOf(chain, job.final)
      /\ job.todo # {} => X!Keys(job.events) \subseteq X!Pending
  BY <1>0, LogBounds DEF X!RoundInv, X!RebuildInv, X!InRebuild
<1>3. /\ job.final \in 1..MaxHeight /\ job.next \in 0..MaxHeight + 1 /\ job.hash \in X!Hashes
      /\ job.next \in 1..Len(chain) + 1 /\ job.next - 1 = job.final /\ chain \in Chains
      /\ job.events \subseteq X!Events /\ job.final \in X!Heights
  <2>1. /\ job.final \in 0..MaxHeight /\ job.next \in 0..MaxHeight + 1 /\ job.hash \in X!Hashes
        /\ job.events \subseteq X!Events /\ Len(chain) \in Nat /\ MaxHeight \in Nat
    BY <1>0, JobNumbers
  <2>2. chain \in Chains /\ job.final \in X!Heights
    BY <1>0, <2>1, JobTypes, LogBounds
  <2>3. job.final \in 1..MaxHeight /\ job.next \in 1..Len(chain) + 1 /\ job.next - 1 = job.final
    BY <1>2, <2>1
  <2> QED BY <2>1, <2>2, <2>3
<1>4. built \in X!Cursors /\ built # X!NoCursor /\ built.next = job.next /\ built.hash = job.hash
  BY <1>3, LogBounds DEF X!Cursors, X!Hashes, X!NoCursor
<1> HIDE DEF built
<1>5. X!Types'
  <2>1. rebuilds' \in 0..MaxRebuilds + 1
    <3>1. rebuilds \in 0..MaxRebuilds + 1 /\ rebuilds <= MaxRebuilds /\ MaxRebuilds \in Nat
      BY <1>0, LogBounds DEF X!Types, X!InRebuild
    <3> QED BY <1>0, <3>1
  <2>2. "notify" \in X!Labels /\ "notify" \notin X!InRebuild /\ uncleaned' \in BOOLEAN
    BY <1>0 DEF X!Types, X!Labels, X!InUpdate, X!InRebuild
  <2> QED BY <1>0, <1>1, <1>3, <1>4, <2>1, <2>2 DEF X!Types
<1>6. X!ChainInv'
  BY <1>0 DEF X!ChainInv
<1>7. X!CursorInv' /\ X!BehindCursor' = job.events
  <2>1. { e \in events' : e.h <= job.next - 1 } = X!Logs(chain, 1, job.next - 1)
    BY <1>0, <1>2, <1>3, LogsOf
  <2>2. cursor'.next = job.next /\ cursor'.hash = X!HashOf(chain, job.next - 1) /\ events' \subseteq X!Events
    BY <1>0, <1>2, <1>3, <1>4
  <2>3. X!CursorInv' /\ X!BehindCursor' = X!Logs(chain, 1, job.next - 1)
    BY <1>0, <1>3, <2>1, <2>2, CursorOnLogs
  <2> QED BY <1>2, <1>3, <2>3
<1>8. X!RoundInv'
  <2>1. X!MemoryInv' /\ X!RefreshInv' /\ X!UpdateInv'
    BY <1>0, <1>2 DEF X!MemoryInv, X!RefreshInv, X!UpdateInv, X!InRefresh, X!InClean, X!InSweep
  <2>2. X!Pending' = X!Pending /\ X!Keys(job.events)' = X!Keys(job.events)
    BY <1>0 DEF X!Pending, X!Keys, X!Key
  <2>3. X!RebuildInv'
    BY <1>0, <1>2, <1>7, <2>2 DEF X!RebuildInv, X!InRebuild, X!Cursor
  <2> QED BY <2>1, <2>3 DEF X!RoundInv
<1>9. X!OwedInv'
  <2>1. X!Notifying' = X!Keys(job.events)
    BY <1>0, <1>2 DEF X!Notifying, X!At, X!Keys, X!Key
  <2>2. X!NotificationsOwed'
    BY <1>7, <2>1 DEF X!NotificationsOwed, X!Keys, X!Key
  <2> QED BY <1>0, <2>2 DEF X!OwedInv
<1>10. X!GhostInv'
  <2> SUFFICES ASSUME ~uncleaned, ~X!Outside(job.events) PROVE X!GhostInv'
    BY <1>0 DEF X!GhostInv
  <2>1. X!Live \cup X!Pending \subseteq X!Keys(job.events)
    BY DEF X!Outside
  <2>2. X!Keys(X!BehindCursor)' = X!Keys(job.events) /\ X!Live' = X!Live
    BY <1>0, <1>7 DEF X!Keys, X!Key, X!Live
  <2>3. X!Live' \subseteq X!Keys(X!BehindCursor)' /\ \A s \in steps' : X!Keys(s.events) \subseteq X!Keys(X!BehindCursor)'
    BY <1>0, <2>1, <2>2 DEF X!Pending
  <2>4. \A s : X!Keys(s.events)' = X!Keys(s.events)
    BY DEF X!Keys, X!Key
  <2> QED BY <1>0, <2>3, <2>4 DEF X!GhostInv
<1> QED BY <1>5, <1>6, <1>7, <1>8, <1>9, <1>10 DEF X!IndInv

(* What a pass over some events makes of the deliveries.                   *)
LEMMA Delivered ==
  ASSUME X!Types, NEW es, es \subseteq X!Events
  PROVE  LET after == X!processSignalSubmittedEvents(es) IN
         /\ after \in [ X!AllKeys -> {"none", "live", "invalidated"} ]
         /\ \A k \in X!AllKeys : deliveries[k] # "none" => after[k] = deliveries[k]
         /\ \A k \in X!AllKeys : after[k] = "live" => deliveries[k] = "live" \/ k \in X!Keys(es)
         /\ \A e \in es : e.h <= sync => after[X!Key(e)] # "none"
<1>1. deliveries \in [ X!AllKeys -> {"none", "live", "invalidated"} ]
  BY DEF X!Types
<1>2. \A e \in es : X!Key(e) \in X!AllKeys /\ X!Key(e) \in X!Keys(es)
  BY KeyShape DEF X!Keys
<1> HIDE DEF X!AllKeys
<1> QED BY <1>1, <1>2 DEF X!processSignalSubmittedEvents

(* What the operations on the queue make of its rows.                      *)
Rows(limit) == { rows \in SUBSET X!Step : \A s \in rows : s.attempts <= limit }

LEMMA Removed ==
  ASSUME NEW rows, NEW es
  PROVE  /\ X!deletePendingPostCommitStep(rows, es) \subseteq rows
         /\ \A s \in rows \ X!deletePendingPostCommitStep(rows, es) : X!Keys(s.events) = X!Keys(es)
         /\ \A s \in X!deletePendingPostCommitStep(rows, es) : ~X!SameStep(s, es)
BY DEF X!deletePendingPostCommitStep, X!SameStep

LEMMA Counted ==
  ASSUME NEW n \in Nat, n < MaxFaults, NEW rows \in Rows(n), NEW es
  PROVE  /\ X!recordPendingPostCommitAttempt(rows, es) \in Rows(n + 1)
         /\ \A t \in X!recordPendingPostCommitAttempt(rows, es) : \E s \in rows : t.events = s.events
         /\ \A s \in rows : \E t \in X!recordPendingPostCommitAttempt(rows, es) : t.events = s.events
<1> DEFINE next(s) == IF X!SameStep(s, es) THEN [ s EXCEPT !.attempts = s.attempts + 1 ] ELSE s
<1>1. X!recordPendingPostCommitAttempt(rows, es) = { next(s) : s \in rows }
  BY DEF X!recordPendingPostCommitAttempt
<1>2. ASSUME NEW s \in rows
      PROVE  next(s) \in X!Step /\ next(s).attempts <= n + 1 /\ next(s).events = s.events
  <2>1. s \in [ events : SUBSET X!Events, attempts : 0..MaxFaults ] /\ s.attempts <= n /\ MaxFaults \in Nat
    BY LogBounds DEF Rows, X!Step
  <2>2. s.attempts \in 0..MaxFaults /\ s.attempts + 1 \in 0..MaxFaults
    BY <2>1
  <2> QED BY <2>1, <2>2 DEF X!Step
<1> HIDE DEF next
<1> QED BY <1>1, <1>2 DEF Rows

LEMMA Saved ==
  ASSUME NEW n \in Nat, NEW rows \in Rows(n), NEW es \in SUBSET X!Events
  PROVE  /\ X!savePendingPostCommitStep(rows, es) \in Rows(n)
         /\ \A s \in X!savePendingPostCommitStep(rows, es) : s \in rows \/ s.events = es
         /\ \A s \in rows : s \in X!savePendingPostCommitStep(rows, es)
         /\ \E s \in X!savePendingPostCommitStep(rows, es) : X!Keys(s.events) = X!Keys(es)
<1> DEFINE new == [ events |-> es, attempts |-> 0 ]
<1>1. new \in X!Step /\ new.attempts <= n /\ new.events = es
  BY LogBounds DEF X!Step
<1>2. CASE \E s \in rows : X!SameStep(s, es)
  BY <1>2 DEF X!savePendingPostCommitStep, X!SameStep
<1>3. CASE ~ \E s \in rows : X!SameStep(s, es)
  <2>1. X!savePendingPostCommitStep(rows, es) = rows \cup { new }
    BY <1>3 DEF X!savePendingPostCommitStep
  <2>2. X!savePendingPostCommitStep(rows, es) \in Rows(n)
    BY <1>1, <2>1 DEF Rows
  <2>3. X!Keys(new.events) = X!Keys(es)
    BY <1>1
  <2> HIDE DEF new
  <2> QED BY <1>1, <2>1, <2>2, <2>3
<1> QED BY <1>2, <1>3

LEMMA Persisted ==
  ASSUME NEW n \in Nat, n < MaxFaults, NEW rows \in Rows(n), NEW es \in SUBSET X!Events
  PROVE  LET after == X!recordPendingPostCommitAttempt(X!savePendingPostCommitStep(rows, es), es) IN
         /\ after \in Rows(n + 1)
         /\ \A t \in after : t.events = es \/ \E s \in rows : t.events = s.events
         /\ \A s \in rows : \E t \in after : t.events = s.events
         /\ \E t \in after : X!Keys(t.events) = X!Keys(es)
<1> DEFINE saved == X!savePendingPostCommitStep(rows, es)
<1>1. /\ saved \in Rows(n)
      /\ \A s \in saved : s \in rows \/ s.events = es
      /\ \A s \in rows : s \in saved
      /\ \E s \in saved : X!Keys(s.events) = X!Keys(es)
  BY Saved
<1> HIDE DEF saved
<1>2. /\ X!recordPendingPostCommitAttempt(saved, es) \in Rows(n + 1)
      /\ \A t \in X!recordPendingPostCommitAttempt(saved, es) : \E s \in saved : t.events = s.events
      /\ \A s \in saved : \E t \in X!recordPendingPostCommitAttempt(saved, es) : t.events = s.events
  BY <1>1, Counted
<1>3. \E t \in X!recordPendingPostCommitAttempt(saved, es) : X!Keys(t.events) = X!Keys(es)
  BY <1>1, <1>2
<1>4. \A t \in X!recordPendingPostCommitAttempt(saved, es) : t.events = es \/ \E s \in rows : t.events = s.events
  BY <1>1, <1>2
<1> QED BY <1>1, <1>2, <1>3, <1>4 DEF saved

(* While log and cursor stay, nothing is owed any more than before.        *)
LEMMA OwedFrame ==
  ASSUME X!IndInv, UNCHANGED << chain, forks, events, cursor >>,
         \A k \in X!AllKeys : deliveries[k] # "none" => deliveries'[k] # "none",
         \A k \in X!Keys(X!BehindCursor) :
           k \in X!Pending \cup forgone \cup X!Notifying
             => deliveries'[k] # "none" \/ k \in X!Pending' \cup forgone' \cup X!Notifying'
  PROVE  /\ X!ChainInv' /\ X!CursorInv' /\ X!BehindCursor' = X!BehindCursor /\ X!NotificationsOwed'
         /\ X!Keys(X!BehindCursor)' = X!Keys(X!BehindCursor)
<1>0. X!ChainInv /\ X!CursorInv /\ X!NotificationsOwed /\ X!Types
  BY DEF X!IndInv, X!OwedInv
<1>1. X!ChainInv' /\ X!CursorInv' /\ X!BehindCursor' = X!BehindCursor
  BY <1>0, StoreSame
<1>2. \A e \in X!BehindCursor : X!Key(e) \in X!AllKeys /\ X!Key(e) \in X!Keys(X!BehindCursor)
  BY <1>0, KeyShape DEF X!BehindCursor, X!Types, X!Keys
<1>3. X!NotificationsOwed'
  <2>1. ASSUME NEW e \in X!BehindCursor
        PROVE  deliveries'[X!Key(e)] # "none" \/ X!Key(e) \in X!Pending' \cup forgone' \cup X!Notifying'
    BY <1>0, <1>2 DEF X!NotificationsOwed
  <2> QED BY <1>1, <2>1 DEF X!NotificationsOwed, X!Key
<1>4. X!Keys(X!BehindCursor)' = X!Keys(X!BehindCursor)
  BY <1>1 DEF X!Keys, X!Key
<1> QED BY <1>1, <1>3, <1>4

LEMMA PendingKeys ==
  /\ \A k : k \in X!Pending <=> \E s \in steps : k \in X!Keys(s.events)
  /\ \A k : k \in X!Pending' <=> \E s \in steps' : k \in X!Keys(s.events)
  /\ \A s : X!Keys(s.events)' = X!Keys(s.events)
  /\ X!Keys(job.events)' = X!Keys(job'.events)
BY DEF X!Pending, X!Keys, X!Key

(* What the notification of an update or a rebuild leaves behind: every    *)
(* event in hand is told of, queued, or given up.                          *)
LEMMA NotifiedFrame ==
  ASSUME X!IndInv, pc = "notify", pc' = X!AfterNotify, job' = job,
         UNCHANGED << chain, forks, events, cursor, sync, memory, casFailures, other, rebuilds, uncleaned >>,
         faults' \in 0..MaxFaults, steps' \in Rows(faults'), forgone \subseteq forgone', forgone' \subseteq X!AllKeys,
         deliveries' \in [ X!AllKeys -> {"none", "live", "invalidated"} ],
         \A k \in X!AllKeys : deliveries[k] # "none" => deliveries'[k] # "none",
         \A k \in X!AllKeys : deliveries'[k] = "live" => deliveries[k] = "live" \/ k \in X!Keys(job.events),
         \A k \in X!Pending : k \in X!Pending' \/ k \in X!Keys(job.events),
         \A s \in steps' : s.events = job.events \/ \E t \in steps : s.events = t.events,
         \A k \in X!Keys(job.events) : deliveries'[k] # "none" \/ k \in X!Pending' \cup forgone'
  PROVE  X!IndInv'
<1>0. X!Types /\ X!RoundInv /\ X!OwedInv /\ X!GhostInv
  BY DEF X!IndInv
<1>1. pc' \in { "automation", "hash" } /\ (pc' = "automation" <=> job.rebuild)
  BY <1>0, JobNumbers DEF X!AfterNotify
<1>2. X!Types'
  BY <1>0, <1>1 DEF X!Types, X!Labels, X!InUpdate, X!InRebuild, Rows
<1>3. X!Notifying \subseteq X!Keys(job.events) /\ X!Notifying' = {}
  BY <1>1 DEF X!Notifying, X!At
<1>4. /\ X!ChainInv' /\ X!CursorInv' /\ X!BehindCursor' = X!BehindCursor /\ X!NotificationsOwed'
      /\ X!Keys(X!BehindCursor)' = X!Keys(X!BehindCursor)
  BY <1>3, OwedFrame
<1>5. X!OwedInv'
  <2>1. \A e \in job.events : X!Key(e) \in X!Keys(job.events)
    BY DEF X!Keys
  <2>2. \A e \in job'.events : X!Owed(X!Key(e))'
    BY <2>1 DEF X!Owed, X!Key
  <2> QED BY <1>4, <2>2 DEF X!OwedInv
<1>6. X!RoundInv'
  <2>1. X!MemoryInv'
    BY <1>0, <1>1 DEF X!RoundInv, X!MemoryInv
  <2>2. X!RefreshInv'
    BY <1>1 DEF X!RefreshInv, X!InRefresh, X!InClean, X!InSweep
  <2>3. X!UpdateInv'
    <3>1. X!OnCanonicalCursor => X!OnCanonicalCursor'
      BY DEF X!OnCanonicalCursor, X!OnCursor, X!OnChain
    <3> QED BY <1>0, <1>1, <3>1 DEF X!RoundInv, X!UpdateInv, X!UpTo
  <2>4. X!RebuildInv'
    BY <1>0, <1>1, <1>4 DEF X!RoundInv, X!RebuildInv, X!InRebuild, X!Cursor
  <2> QED BY <2>1, <2>2, <2>3, <2>4 DEF X!RoundInv
<1>7. X!GhostInv'
  <2> SUFFICES ASSUME ~uncleaned PROVE X!GhostInv'
    BY DEF X!GhostInv
  <2>1. X!InHand = {} /\ X!ToClear({ "invalidate" }) = {} /\ X!ToClear(X!InClean) = {}
    BY DEF X!InHand, X!ToClear, X!InClean
  <2>2. /\ X!Live \subseteq X!Keys(X!BehindCursor)
        /\ \A s \in steps : X!Keys(s.events) \subseteq X!Keys(X!BehindCursor)
    BY <1>0, <2>1 DEF X!GhostInv
  <2>3. X!Keys(job.events) \subseteq X!Keys(X!BehindCursor) \cup X!InHand'
    <3>1. CASE job.rebuild
      BY <1>0, <3>1 DEF X!RoundInv, X!RebuildInv, X!Keys
    <3>2. CASE ~job.rebuild
      BY <1>0, <1>1, <3>2, JobNumbers, PendingKeys DEF X!InHand
    <3> QED BY <3>1, <3>2
  <2>4. X!Live' \subseteq X!Live \cup X!Keys(job.events)
    BY DEF X!Live
  <2>5. X!Live' \subseteq X!Keys(X!BehindCursor)' \cup X!InHand'
    BY <1>4, <2>2, <2>3, <2>4
  <2>6. \A s \in steps' : X!Keys(s.events)' \subseteq X!Keys(X!BehindCursor)' \cup X!InHand'
    BY <1>4, <2>2, <2>3, PendingKeys
  <2> QED BY <1>1, <2>5, <2>6 DEF X!GhostInv
<1> QED BY <1>2, <1>4, <1>5, <1>6, <1>7 DEF X!IndInv

LEMMA NotifyDeliveredStep ==
  ASSUME X!IndInv, X!NotifyDelivered
  PROVE  X!IndInv'
<1>0. /\ X!Types /\ pc = "notify" /\ pc' = X!AfterNotify /\ job' = job
      /\ UNCHANGED << chain, forks, events, cursor, sync, memory, casFailures, other, faults, rebuilds, uncleaned >>
      /\ deliveries' = X!processSignalSubmittedEvents(job.events) /\ forgone' = forgone \cup X!PassedOver
      /\ steps' = IF job.todo # {} THEN X!deletePendingPostCommitStep(steps, job.events) ELSE steps
  BY DEF X!NotifyDelivered, X!IndInv, X!At, X!Goto, X!chainVars
<1>1. job.events \subseteq X!Events
  BY <1>0, JobNumbers
<1>2. /\ deliveries' \in [ X!AllKeys -> {"none", "live", "invalidated"} ]
      /\ \A k \in X!AllKeys : deliveries[k] # "none" => deliveries'[k] # "none"
      /\ \A k \in X!AllKeys : deliveries'[k] = "live" => deliveries[k] = "live" \/ k \in X!Keys(job.events)
      /\ \A e \in job.events : e.h <= sync => deliveries'[X!Key(e)] # "none"
  BY <1>0, <1>1, Delivered
<1>3. /\ steps' \subseteq steps
      /\ \A s \in steps \ steps' : X!Keys(s.events) = X!Keys(job.events)
  BY <1>0, Removed
<1>4. faults' \in 0..MaxFaults /\ steps' \in Rows(faults')
  BY <1>0, <1>3 DEF X!Types, Rows
<1>5. forgone \subseteq forgone' /\ forgone' \subseteq X!AllKeys
  <2>1. forgone \subseteq X!AllKeys /\ \A e \in job.events : X!Key(e) \in X!AllKeys
    BY <1>0, <1>1, KeyShape DEF X!Types
  <2> QED BY <1>0, <2>1 DEF X!PassedOver
<1>6. \A k \in X!Pending : k \in X!Pending' \/ k \in X!Keys(job.events)
  BY <1>3, PendingKeys
<1>7. ASSUME NEW k \in X!Keys(job.events)
      PROVE  deliveries'[k] # "none" \/ k \in forgone'
  <2>1. PICK e \in job.events : k = X!Key(e) /\ X!Key(e) \in X!AllKeys
    BY <1>1, KeyShape DEF X!Keys
  <2>2. sync \in Int /\ e.h \in Int
    <3>1. sync \in 0..MaxHeight /\ e.h \in 1..MaxHeight
      BY <1>0, <1>1, <2>1, LogBounds, KeyShape DEF X!Types
    <3> QED BY <3>1
  <2>3. CASE e.h <= sync
    BY <1>2, <2>1, <2>3
  <2>4. CASE e.h > sync
    BY <1>0, <1>2, <2>1, <2>4 DEF X!PassedOver
  <2> QED BY <2>2, <2>3, <2>4
<1>8. \A s \in steps' : s.events = job.events \/ \E t \in steps : s.events = t.events
  BY <1>3
<1> QED BY <1>0, <1>2, <1>4, <1>5, <1>6, <1>7, <1>8, NotifiedFrame

LEMMA NotifyPersistedStep ==
  ASSUME X!IndInv, X!NotifyPersisted
  PROVE  X!IndInv'
<1>0. /\ X!Types /\ pc = "notify" /\ pc' = X!AfterNotify /\ job' = job
      /\ faults < MaxFaults /\ faults' = faults + 1
      /\ UNCHANGED << chain, forks, events, cursor, sync, memory, casFailures, other, rebuilds, forgone, uncleaned >>
      /\ steps' = X!recordPendingPostCommitAttempt(X!savePendingPostCommitStep(steps, job.events), job.events)
  BY DEF X!NotifyPersisted, X!IndInv, X!At, X!Goto, X!chainVars, X!Fault
<1>1. PICK es \in SUBSET job.events : deliveries' = X!processSignalSubmittedEvents(es)
  BY DEF X!NotifyPersisted
<1>2. job.events \subseteq X!Events /\ es \subseteq X!Events /\ X!Keys(es) \subseteq X!Keys(job.events)
  BY <1>0, JobNumbers DEF X!Keys
<1>3. /\ deliveries' \in [ X!AllKeys -> {"none", "live", "invalidated"} ]
      /\ \A k \in X!AllKeys : deliveries[k] # "none" => deliveries'[k] # "none"
      /\ \A k \in X!AllKeys : deliveries'[k] = "live" => deliveries[k] = "live" \/ k \in X!Keys(job.events)
  BY <1>0, <1>1, <1>2, Delivered
<1>4. faults \in Nat /\ faults' \in 0..MaxFaults /\ steps \in Rows(faults)
  <2>1. faults \in 0..MaxFaults /\ MaxFaults \in Nat
    BY <1>0, LogBounds DEF X!Types
  <2> QED BY <1>0, <2>1 DEF X!Types, Rows
<1>5. /\ steps' \in Rows(faults')
      /\ \A t \in steps' : t.events = job.events \/ \E s \in steps : t.events = s.events
      /\ \A s \in steps : \E t \in steps' : t.events = s.events
      /\ \E t \in steps' : X!Keys(t.events) = X!Keys(job.events)
  BY <1>0, <1>2, <1>4, Persisted
<1>6. (\A k \in X!Pending : k \in X!Pending') /\ \A k \in X!Keys(job.events) : k \in X!Pending'
  BY <1>5, PendingKeys
<1>7. forgone' \subseteq X!AllKeys
  BY <1>0 DEF X!Types
<1> QED BY <1>0, <1>3, <1>4, <1>5, <1>6, <1>7, NotifiedFrame

LEMMA NotifyLostStep ==
  ASSUME X!IndInv, X!NotifyLost
  PROVE  X!IndInv'
<1>0. /\ X!Types /\ pc = "notify" /\ pc' = X!AfterNotify /\ job' = job
      /\ faults < MaxFaults /\ faults' = faults + 1 /\ forgone' = forgone \cup X!Keys(job.events)
      /\ UNCHANGED << chain, forks, events, cursor, sync, steps, deliveries, memory, casFailures, other, rebuilds,
                      uncleaned >>
  BY DEF X!NotifyLost, X!IndInv, X!At, X!Goto, X!chainVars, X!storeVars, X!Fault
<1>1. faults' \in 0..MaxFaults /\ steps' \in Rows(faults') /\ deliveries' \in [ X!AllKeys -> {"none", "live", "invalidated"} ]
  <2>1. faults \in 0..MaxFaults /\ MaxFaults \in Nat /\ steps \subseteq X!Step /\ (\A s \in steps : s.attempts <= faults)
        /\ deliveries \in [ X!AllKeys -> {"none", "live", "invalidated"} ]
    BY <1>0, LogBounds DEF X!Types
  <2>2. \A s \in steps : s.attempts \in Int
    BY <2>1, LogBounds DEF X!Step
  <2> QED BY <1>0, <2>1, <2>2 DEF Rows
<1>2. forgone' \subseteq X!AllKeys
  BY <1>0, JobNumbers, KeysShape DEF X!Types
<1>3. X!Pending' = X!Pending
  BY <1>0, PendingKeys
<1> QED BY <1>0, <1>1, <1>2, <1>3, NotifiedFrame

(* A step of the queue was listed while its events lay behind the cursor.  *)
LEMMA SweptFrame ==
  ASSUME X!IndInv, NEW s \in job.todo, pc = "sweeping", pc' = "sweeping", job' = [ job EXCEPT !.todo = @ \ {s} ],
         UNCHANGED << chain, forks, events, cursor, sync, memory, casFailures, other, rebuilds, uncleaned >>,
         faults' \in 0..MaxFaults, steps' \in Rows(faults'), forgone \subseteq forgone', forgone' \subseteq X!AllKeys,
         deliveries' \in [ X!AllKeys -> {"none", "live", "invalidated"} ],
         \A k \in X!AllKeys : deliveries[k] # "none" => deliveries'[k] # "none",
         \A k \in X!AllKeys : deliveries'[k] = "live" => deliveries[k] = "live" \/ k \in X!Keys(s.events),
         \A k \in X!Pending : k \in X!Pending' \/ deliveries'[k] # "none" \/ k \in forgone',
         \A t \in steps' : \E u \in steps : t.events = u.events
  PROVE  X!IndInv'
<1>0. X!Types /\ X!RoundInv /\ X!GhostInv
  BY DEF X!IndInv
<1>1. job' \in X!Job /\ job'.todo = job.todo \ {s} /\ X!RoundInv'
  BY <1>0, SweepOn DEF X!Types
<1>2. X!Types'
  BY <1>0, <1>1 DEF X!Types, X!Labels, X!InSweep, X!InRebuild, Rows
<1>3. X!Notifying = {} /\ X!Notifying' = {}
  BY DEF X!Notifying, X!At
<1>4. /\ X!ChainInv' /\ X!CursorInv' /\ X!NotificationsOwed'
      /\ X!Keys(X!BehindCursor)' = X!Keys(X!BehindCursor)
  BY <1>3, OwedFrame
<1>5. X!OwedInv'
  BY <1>4 DEF X!OwedInv
<1>6. X!GhostInv'
  <2> SUFFICES ASSUME ~uncleaned PROVE X!GhostInv'
    BY DEF X!GhostInv
  <2>1. X!InHand = {} /\ X!ToClear({ "invalidate" }) = {} /\ X!ToClear(X!InClean) = {}
    BY DEF X!InHand, X!ToClear, X!InClean
  <2>2. /\ X!Live \subseteq X!Keys(X!BehindCursor)
        /\ \A u \in steps : X!Keys(u.events) \subseteq X!Keys(X!BehindCursor)
        /\ \A u \in job.todo : X!Keys(u.events) \subseteq X!Keys(X!BehindCursor)
    BY <1>0, <2>1 DEF X!GhostInv
  <2>3. X!Live' \subseteq X!Live \cup X!Keys(s.events)
    BY DEF X!Live
  <2>4. X!Live' \subseteq X!Keys(X!BehindCursor)'
    BY <1>4, <2>2, <2>3
  <2>5. \A t \in steps' : X!Keys(t.events)' \subseteq X!Keys(X!BehindCursor)'
    <3>1. ASSUME NEW t \in steps' PROVE X!Keys(t.events) \subseteq X!Keys(X!BehindCursor)
      <4>1. PICK u \in steps : t.events = u.events
        OBVIOUS
      <4>2. X!Keys(t.events) = X!Keys(u.events)
        BY <4>1
      <4> QED BY <2>2, <4>2
    <3> QED BY <1>4, <3>1, PendingKeys
  <2>6. \A u \in job'.todo : X!Keys(u.events)' \subseteq X!Keys(X!BehindCursor)'
    BY <1>1, <1>4, <2>2, PendingKeys
  <2> QED BY <2>4, <2>5, <2>6 DEF X!GhostInv
<1> QED BY <1>1, <1>2, <1>4, <1>5, <1>6 DEF X!IndInv

(* A step whose events are final is told of, whatever became of its row.   *)
LEMMA Told ==
  ASSUME X!IndInv, NEW s \in job.todo, ~X!WaitsForFinality(s)
  PROVE  LET after == X!processSignalSubmittedEvents(s.events) IN
         /\ s \in X!Step /\ X!Keys(s.events) \subseteq X!AllKeys
         /\ after \in [ X!AllKeys -> {"none", "live", "invalidated"} ]
         /\ \A k \in X!AllKeys : deliveries[k] # "none" => after[k] # "none"
         /\ \A k \in X!AllKeys : after[k] = "live" => deliveries[k] = "live" \/ k \in X!Keys(s.events)
         /\ \A k \in X!Keys(s.events) : after[k] # "none"
<1> DEFINE after == X!processSignalSubmittedEvents(s.events)
<1>1. X!Types /\ s \in X!Step
  <2>1. X!Types
    BY DEF X!IndInv
  <2> QED BY <2>1, JobNumbers
<1>2. s.events \subseteq X!Events
  BY <1>1 DEF X!Step
<1>3. /\ after \in [ X!AllKeys -> {"none", "live", "invalidated"} ]
      /\ \A k \in X!AllKeys : deliveries[k] # "none" => after[k] # "none"
      /\ \A k \in X!AllKeys : after[k] = "live" => deliveries[k] = "live" \/ k \in X!Keys(s.events)
      /\ \A e \in s.events : e.h <= sync => after[X!Key(e)] # "none"
  BY <1>1, <1>2, Delivered
<1>4. \A e \in s.events : e.h <= sync
  <2>1. sync \in 0..MaxHeight /\ \A e \in s.events : e.h \in 1..MaxHeight
    BY <1>1, <1>2, LogBounds, KeyShape DEF X!Types
  <2> QED BY <2>1 DEF X!WaitsForFinality
<1>5. \A k \in X!Keys(s.events) : after[k] # "none"
  BY <1>3, <1>4 DEF X!Keys
<1> QED BY <1>1, <1>2, <1>3, <1>5, KeysShape

LEMMA SweepDeliversStep ==
  ASSUME X!IndInv, NEW s \in job.todo, X!SweepDelivers(s)
  PROVE  X!IndInv'
<1>0. /\ X!Types /\ pc = "sweeping" /\ pc' = "sweeping" /\ job' = [ job EXCEPT !.todo = @ \ {s} ]
      /\ ~X!WaitsForFinality(s)
      /\ deliveries' = X!processSignalSubmittedEvents(s.events)
      /\ steps' = X!deletePendingPostCommitStep(steps, s.events)
      /\ UNCHANGED << chain, forks, events, cursor, sync, memory, casFailures, other, faults, rebuilds, forgone,
                      uncleaned >>
  BY DEF X!SweepDelivers, X!IndInv, X!At, X!Goto, X!Next1, X!chainVars, X!histVars
<1>1. /\ deliveries' \in [ X!AllKeys -> {"none", "live", "invalidated"} ]
      /\ \A k \in X!AllKeys : deliveries[k] # "none" => deliveries'[k] # "none"
      /\ \A k \in X!AllKeys : deliveries'[k] = "live" => deliveries[k] = "live" \/ k \in X!Keys(s.events)
      /\ \A k \in X!Keys(s.events) : deliveries'[k] # "none"
  BY <1>0, Told
<1>2. steps' \subseteq steps /\ \A t \in steps \ steps' : X!Keys(t.events) = X!Keys(s.events)
  BY <1>0, Removed
<1>3. faults' \in 0..MaxFaults /\ steps' \in Rows(faults') /\ forgone' \subseteq X!AllKeys
  BY <1>0, <1>2 DEF X!Types, Rows
<1>4. \A k \in X!Pending : k \in X!Pending' \/ deliveries'[k] # "none"
  BY <1>1, <1>2, PendingKeys
<1>5. \A t \in steps' : \E u \in steps : t.events = u.events
  BY <1>2
<1> QED BY <1>0, <1>1, <1>3, <1>4, <1>5, SweptFrame

LEMMA SweepFailsStep ==
  ASSUME X!IndInv, NEW s \in job.todo, X!SweepFails(s)
  PROVE  X!IndInv'
<1>0. /\ X!Types /\ pc = "sweeping" /\ pc' = "sweeping" /\ job' = [ job EXCEPT !.todo = @ \ {s} ]
      /\ ~X!WaitsForFinality(s) /\ faults < MaxFaults /\ faults' = faults + 1
      /\ deliveries' \in { deliveries, X!processSignalSubmittedEvents(s.events) }
      /\ \/ /\ steps' = X!deletePendingPostCommitStep(steps, s.events)
            /\ forgone' = forgone \cup X!Keys(s.events)
         \/ /\ steps' = X!recordPendingPostCommitAttempt(steps, s.events)
            /\ forgone' = forgone
      /\ UNCHANGED << chain, forks, events, cursor, sync, memory, casFailures, other, rebuilds, uncleaned >>
  BY DEF X!SweepFails, X!IndInv, X!At, X!Goto, X!Next1, X!chainVars, X!Fault
<1>1. /\ deliveries' \in [ X!AllKeys -> {"none", "live", "invalidated"} ]
      /\ \A k \in X!AllKeys : deliveries[k] # "none" => deliveries'[k] # "none"
      /\ \A k \in X!AllKeys : deliveries'[k] = "live" => deliveries[k] = "live" \/ k \in X!Keys(s.events)
  <2>1. CASE deliveries' = deliveries
    BY <1>0, <2>1 DEF X!Types
  <2>2. CASE deliveries' = X!processSignalSubmittedEvents(s.events)
    BY <1>0, <2>2, Told
  <2> QED BY <1>0, <2>1, <2>2
<1>2. faults \in Nat /\ faults' \in 0..MaxFaults /\ steps \in Rows(faults)
  <2>1. faults \in 0..MaxFaults /\ MaxFaults \in Nat
    BY <1>0, LogBounds DEF X!Types
  <2> QED BY <1>0, <2>1 DEF X!Types, Rows
<1>3. X!Keys(s.events) \subseteq X!AllKeys /\ forgone \subseteq X!AllKeys
  BY <1>0, Told DEF X!Types
<1>4. CASE /\ steps' = X!deletePendingPostCommitStep(steps, s.events)
           /\ forgone' = forgone \cup X!Keys(s.events)
  <2>1. steps' \subseteq steps /\ \A t \in steps \ steps' : X!Keys(t.events) = X!Keys(s.events)
    BY <1>4, Removed
  <2>2. \A t \in steps : t.attempts \in Int
    BY <1>2, LogBounds DEF Rows, X!Step
  <2>3. steps' \in Rows(faults')
    BY <1>0, <1>2, <2>1, <2>2 DEF Rows
  <2>4. \A k \in X!Pending : k \in X!Pending' \/ k \in forgone'
    BY <1>4, <2>1, PendingKeys
  <2>5. \A t \in steps' : \E u \in steps : t.events = u.events
    BY <2>1
  <2> QED BY <1>0, <1>1, <1>2, <1>3, <1>4, <2>3, <2>4, <2>5, SweptFrame
<1>5. CASE /\ steps' = X!recordPendingPostCommitAttempt(steps, s.events)
           /\ forgone' = forgone
  <2>1. /\ steps' \in Rows(faults')
        /\ \A t \in steps' : \E u \in steps : t.events = u.events
        /\ \A u \in steps : \E t \in steps' : t.events = u.events
    BY <1>0, <1>2, <1>5, Counted
  <2>2. \A k \in X!Pending : k \in X!Pending'
    BY <2>1, PendingKeys
  <2> QED BY <1>0, <1>1, <1>2, <1>3, <1>5, <2>1, <2>2, SweptFrame
<1> QED BY <1>0, <1>4, <1>5

(* The clean-ups of a rollback.                                            *)
LEMMA InvalidateStep ==
  ASSUME X!IndInv, X!InvalidateNotifications
  PROVE  X!IndInv'
<1>0. /\ X!Types /\ X!RoundInv /\ X!GhostInv /\ pc = "invalidate" /\ pc' = "trim" /\ job' = job
      /\ deliveries' = X!invalidateDeliveriesAboveBlock(job.hash[1])
      /\ UNCHANGED << chain, forks, events, cursor, sync, steps, memory, casFailures, other, faults, rebuilds,
                      forgone, uncleaned >>
  BY DEF X!InvalidateNotifications, X!IndInv, X!At, X!Goto, X!chainVars, X!histVars
<1>1. /\ deliveries' \in [ X!AllKeys -> {"none", "live", "invalidated"} ]
      /\ \A k \in X!AllKeys : deliveries[k] # "none" => deliveries'[k] # "none"
      /\ \A k \in X!AllKeys : deliveries'[k] = "live" => deliveries[k] = "live" /\ ~(k[1] > job.hash[1])
  <2>1. deliveries \in [ X!AllKeys -> {"none", "live", "invalidated"} ]
    BY <1>0 DEF X!Types
  <2> HIDE DEF X!AllKeys
  <2> QED BY <1>0, <2>1 DEF X!invalidateDeliveriesAboveBlock
<1>2. X!Types'
  BY <1>0, <1>1 DEF X!Types, X!Labels, X!InClean, X!InRebuild
<1>3. X!Notifying = {} /\ X!Pending' = X!Pending
  BY <1>0 DEF X!Notifying, X!At, X!Pending
<1>4. /\ X!ChainInv' /\ X!CursorInv' /\ X!NotificationsOwed'
      /\ X!Keys(X!BehindCursor)' = X!Keys(X!BehindCursor)
  BY <1>0, <1>1, <1>3, OwedFrame
<1>5. X!OwedInv'
  BY <1>0, <1>4 DEF X!OwedInv
<1>6. X!RoundInv'
  <2>1. X!MemoryInv' /\ X!UpdateInv' /\ X!RebuildInv'
    BY <1>0 DEF X!RoundInv, X!MemoryInv, X!UpdateInv, X!RebuildInv, X!InRebuild
  <2>2. X!RefreshInv'
    BY <1>0 DEF X!RoundInv, X!RefreshInv, X!InRefresh, X!InClean, X!InSweep,
                X!OnCanonicalCursor, X!OnCursor, X!OnChain
  <2> QED BY <2>1, <2>2 DEF X!RoundInv
<1>7. X!GhostInv'
  <2> SUFFICES ASSUME ~uncleaned PROVE X!GhostInv'
    BY <1>0 DEF X!GhostInv
  <2>1. /\ X!InHand = {} /\ X!InHand' = {} /\ X!ToClear({ "invalidate" })' = {}
        /\ X!ToClear({ "invalidate" }) = { k \in X!AllKeys : k[1] > job.hash[1] }
        /\ X!ToClear(X!InClean)' = X!ToClear(X!InClean)
    BY <1>0 DEF X!InHand, X!ToClear, X!InClean, X!AllKeys
  <2>2. /\ X!Live \subseteq X!Keys(X!BehindCursor) \cup X!ToClear({ "invalidate" })
        /\ \A s \in steps : X!Keys(s.events) \subseteq X!Keys(X!BehindCursor) \cup X!ToClear(X!InClean)
    BY <1>0, <2>1 DEF X!GhostInv
  <2>3. X!Live' \subseteq X!Keys(X!BehindCursor)'
    <3>1. \A k \in X!Live' : k \in X!Live /\ ~(k[1] > job.hash[1])
      BY <1>1 DEF X!Live, X!AllKeys
    <3> QED BY <1>4, <2>1, <2>2, <3>1
  <2>4. \A s \in steps' : X!Keys(s.events)' \subseteq X!Keys(X!BehindCursor)' \cup X!ToClear(X!InClean)'
    BY <1>0, <1>4, <2>1, <2>2, PendingKeys
  <2> QED BY <1>0, <2>3, <2>4 DEF X!GhostInv
<1> QED BY <1>2, <1>4, <1>5, <1>6, <1>7 DEF X!IndInv

LEMMA CleanupGivenUpStep ==
  ASSUME X!IndInv, X!CleanupGivenUp
  PROVE  X!IndInv'
<1>0. /\ X!Types /\ X!RoundInv /\ pc \in { "invalidate", "trim" } /\ job' = job
      /\ pc' = (IF pc = "invalidate" THEN "trim" ELSE "sweep")
      /\ faults < MaxFaults /\ faults' = faults + 1 /\ uncleaned' = TRUE
      /\ UNCHANGED << chain, forks, events, cursor, sync, steps, deliveries, memory, casFailures, other, rebuilds,
                      forgone >>
  BY DEF X!CleanupGivenUp, X!IndInv, X!At, X!Goto, X!chainVars, X!storeVars, X!Fault
<1>1. pc' \in { "trim", "sweep" }
  BY <1>0
<1>2. X!Types'
  <2>1. faults \in 0..MaxFaults /\ MaxFaults \in Nat /\ steps \subseteq X!Step /\ \A s \in steps : s.attempts <= faults
    BY <1>0, LogBounds DEF X!Types
  <2>2. \A s \in steps : s.attempts \in Int
    BY <2>1, LogBounds DEF X!Step
  <2>3. faults' \in 0..MaxFaults /\ \A s \in steps : s.attempts <= faults'
    BY <1>0, <2>1, <2>2
  <2>4. pc' \in X!Labels /\ pc' \notin X!InRebuild
    BY <1>1 DEF X!Labels, X!InClean, X!InSweep, X!InRebuild
  <2> QED BY <1>0, <2>3, <2>4 DEF X!Types
<1>3. X!Notifying = {} /\ X!Pending' = X!Pending
  BY <1>0 DEF X!Notifying, X!At, X!Pending
<1>4. X!ChainInv' /\ X!CursorInv' /\ X!NotificationsOwed'
  BY <1>0, <1>3, OwedFrame
<1>5. X!OwedInv'
  BY <1>1, <1>4 DEF X!OwedInv
<1>6. X!RoundInv'
  <2>1. X!MemoryInv' /\ X!UpdateInv' /\ X!RebuildInv'
    BY <1>0, <1>1 DEF X!RoundInv, X!MemoryInv, X!UpdateInv, X!RebuildInv, X!InRebuild
  <2>2. X!RefreshInv'
    BY <1>0, <1>1 DEF X!RoundInv, X!RefreshInv, X!InRefresh, X!InClean, X!InSweep,
                      X!OnCanonicalCursor, X!OnCursor, X!OnChain
  <2> QED BY <2>1, <2>2 DEF X!RoundInv
<1>7. X!GhostInv'
  BY <1>0 DEF X!GhostInv
<1> QED BY <1>2, <1>4, <1>5, <1>6, <1>7 DEF X!IndInv

(* What is left of the queue after the trim: nothing above the ancestor,   *)
(* and everything up to it.                                                *)
LEMMA TrimmedQueue ==
  ASSUME X!Types, X!TrimPendingSteps, NEW a, a = job.hash[1]
  PROVE  /\ steps' \in Rows(faults)
         /\ \A t \in steps' : /\ \A e \in t.events : e.h <= a
                              /\ \E s \in steps : t.events \subseteq s.events
         /\ \A s \in steps : \A e \in s.events :
              e.h <= a => \E t \in steps' : X!Key(e) \in X!Keys(t.events)
<1> DEFINE kept == { s \in steps : X!Untouched(s, a) }
           added == { [ events |-> es, attempts |-> 0 ] :
                        es \in { x \in X!Trimmed(a) : \A s \in kept : ~X!SameStep(s, x) } }
<1>1. steps' = kept \cup added
  BY DEF X!TrimPendingSteps
<1>2. faults \in Nat /\ steps \subseteq X!Step /\ (\A s \in steps : s.attempts <= faults /\ s.events \subseteq X!Events)
  <2>1. faults \in 0..MaxFaults /\ MaxFaults \in Nat /\ steps \subseteq X!Step /\ \A s \in steps : s.attempts <= faults
    BY LogBounds DEF X!Types
  <2> QED BY <2>1 DEF X!Step
<1>3. \A x \in X!Trimmed(a) : \E s \in steps : x = X!Surviving(s, a)
  BY DEF X!Trimmed
<1>4. ASSUME NEW t \in kept
      PROVE  t \in steps /\ \A e \in t.events : e.h <= a
  BY <1>4 DEF X!Untouched, X!Surviving
<1>5. ASSUME NEW t \in added
      PROVE  /\ t \in X!Step /\ t.attempts <= faults
             /\ \A e \in t.events : e.h <= a
             /\ \E s \in steps : t.events \subseteq s.events
  <2>1. PICK x \in X!Trimmed(a) : t = [ events |-> x, attempts |-> 0 ]
    OBVIOUS
  <2>2. PICK s \in steps : x = X!Surviving(s, a)
    BY <1>3
  <2>3. x \subseteq s.events /\ (\A e \in x : e.h <= a) /\ x \subseteq X!Events
    BY <1>2, <2>2 DEF X!Surviving
  <2>4. t \in X!Step /\ t.attempts <= faults
    BY <1>2, <2>1, <2>3, LogBounds DEF X!Step
  <2> QED BY <2>1, <2>2, <2>3, <2>4
<1>6. ASSUME NEW s \in steps, NEW e \in s.events, e.h <= a
      PROVE  \E t \in steps' : X!Key(e) \in X!Keys(t.events)
  <2>0. e \in X!Surviving(s, a) /\ X!Key(e) \in X!Keys(X!Surviving(s, a))
    BY <1>6 DEF X!Surviving, X!Keys
  <2>1. CASE X!Untouched(s, a)
    BY <1>1, <2>0, <2>1 DEF X!Untouched
  <2>2. CASE ~X!Untouched(s, a)
    <3>1. X!Surviving(s, a) \in X!Trimmed(a)
      BY <2>0, <2>2 DEF X!Trimmed
    <3>2. CASE \E u \in kept : X!SameStep(u, X!Surviving(s, a))
      <4>1. PICK u \in kept : X!Keys(u.events) = X!Keys(X!Surviving(s, a))
        BY <3>2 DEF X!SameStep
      <4> QED BY <1>1, <2>0, <4>1
    <3>3. CASE \A u \in kept : ~X!SameStep(u, X!Surviving(s, a))
      <4> DEFINE t == [ events |-> X!Surviving(s, a), attempts |-> 0 ]
      <4>1. t \in added /\ t.events = X!Surviving(s, a)
        BY <3>1, <3>3
      <4> QED BY <1>1, <2>0, <4>1
    <3> QED BY <3>2, <3>3
  <2> QED BY <2>1, <2>2
<1> HIDE DEF kept, added
<1>7. steps' \in Rows(faults)
  BY <1>1, <1>2, <1>4, <1>5 DEF Rows
<1> QED BY <1>1, <1>4, <1>5, <1>6, <1>7

LEMMA TrimStep ==
  ASSUME X!IndInv, X!TrimPendingSteps
  PROVE  X!IndInv'
<1> DEFINE a == job.hash[1]
<1>0. /\ X!Types /\ X!CursorInv /\ X!RoundInv /\ X!GhostInv /\ pc = "trim" /\ pc' = "sweep" /\ job' = job
      /\ UNCHANGED << chain, forks, events, cursor, sync, deliveries, memory, casFailures, other, faults, rebuilds,
                      forgone, uncleaned >>
  BY DEF X!TrimPendingSteps, X!IndInv, X!At, X!Goto, X!chainVars, X!histVars
<1>1. /\ steps' \in Rows(faults)
      /\ \A t \in steps' : /\ \A e \in t.events : e.h <= a
                           /\ \E s \in steps : t.events \subseteq s.events
      /\ \A s \in steps : \A e \in s.events : e.h <= a => \E t \in steps' : X!Key(e) \in X!Keys(t.events)
  BY <1>0, TrimmedQueue
<1>2. X!OnCanonicalCursor /\ job.hash = cursor.hash /\ cursor.next = a + 1 /\ a \in Int
  <2>1. X!OnCanonicalCursor /\ job.hash = cursor.hash /\ cursor.next = cursor.hash[1] + 1
    BY <1>0 DEF X!RoundInv, X!RefreshInv, X!InClean, X!CursorInv, X!OnCanonicalCursor, X!OnCursor
  <2>2. cursor.hash[1] \in 0..MaxHeight
    BY <1>0, JobNumbers
  <2> QED BY <2>1, <2>2
<1>3. (\A s \in steps : s.events \subseteq X!Events) /\ X!BehindCursor \subseteq X!Events
      /\ \A e \in X!BehindCursor : e.h <= a
  <2>1. events \subseteq X!Events /\ steps \subseteq X!Step
    BY <1>0 DEF X!Types
  <2>2. \A e \in events : e.h \in Int
    BY <2>1, KeyShape
  <2> QED BY <1>2, <2>1, <2>2 DEF X!Step, X!BehindCursor
<1> HIDE DEF a
<1>4. X!Types'
  BY <1>0, <1>1 DEF X!Types, X!Labels, X!InSweep, X!InRebuild, Rows
<1>5. ASSUME NEW k \in X!Keys(X!BehindCursor), k \in X!Pending
      PROVE  k \in X!Pending'
  <2>1. PICK d \in X!BehindCursor : k[1] = d.h
    BY <1>3, KeysShape
  <2>2. PICK s \in steps : k \in X!Keys(s.events)
    BY <1>5, PendingKeys
  <2>3. PICK e \in s.events : k = X!Key(e) /\ k[1] = e.h
    BY <1>3, <2>2, KeysShape
  <2>4. e.h <= a
    BY <1>3, <2>1, <2>3
  <2> QED BY <1>1, <2>3, <2>4, PendingKeys
<1>6. /\ X!ChainInv' /\ X!CursorInv' /\ X!NotificationsOwed'
      /\ X!Keys(X!BehindCursor)' = X!Keys(X!BehindCursor)
  <2>1. X!Notifying = {}
    BY <1>0 DEF X!Notifying, X!At
  <2> QED BY <1>0, <1>5, <2>1, OwedFrame
<1>7. X!OwedInv'
  BY <1>0, <1>6 DEF X!OwedInv
<1>8. X!RoundInv'
  <2>1. X!MemoryInv' /\ X!UpdateInv' /\ X!RebuildInv'
    BY <1>0 DEF X!RoundInv, X!MemoryInv, X!UpdateInv, X!RebuildInv, X!InRebuild
  <2>2. X!RefreshInv'
    BY <1>0 DEF X!RoundInv, X!RefreshInv, X!InRefresh, X!InClean, X!InSweep,
                X!OnCanonicalCursor, X!OnCursor, X!OnChain
  <2> QED BY <2>1, <2>2 DEF X!RoundInv
<1>9. X!GhostInv'
  <2> SUFFICES ASSUME ~uncleaned PROVE X!GhostInv'
    BY <1>0 DEF X!GhostInv
  <2>1. /\ X!InHand = {} /\ X!ToClear({ "invalidate" }) = {} /\ X!Live' = X!Live
        /\ X!ToClear(X!InClean) = { k \in X!AllKeys : k[1] > a }
    BY <1>0 DEF X!InHand, X!ToClear, X!InClean, X!Live, a
  <2>2. /\ X!Live \subseteq X!Keys(X!BehindCursor)
        /\ \A s \in steps : X!Keys(s.events) \subseteq X!Keys(X!BehindCursor) \cup X!ToClear(X!InClean)
    BY <1>0, <2>1 DEF X!GhostInv
  <2>3. ASSUME NEW t \in steps', NEW k \in X!Keys(t.events)
        PROVE  k \in X!Keys(X!BehindCursor)
    <3>1. PICK s \in steps : t.events \subseteq s.events
      BY <1>1
    <3>2. t.events \subseteq X!Events
      BY <1>3, <3>1
    <3>3. PICK e \in t.events : k = X!Key(e) /\ k[1] = e.h /\ e.h \in 1..MaxHeight
      BY <3>2, KeysShape, KeyShape
    <3>4. k \in X!Keys(s.events)
      BY <3>1, <3>3 DEF X!Keys
    <3>5. ~(k[1] > a)
      BY <1>1, <1>2, <3>3
    <3> QED BY <2>1, <2>2, <3>4, <3>5
  <2>4. \A t \in steps' : X!Keys(t.events)' \subseteq X!Keys(X!BehindCursor)'
    BY <1>6, <2>3, PendingKeys
  <2>5. X!Live' \subseteq X!Keys(X!BehindCursor)'
    BY <1>6, <2>1, <2>2
  <2> QED BY <1>0, <2>4, <2>5 DEF X!GhostInv
<1> QED BY <1>4, <1>6, <1>7, <1>8, <1>9 DEF X!IndInv

(* Outside the clean-ups and an update in hand, deliveries and queue lie   *)
(* behind the cursor.                                                      *)
LEMMA AtRest ==
  ASSUME X!IndInv, ~uncleaned, pc \notin { "invalidate", "trim", "hash", "save" }
  PROVE  /\ X!Live \subseteq X!Keys(X!BehindCursor)
         /\ \A s \in steps : \/ X!Keys(s.events) \subseteq X!Keys(X!BehindCursor)
                             \/ pc = "rb_commit" /\ job.todo # {} /\ X!SameStep(s, job.events)
<1>1. X!InHand = {} /\ X!ToClear({ "invalidate" }) = {} /\ X!ToClear(X!InClean) = {}
  BY DEF X!InHand, X!ToClear, X!InClean
<1> QED BY <1>1 DEF X!IndInv, X!GhostInv

(* An operation ends, by itself or not, between two writes of the log.     *)
LEMMA EndFrame ==
  ASSUME X!IndInv, pc' = "idle", job' = X!NoJob, UNCHANGED << chain, forks, events, cursor, other, rebuilds >>,
         casFailures' \in Nat, sync' \in X!Heights, memory' \in { X!NoCursor, cursor },
         faults' \in 0..MaxFaults, steps' \in Rows(faults'), forgone' \subseteq X!AllKeys, uncleaned' \in BOOLEAN,
         deliveries' \in [ X!AllKeys -> {"none", "live", "invalidated"} ],
         \A k \in X!AllKeys : deliveries[k] # "none" => deliveries'[k] # "none",
         \A k \in X!AllKeys : k \in X!Pending \cup forgone \cup X!Notifying
                                => deliveries'[k] # "none" \/ k \in X!Pending' \cup forgone',
         ~uncleaned' => /\ X!Live' \subseteq X!Keys(X!BehindCursor)
                        /\ \A s \in steps' : X!Keys(s.events) \subseteq X!Keys(X!BehindCursor)
  PROVE  X!IndInv'
<1>0. X!Types
  BY DEF X!IndInv
<1>1. X!Types'
  <2>1. X!NoJob \in X!Job /\ cursor \in X!Cursors
    BY <1>0, JobTypes
  <2>2. X!NoCursor \in X!Cursors
    BY LogBounds DEF X!Cursors, X!NoCursor
  <2> QED BY <1>0, <2>1, <2>2 DEF X!Types, X!Labels, X!InRebuild, Rows
<1>2. X!Keys(X!BehindCursor) \subseteq X!AllKeys
  <2>1. X!BehindCursor \subseteq X!Events
    BY <1>0 DEF X!Types, X!BehindCursor
  <2> QED BY <2>1, KeysShape
<1>3. /\ X!ChainInv' /\ X!CursorInv' /\ X!NotificationsOwed'
      /\ X!Keys(X!BehindCursor)' = X!Keys(X!BehindCursor)
  BY <1>2, OwedFrame
<1>4. X!OwedInv'
  BY <1>3 DEF X!OwedInv
<1>5. X!RoundInv'
  BY NothingInHand DEF X!MemoryInv
<1>6. X!GhostInv'
  <2> SUFFICES ASSUME ~uncleaned' PROVE X!GhostInv'
    BY DEF X!GhostInv
  <2>1. X!Live' \subseteq X!Keys(X!BehindCursor)'
    BY <1>3
  <2>2. \A s \in steps' : X!Keys(s.events)' \subseteq X!Keys(X!BehindCursor)'
    BY <1>3, PendingKeys
  <2> QED BY <2>1, <2>2 DEF X!GhostInv
<1> QED BY <1>1, <1>3, <1>4, <1>5, <1>6 DEF X!IndInv

LEMMA FaultCounted ==
  ASSUME X!Types, X!Fault
  PROVE  /\ faults \in Nat /\ faults < MaxFaults /\ faults' = faults + 1 /\ faults' \in 0..MaxFaults
         /\ steps \in Rows(faults) /\ steps \in Rows(faults')
<1>1. faults \in 0..MaxFaults /\ MaxFaults \in Nat /\ faults < MaxFaults /\ faults' = faults + 1
      /\ steps \subseteq X!Step /\ \A s \in steps : s.attempts <= faults
  BY LogBounds DEF X!Types, X!Fault
<1>2. \A s \in steps : s.attempts \in Int
  BY <1>1, LogBounds DEF X!Step
<1>3. faults \in Nat /\ faults' \in 0..MaxFaults /\ \A s \in steps : s.attempts <= faults'
  BY <1>1, <1>2
<1> QED BY <1>1, <1>3 DEF Rows

LEMMA AutomationPersistedStep ==
  ASSUME X!IndInv, X!AutomationPersisted
  PROVE  X!IndInv'
<1>0. /\ X!Types /\ pc = "automation" /\ pc' = "idle" /\ job' = X!NoJob /\ memory' = X!MemoryAfter /\ X!Fault
      /\ steps' = X!recordPendingPostCommitAttempt(X!savePendingPostCommitStep(steps, {}), {})
      /\ UNCHANGED << chain, forks, events, cursor, sync, deliveries, casFailures, other, rebuilds, forgone, uncleaned >>
  BY DEF X!AutomationPersisted, X!Return, X!IndInv, X!At, X!Goto, X!chainVars
<1>1. memory' \in { X!NoCursor, cursor }
  BY <1>0, MemoryAfterwards
<1>2. faults \in Nat /\ faults < MaxFaults /\ faults' = faults + 1 /\ faults' \in 0..MaxFaults /\ steps \in Rows(faults)
  BY <1>0, FaultCounted
<1>3. /\ steps' \in Rows(faults')
      /\ \A t \in steps' : t.events = {} \/ \E s \in steps : t.events = s.events
      /\ \A s \in steps : \E t \in steps' : t.events = s.events
  <2>1. {} \in SUBSET X!Events
    OBVIOUS
  <2> QED BY <1>0, <1>2, <2>1, Persisted
<1>4. \A k \in X!Pending : k \in X!Pending'
  BY <1>3, PendingKeys
<1>5. X!Notifying = {}
  BY <1>0 DEF X!Notifying, X!At
<1>6. ~uncleaned => /\ X!Live' \subseteq X!Keys(X!BehindCursor)
                    /\ \A t \in steps' : X!Keys(t.events) \subseteq X!Keys(X!BehindCursor)
  <2> SUFFICES ASSUME ~uncleaned PROVE /\ X!Live' \subseteq X!Keys(X!BehindCursor)
                    /\ \A t \in steps' : X!Keys(t.events) \subseteq X!Keys(X!BehindCursor)
    OBVIOUS
  <2>1. X!Live' = X!Live
    BY <1>0 DEF X!Live
  <2>2. X!Live \subseteq X!Keys(X!BehindCursor) /\ \A s \in steps : X!Keys(s.events) \subseteq X!Keys(X!BehindCursor)
    BY <1>0, AtRest
  <2>3. ASSUME NEW t \in steps' PROVE X!Keys(t.events) \subseteq X!Keys(X!BehindCursor)
    <3>1. CASE t.events = {}
      BY <3>1 DEF X!Keys
    <3>2. CASE \E s \in steps : t.events = s.events
      <4>1. PICK s \in steps : t.events = s.events
        BY <3>2
      <4>2. X!Keys(t.events) = X!Keys(s.events)
        BY <4>1
      <4> QED BY <2>2, <4>2
    <3> QED BY <1>3, <3>1, <3>2
  <2> QED BY <2>1, <2>2, <2>3
<1>7. casFailures' \in Nat /\ sync' \in X!Heights /\ forgone' \subseteq X!AllKeys /\ uncleaned' \in BOOLEAN
      /\ deliveries' \in [ X!AllKeys -> {"none", "live", "invalidated"} ]
  BY <1>0 DEF X!Types
<1> QED BY <1>0, <1>1, <1>2, <1>3, <1>4, <1>5, <1>6, <1>7, EndFrame

(* A rebuild queues its step before it commits.                            *)
LEMMA StageStep ==
  ASSUME X!IndInv, X!RebuildStage
  PROVE  X!IndInv'
<1> DEFINE staged == IF job.events = {} THEN {} ELSE { [ events |-> job.events, attempts |-> 0 ] }
<1>0. /\ X!Types /\ X!RoundInv /\ pc = "rb_hash" /\ pc' = "rb_commit" /\ job.final <= Len(chain)
      /\ job' = [ job EXCEPT !.hash = X!HashOf(chain, job.final), !.todo = staged ]
      /\ steps' = IF staged = {} THEN steps ELSE X!savePendingPostCommitStep(steps, job.events)
      /\ UNCHANGED << chain, forks, events, cursor, sync, deliveries, memory, casFailures, other,
                      faults, rebuilds, forgone, uncleaned >>
  BY DEF X!RebuildStage, X!IndInv, X!At, X!Goto, X!chainVars, X!histVars
<1>1. /\ job \in X!Job /\ chain \in Chains /\ rebuilds <= MaxRebuilds /\ job.events \subseteq X!Events
      /\ X!HashOf(chain, job.final) \in X!Hashes
  <2>1. job \in X!Job /\ chain \in Chains /\ rebuilds <= MaxRebuilds /\ job.events \subseteq X!Events
    BY <1>0, JobTypes, JobNumbers DEF X!Types, X!InRebuild
  <2> QED BY <1>0, <2>1, LogHash, JobNumbers
<1>2. staged \subseteq X!Step /\ \A s \in staged : s.events = job.events
  BY <1>1, LogBounds DEF X!Step
<1> HIDE DEF staged
<1>3. /\ job' \in X!Job /\ job'.hash = X!HashOf(chain, job.final) /\ job'.next = job.next /\ job'.events = job.events
      /\ job'.from = job.from /\ job'.final = job.final /\ job'.rebuild = job.rebuild /\ job'.todo = staged
  BY <1>0, <1>1, <1>2 DEF X!Job
<1>4. /\ faults \in Nat /\ steps \in Rows(faults) /\ steps' \in Rows(faults)
      /\ \A s \in steps' : s \in steps \/ (staged # {} /\ s.events = job.events)
      /\ \A s \in steps : s \in steps'
      /\ staged # {} => \E s \in steps' : X!Keys(s.events) = X!Keys(job.events)
  <2>1. faults \in Nat /\ steps \in Rows(faults)
    BY <1>0, LogBounds DEF X!Types, Rows
  <2>2. CASE staged = {}
    BY <1>0, <2>1, <2>2
  <2>3. CASE staged # {}
    BY <1>0, <1>1, <2>1, <2>3, Saved
  <2> QED BY <2>1, <2>2, <2>3
<1>5. X!Types'
  BY <1>0, <1>1, <1>3, <1>4 DEF X!Types, X!Labels, X!InRebuild, Rows
<1>6. \A k \in X!Pending : k \in X!Pending'
  BY <1>4, PendingKeys
<1>7. /\ X!ChainInv' /\ X!CursorInv' /\ X!NotificationsOwed'
      /\ X!Keys(X!BehindCursor)' = X!Keys(X!BehindCursor)
  <2>1. X!Notifying = {}
    BY <1>0 DEF X!Notifying, X!At
  <2> QED BY <1>0, <1>6, <2>1, OwedFrame
<1>8. X!OwedInv'
  BY <1>0, <1>7 DEF X!OwedInv
<1>9. X!RoundInv'
  <2>1. X!MemoryInv' /\ X!RefreshInv' /\ X!UpdateInv'
    BY <1>0 DEF X!RoundInv, X!MemoryInv, X!RefreshInv, X!UpdateInv, X!InRefresh, X!InClean, X!InSweep
  <2>2. staged # {} => X!Keys(job.events)' \subseteq X!Pending'
    BY <1>3, <1>4, PendingKeys
  <2>3. X!RebuildInv'
    BY <1>0, <1>2, <1>3, <2>2 DEF X!RoundInv, X!RebuildInv, X!InRebuild
  <2> QED BY <2>1, <2>3 DEF X!RoundInv
<1>10. X!GhostInv'
  <2> SUFFICES ASSUME ~uncleaned PROVE X!GhostInv'
    BY <1>0 DEF X!GhostInv
  <2>1. X!Live \subseteq X!Keys(X!BehindCursor) /\ \A s \in steps : X!Keys(s.events) \subseteq X!Keys(X!BehindCursor)
    BY <1>0, AtRest
  <2>2. X!Live' = X!Live
    BY <1>0 DEF X!Live
  <2>3. ASSUME NEW s \in steps'
        PROVE  \/ X!Keys(s.events) \subseteq X!Keys(X!BehindCursor)
               \/ staged # {} /\ X!Keys(s.events) = X!Keys(job.events)
    BY <1>4, <2>1
  <2>4. \A s \in steps' : \/ X!Keys(s.events)' \subseteq X!Keys(X!BehindCursor)'
                          \/ pc' = "rb_commit" /\ job'.todo # {} /\ X!SameStep(s, job.events)'
    BY <1>0, <1>3, <1>7, <2>3, PendingKeys DEF X!SameStep
  <2> QED BY <1>0, <1>7, <2>1, <2>2, <2>4 DEF X!GhostInv
<1> QED BY <1>5, <1>7, <1>8, <1>9, <1>10 DEF X!IndInv

(* An error ends the operation; a rebuild takes back the step it queued.   *)
LEMMA AbortStep ==
  ASSUME X!IndInv, X!Abort
  PROVE  X!IndInv'
<1>0. /\ X!Types /\ X!RoundInv /\ pc \in X!Failing /\ X!Fault /\ pc' = "idle" /\ job' = X!NoJob
      /\ steps' = IF X!Withdrawn # {} THEN X!deletePendingPostCommitStep(steps, job.events) ELSE steps
      /\ forgone' = forgone \cup { k \in X!Withdrawn : deliveries[k] = "none" }
      /\ uncleaned' = (uncleaned \/ pc \in {"hash", "save"})
      /\ sync' = IF job.rebuild THEN job.final ELSE sync
      /\ UNCHANGED << chain, forks, events, cursor, deliveries, memory, casFailures, other, rebuilds >>
  BY DEF X!Abort, X!Return, X!IndInv, X!Goto, X!chainVars
<1>1. /\ faults' \in 0..MaxFaults /\ steps \in Rows(faults')
      /\ casFailures' \in Nat /\ sync' \in X!Heights /\ uncleaned' \in BOOLEAN
      /\ deliveries' \in [ X!AllKeys -> {"none", "live", "invalidated"} ]
  BY <1>0, FaultCounted, JobNumbers, LogBounds DEF X!Types
<1>2. memory' \in { X!NoCursor, cursor }
  BY <1>0 DEF X!RoundInv, X!MemoryInv, X!Failing
<1>3. X!Notifying = {}
  BY <1>0 DEF X!Notifying, X!At, X!Failing
<1>4. /\ X!Withdrawn \subseteq X!Keys(job.events)
      /\ pc = "rb_commit" /\ job.todo # {} => X!Withdrawn = X!Keys(job.events)
  <2>1. CASE pc = "rb_commit" /\ job.todo # {}
    <3>1. \A s \in job.todo : s.events = job.events
      BY <1>0, <2>1 DEF X!RoundInv, X!RebuildInv
    <3>2. UNION { s.events : s \in job.todo } = job.events
      BY <2>1, <3>1
    <3> QED BY <2>1, <3>2 DEF X!Withdrawn, X!At
  <2>2. CASE ~(pc = "rb_commit" /\ job.todo # {})
    BY <2>2 DEF X!Withdrawn, X!At, X!Keys
  <2> QED BY <2>1, <2>2
<1>5. /\ steps' \subseteq steps
      /\ \A s \in steps \ steps' : X!Withdrawn # {} /\ X!Keys(s.events) = X!Keys(job.events)
      /\ X!Withdrawn # {} => \A s \in steps' : ~X!SameStep(s, job.events)
  BY <1>0, Removed
<1>6. X!Withdrawn = {} \/ X!Withdrawn = X!Keys(job.events)
  BY <1>4 DEF X!Withdrawn, X!At, X!Keys
<1>7. \A k \in X!Pending : deliveries[k] # "none" \/ k \in X!Pending' \cup forgone'
  BY <1>0, <1>5, <1>6, PendingKeys
<1>8. steps' \in Rows(faults') /\ forgone' \subseteq X!AllKeys
  <2>1. X!Keys(job.events) \subseteq X!AllKeys /\ forgone \subseteq X!AllKeys
    BY <1>0, JobNumbers, KeysShape DEF X!Types
  <2> QED BY <1>0, <1>1, <1>4, <1>5, <2>1 DEF Rows
<1>9. ~uncleaned' => /\ X!Live' \subseteq X!Keys(X!BehindCursor)
                     /\ \A s \in steps' : X!Keys(s.events) \subseteq X!Keys(X!BehindCursor)
  <2> SUFFICES ASSUME ~uncleaned, pc \notin { "hash", "save" }
               PROVE  /\ X!Live' \subseteq X!Keys(X!BehindCursor)
                      /\ \A s \in steps' : X!Keys(s.events) \subseteq X!Keys(X!BehindCursor)
    BY <1>0
  <2>1. /\ X!Live \subseteq X!Keys(X!BehindCursor)
        /\ \A s \in steps : \/ X!Keys(s.events) \subseteq X!Keys(X!BehindCursor)
                            \/ pc = "rb_commit" /\ job.todo # {} /\ X!SameStep(s, job.events)
    BY <1>0, AtRest DEF X!Failing
  <2>2. X!Live' = X!Live
    BY <1>0 DEF X!Live
  <2>3. ASSUME NEW s \in steps' PROVE X!Keys(s.events) \subseteq X!Keys(X!BehindCursor)
    <3>1. CASE pc = "rb_commit" /\ job.todo # {} /\ X!SameStep(s, job.events)
      <4>1. X!Withdrawn = {} /\ X!Keys(s.events) = X!Keys(job.events) /\ X!Withdrawn = X!Keys(job.events)
        BY <1>4, <1>5, <3>1 DEF X!SameStep
      <4> QED BY <4>1
    <3> QED BY <1>5, <2>1, <3>1
  <2> QED BY <2>1, <2>2, <2>3
<1> QED BY <1>0, <1>1, <1>2, <1>3, <1>7, <1>8, <1>9, EndFrame

(* The process dies: what it was telling of is queued, or counted as lost. *)
LEMMA CrashStep ==
  ASSUME X!IndInv, X!Crash
  PROVE  X!IndInv'
<1>0. /\ X!Types /\ X!RoundInv /\ X!Fault /\ pc' = "idle" /\ job' = X!NoJob /\ memory' = X!NoCursor /\ casFailures' = 0
      /\ forgone' = IF pc = "notify" /\ job.rebuild /\ job.todo = {}
                      THEN forgone \cup X!Keys(job.events) ELSE forgone
      /\ uncleaned' = (uncleaned \/ pc \in {"invalidate", "trim", "notify", "hash", "save", "rb_commit"})
      /\ UNCHANGED << chain, forks, events, cursor, sync, steps, other, rebuilds >>
  BY DEF X!Crash, X!Return, X!IndInv, X!At, X!Goto, X!chainVars
<1>1. job.events \subseteq X!Events /\ X!Keys(job.events) \subseteq X!AllKeys
  BY <1>0, JobNumbers, KeysShape
<1>2. /\ faults' \in 0..MaxFaults /\ steps' \in Rows(faults') /\ forgone' \subseteq X!AllKeys
      /\ casFailures' \in Nat /\ sync' \in X!Heights /\ uncleaned' \in BOOLEAN
  BY <1>0, <1>1, FaultCounted DEF X!Types
<1>3. /\ deliveries' \in [ X!AllKeys -> {"none", "live", "invalidated"} ]
      /\ \A k \in X!AllKeys : deliveries[k] # "none" => deliveries'[k] # "none"
      /\ pc # "notify" => deliveries' = deliveries
  <2>1. CASE pc = "notify"
    <3>1. PICK es \in SUBSET job.events : deliveries' = X!processSignalSubmittedEvents(es)
      BY <2>1 DEF X!Crash, X!At
    <3>2. es \subseteq X!Events
      BY <1>1
    <3> QED BY <1>0, <2>1, <3>1, <3>2, Delivered
  <2>2. CASE pc # "notify"
    BY <1>0, <2>2 DEF X!Crash, X!At, X!Types
  <2> QED BY <2>1, <2>2
<1>4. X!Pending' = X!Pending
  BY <1>0, PendingKeys
<1>5. X!Notifying \subseteq X!Pending \cup forgone'
  BY <1>0 DEF X!Notifying, X!At, X!RoundInv, X!RebuildInv
<1>6. ~uncleaned' => /\ X!Live' \subseteq X!Keys(X!BehindCursor)
                     /\ \A s \in steps' : X!Keys(s.events) \subseteq X!Keys(X!BehindCursor)
  <2> SUFFICES ASSUME ~uncleaned, pc \notin {"invalidate", "trim", "notify", "hash", "save", "rb_commit"}
               PROVE  /\ X!Live' \subseteq X!Keys(X!BehindCursor)
                      /\ \A s \in steps' : X!Keys(s.events) \subseteq X!Keys(X!BehindCursor)
    BY <1>0
  <2>1. X!Live \subseteq X!Keys(X!BehindCursor) /\ \A s \in steps : X!Keys(s.events) \subseteq X!Keys(X!BehindCursor)
    BY AtRest
  <2> QED BY <1>0, <1>3, <2>1 DEF X!Live
<1>7. forgone \subseteq forgone'
  BY <1>0
<1> QED BY <1>0, <1>2, <1>3, <1>4, <1>5, <1>6, <1>7, EndFrame

(* No other process is at work.                                            *)
LEMMA NoOther ==
  ASSUME X!IndInv, ~OtherProcess
  PROVE  ~X!OtherRead /\ ~X!OtherCommit /\ ~X!OtherFails
BY DEF X!IndInv, X!Types, X!OtherRead, X!OtherCommit, X!OtherFails

LEMMA LogInit == X!Init => X!IndInv
<1> SUFFICES ASSUME X!Init PROVE X!IndInv
  OBVIOUS
<1>0. /\ chain = << >> /\ forks = 0 /\ events = {} /\ cursor = X!NoCursor /\ sync = 0 /\ steps = {}
      /\ deliveries = [ k \in X!AllKeys |-> "none" ] /\ memory = X!NoCursor /\ casFailures = 0
      /\ pc = "idle" /\ job = X!NoJob /\ other = X!NoJob
      /\ faults = 0 /\ rebuilds = 0 /\ forgone = {} /\ uncleaned = FALSE
  BY DEF X!Init
<1>1. /\ X!NoCursor = [ next |-> 0, final |-> 0, hash |-> << 0, 0 >> ] /\ X!NoCursor \in X!Cursors
      /\ X!NoCursor.next = 0 /\ X!NoCursor.hash = << 0, 0 >> /\ << 0, 0 >>[1] = 0 /\ << 0, 0 >>[2] = 0
  BY LogBounds DEF X!NoCursor, X!Cursors
<1>2. X!NoJob \in X!Job
  BY LogBounds DEF X!NoJob, X!Job, X!Hashes, X!Heights
<1>3. << >> \in Seq(X!Blocks) /\ Len(<< >>) = 0 /\ MaxHeight \in Nat /\ MaxForks \in Nat /\ MaxFaults \in Nat
      /\ MaxRebuilds \in Nat
  BY LogBounds
<1>4. X!Types
  <2>1. X!BehindCursor = {} /\ 0 \in X!Heights
    BY <1>0, <1>3, LogBounds DEF X!BehindCursor
  <2>2. forks \in 0..MaxForks /\ faults \in 0..MaxFaults /\ rebuilds \in 0..MaxRebuilds + 1
        /\ Len(chain) <= MaxHeight /\ casFailures \in Nat
    BY <1>0, <1>3
  <2>3. deliveries \in [ X!AllKeys -> {"none", "live", "invalidated"} ]
    BY <1>0
  <2>4. pc \in X!Labels /\ pc \notin X!InRebuild
    BY <1>0 DEF X!Labels, X!InRebuild
  <2>5. chain \in Seq(X!Blocks) /\ cursor \in X!Cursors /\ memory \in X!Cursors /\ sync \in X!Heights /\ job \in X!Job
    BY <1>0, <1>1, <1>2, <1>3, <2>1
  <2> QED BY <1>0, <2>2, <2>3, <2>4, <2>5 DEF X!Types
<1>5. X!ChainInv
  BY <1>0, <1>3 DEF X!ChainInv
<1>6. X!BehindCursor = {} /\ X!Live = {} /\ X!Pending = {}
  BY <1>0 DEF X!BehindCursor, X!Live, X!Pending
<1>7. X!CursorInv
  <2>1. X!Seen(cursor.hash)
    BY <1>0, <1>1, <1>3 DEF X!Seen
  <2>2. X!Agrees(cursor.hash)
    BY <1>0, <1>3 DEF X!Agrees, X!UpTo, X!Logs
  <2> QED BY <1>0, <1>1, <1>6, <2>1, <2>2 DEF X!CursorInv
<1>8. X!RoundInv
  BY <1>0 DEF X!RoundInv, X!MemoryInv, X!RefreshInv, X!UpdateInv, X!RebuildInv, X!InRefresh, X!InClean, X!InSweep,
              X!InRebuild
<1>9. X!OwedInv
  BY <1>0, <1>6 DEF X!OwedInv, X!NotificationsOwed
<1>10. X!GhostInv
  BY <1>0, <1>6 DEF X!GhostInv
<1> QED BY <1>4, <1>5, <1>7, <1>8, <1>9, <1>10 DEF X!IndInv

LEMMA LogStutter ==
  ASSUME X!IndInv, UNCHANGED X!vars
  PROVE  X!IndInv'
<1>0. UNCHANGED << chain, forks, events, cursor, sync, steps, deliveries, memory, casFailures, pc, job, other,
                   faults, rebuilds, forgone, uncleaned >>
  BY DEF X!vars, X!chainVars, X!storeVars, X!memVars, X!histVars
<1>1. X!Types /\ X!RoundInv /\ X!OwedInv /\ X!GhostInv
  BY DEF X!IndInv
<1>2. X!Types'
  BY <1>0, <1>1 DEF X!Types
<1>3. /\ X!ChainInv' /\ X!CursorInv' /\ X!BehindCursor' = X!BehindCursor /\ X!NotificationsOwed'
      /\ X!Keys(X!BehindCursor)' = X!Keys(X!BehindCursor)
  <2>1. X!Pending' = X!Pending /\ X!Notifying' = X!Notifying
    BY <1>0 DEF X!Pending, X!Notifying, X!At, X!Keys, X!Key
  <2> QED BY <1>0, <2>1, OwedFrame
<1>4. X!OwedInv'
  <2>1. pc \in { "hash", "save" } => \A e \in job'.events : X!Owed(X!Key(e))'
    BY <1>0, <1>1 DEF X!OwedInv, X!Owed, X!Key, X!Pending, X!Keys
  <2> QED BY <1>0, <1>3, <2>1 DEF X!OwedInv
<1>5. X!RoundInv'
  <2>1. X!OnCanonicalCursor' <=> X!OnCanonicalCursor
    BY <1>0 DEF X!OnCanonicalCursor, X!OnCursor, X!OnChain
  <2>2. X!MemoryInv' /\ X!RefreshInv'
    BY <1>0, <1>1, <1>3, <2>1 DEF X!RoundInv, X!MemoryInv, X!RefreshInv, X!OnCursor, X!OnChain
  <2>3. X!UpdateInv'
    BY <1>0, <1>1, <2>1 DEF X!RoundInv, X!UpdateInv, X!UpTo
  <2>4. X!RebuildInv'
    BY <1>0, <1>1, <1>3 DEF X!RoundInv, X!RebuildInv, X!Pending, X!Keys, X!Key
  <2> QED BY <2>2, <2>3, <2>4 DEF X!RoundInv
<1>6. X!GhostInv'
  <2> SUFFICES ASSUME ~uncleaned PROVE X!GhostInv'
    BY <1>0 DEF X!GhostInv
  <2>1. /\ X!Live' = X!Live /\ X!InHand' = X!InHand /\ X!ToClear({ "invalidate" })' = X!ToClear({ "invalidate" })
        /\ X!ToClear(X!InClean)' = X!ToClear(X!InClean)
    BY <1>0 DEF X!Live, X!InHand, X!ToClear, X!InClean, X!Keys, X!Key
  <2>2. \A s \in steps : X!SameStep(s, job.events) => X!SameStep(s, job.events)'
    BY <1>0 DEF X!SameStep, X!Keys, X!Key
  <2>3. X!Live' \subseteq X!Keys(X!BehindCursor)' \cup X!InHand' \cup X!ToClear({ "invalidate" })'
    BY <1>1, <1>3, <2>1 DEF X!GhostInv
  <2>4. \A s \in steps' :
           \/ X!Keys(s.events)' \subseteq X!Keys(X!BehindCursor)' \cup X!InHand' \cup X!ToClear(X!InClean)'
           \/ pc' = "rb_commit" /\ job'.todo # {} /\ X!SameStep(s, job.events)'
    BY <1>0, <1>1, <1>3, <2>1, <2>2, PendingKeys DEF X!GhostInv
  <2>5. pc' = "sweeping" => \A s \in job'.todo : X!Keys(s.events)' \subseteq X!Keys(X!BehindCursor)'
    BY <1>0, <1>1, <1>3, PendingKeys DEF X!GhostInv
  <2> QED BY <1>0, <2>3, <2>4, <2>5 DEF X!GhostInv
<1> QED BY <1>2, <1>3, <1>4, <1>5, <1>6 DEF X!IndInv

LEMMA LogStep ==
  ASSUME X!OneProcess, X!IndInv, [X!Next]_(X!vars)
  PROVE  X!IndInv'
<1>1. CASE UNCHANGED X!vars
  BY <1>1, LogStutter
<1>2. CASE X!Mine \/ \E k \in X!Heights : X!Reorg(k)
  BY <1>2, ChainStep
<1>3. CASE X!RefreshStart \/ X!SweepStart \/ X!RebuildEmpty \/ X!RebuildStart
  BY <1>3, RefreshStartStep, SweepStartStep, RebuildEmptyStep, RebuildStartStep
<1>4. CASE X!Proceed
  <2>1. CASE X!CheckHash \/ X!CheckHashFails \/ X!FindAncestor \/ X!NoEventStored \/ X!RoundFails
    BY <2>1, CheckStep, CheckFailsStep, AncestorStep, EventStored, RoundFailsStep
  <2>2. CASE X!ApplyRollback \/ X!RollbackDeferred \/ X!InvalidateNotifications \/ X!TrimPendingSteps
    BY <2>2, RollbackStep, NeverDeferred, InvalidateStep, TrimStep
  <2>3. CASE X!SweepList \/ X!SweepDone
    BY <2>3, ListStep, SweepDoneStep
  <2>4. ASSUME NEW s \in job.todo, X!SweepWaits(s) \/ X!SweepDelivers(s)
        PROVE  X!IndInv'
    BY <2>4, WaitStep, SweepDeliversStep
  <2>5. CASE X!RefreshIdle \/ X!ReadEvents \/ X!CommitEvents \/ X!NotifyDelivered \/ X!ReadHash
    BY <2>5, IdleStep, ReadStep, CommitStep, NotifyDeliveredStep, ReadHashStep
  <2>6. CASE X!SaveCursor \/ X!SaveDeferred \/ X!Summarize \/ X!Automation
    BY <2>6, SaveStep, NeverDeferred, SummarizeStep, AutomationStep
  <2>7. CASE X!RebuildRead \/ X!RebuildStage \/ X!RebuildCommit
    BY <2>7, RebuildReadStep, StageStep, RebuildCommitStep
  <2> QED BY <1>4, <2>1, <2>2, <2>3, <2>4, <2>5, <2>6, <2>7 DEF X!Proceed
<1>5. CASE X!Faulty
  <2>1. ASSUME NEW s \in job.todo, X!SweepFails(s)
        PROVE  X!IndInv'
    BY <2>1, SweepFailsStep
  <2>2. CASE X!CleanupGivenUp \/ X!NotifyPersisted \/ X!NotifyLost \/ X!AutomationPersisted
    BY <2>2, CleanupGivenUpStep, NotifyPersistedStep, NotifyLostStep, AutomationPersistedStep
  <2>3. CASE X!RebuildStageFails \/ X!Abort \/ X!Crash
    BY <2>3, StageFailsStep, AbortStep, CrashStep
  <2> QED BY <1>5, <2>1, <2>2, <2>3 DEF X!Faulty
<1>6. CASE X!OtherRead \/ X!OtherCommit \/ X!OtherFails
  BY <1>6, NoOther DEF X!OneProcess
<1> QED BY <1>1, <1>2, <1>3, <1>4, <1>5, <1>6 DEF X!Next

LogInv == focus = "log" => X!IndInv

LEMMA LogInvariant ==
  ASSUME X!OneProcess
  PROVE  Spec => []LogInv
<1>1. Init => LogInv
  BY LogInit DEF Init, LogInv
<1>2. LogInv /\ [Next]_vars => LogInv'
  BY FocusStep, LogStep DEF LogInv
<1> QED BY <1>1, <1>2, PTL DEF Spec

(* While the hash of the cursor is on chain, the log behind it is the      *)
(* chain's, whatever crashed, failed or was reorganised between two        *)
(* operations: for any number of blocks, reorganisations, faults and       *)
(* rebuilds, when one process writes the database.                         *)
THEOREM LogIsTheChains ==
  ASSUME X!OneProcess
  PROVE  Spec => []IndexSound
<1>1. LogInv => IndexSound
  <2> SUFFICES ASSUME X!IndInv PROVE X!IndexSound
    BY DEF LogInv, IndexSound
  <2>1. X!Types /\ X!CursorInv
    BY DEF X!IndInv
  <2>2. X!TypeOK
    <3>1. X!NoJob.events = {} /\ job \in X!Job
      BY <2>1, JobTypes
    <3> QED BY <2>1, <3>1 DEF X!Types, X!TypeOK, X!Step, X!Job
  <2>3. X!IndexMatchesChain
    <3> SUFFICES ASSUME X!CursorOnChain PROVE X!BehindCursor = X!Logs(chain, X!Deployment, cursor.next - 1)
      BY DEF X!IndexMatchesChain
    <3>1. cursor.next = cursor.hash[1] + 1 /\ X!UpTo(cursor.hash[1]) = X!Logs(chain, X!Deployment, cursor.hash[1])
      BY <2>1 DEF X!CursorOnChain, X!CursorInv, X!Agrees
    <3>2. cursor.hash[1] \in 0..MaxHeight /\ MaxHeight \in Nat
      BY <2>1, JobNumbers
    <3>3. \A e \in events : e.h \in Int
      BY <2>1, KeyShape DEF X!Types
    <3>4. X!BehindCursor = X!UpTo(cursor.hash[1]) /\ cursor.next - 1 = cursor.hash[1]
      BY <3>1, <3>2, <3>3 DEF X!BehindCursor, X!UpTo
    <3> QED BY <3>1, <3>4
  <2> QED BY <2>2, <2>3 DEF X!IndexSound
<1> QED BY <1>1, LogInvariant, PTL

(* Each event behind the cursor was told of, is queued, in hand, or was    *)
(* given up aloud; and after a rollback that was not cut short nobody is   *)
(* told of, and nothing is queued about, a block that left the chain.      *)
THEOREM EveryoneIsTold ==
  ASSUME X!OneProcess
  PROVE  Spec => []NotificationsTrue
<1>1. LogInv => NotificationsTrue
  <2> SUFFICES ASSUME X!IndInv PROVE X!NotificationsTrue
    BY DEF LogInv, NotificationsTrue
  <2>1. X!NotificationsOwed /\ X!Types /\ X!CursorInv
    BY DEF X!IndInv, X!OwedInv
  <2>2. X!NoGhosts
    <3> SUFFICES ASSUME pc = "idle", X!CursorOnChain, ~uncleaned
                 PROVE  X!Live \cup X!Pending \subseteq X!Canonical
      BY DEF X!NoGhosts, X!At
    <3>1. X!Live \cup X!Pending \subseteq X!Keys(X!BehindCursor)
      BY AtRest, PendingKeys
    <3>2. cursor.next = cursor.hash[1] + 1 /\ X!UpTo(cursor.hash[1]) = X!Logs(chain, 1, cursor.hash[1])
          /\ cursor.hash[1] <= Len(chain)
      BY <2>1, LogBounds DEF X!CursorOnChain, X!CursorInv, X!Agrees, X!OnChain
    <3>3. cursor.hash[1] \in 0..MaxHeight /\ Len(chain) \in Nat /\ MaxHeight \in Nat /\ chain \in Chains
      BY <2>1, JobNumbers, JobTypes
    <3>4. X!BehindCursor \subseteq X!Logs(chain, 1, cursor.hash[1])
      <4>1. \A e \in events : e.h \in Int
        BY <2>1, KeyShape DEF X!Types
      <4> QED BY <3>2, <3>3, <4>1 DEF X!BehindCursor, X!UpTo
    <3>5. X!Logs(chain, 1, cursor.hash[1]) \subseteq X!Logs(chain, 1, Len(chain))
      <4>1. PICK m \in Nat : m - 1 = cursor.hash[1] /\ 1 <= m /\ m <= Len(chain) + 1
        <5>1. cursor.hash[1] + 1 \in Nat
          BY <3>3
        <5> QED BY <3>2, <3>3, <5>1
      <4>2. 1 \in Nat /\ Len(chain) \in Int
        BY <3>3
      <4>3. X!Logs(chain, 1, Len(chain)) = X!Logs(chain, 1, m - 1) \cup X!Logs(chain, m, Len(chain))
        BY <3>3, <4>1, <4>2, LogsJoin
      <4> QED BY <4>1, <4>3
    <3>6. X!Keys(X!BehindCursor) \subseteq X!Canonical
      BY <3>4, <3>5, LogBounds DEF X!Keys, X!Canonical
    <3> QED BY <3>1, <3>6
  <2> QED BY <2>1, <2>2 DEF X!NotificationsTrue
<1> QED BY <1>1, LogInvariant, PTL

(* What the log behind the cursor does at each step of the indexer: it     *)
(* grows at its end, is cut back, or is replaced.                          *)
LEMMA ViewStep ==
  ASSUME X!OneProcess, X!IndInv, [X!Next]_(X!vars)
  PROVE  [X!View!Next]_(X!View!vars)
<1>0. X!Types /\ X!CursorInv /\ X!RoundInv /\ cursor.next \in Nat /\ \A e \in events : e.h \in 1..MaxHeight
  <2>1. X!Types /\ X!CursorInv /\ X!RoundInv
    BY DEF X!IndInv
  <2> QED BY <2>1, JobNumbers, KeyShape DEF X!Types
<1>1. ASSUME UNCHANGED << events, cursor, rebuilds >>
      PROVE  UNCHANGED X!View!vars
  BY <1>1 DEF X!View!vars, X!BehindCursor
<1>2. CASE X!ApplyRollback
  <2>1. PICK e \in X!BehindCursor : job.hash = << e.h, e.fork >>
    BY <1>0, <1>2 DEF X!ApplyRollback, X!At, X!RoundInv, X!RefreshInv
  <2>2. e.h \in 1..MaxHeight /\ e.h < cursor.next /\ job.hash[1] = e.h
    BY <1>0, <2>1 DEF X!BehindCursor
  <2>3. cursor'.next = e.h + 1 /\ events' = { d \in events : d.h <= e.h } /\ rebuilds' = rebuilds
    BY <1>2, <2>2, LogBounds DEF X!ApplyRollback, X!Cursor, X!Larger, X!deleteEventsAfterBlock, X!histVars
  <2>4. X!BehindCursor' = { d \in X!BehindCursor : d.h < cursor'.next }
    BY <1>0, <2>2, <2>3 DEF X!BehindCursor
  <2>5. CASE cursor'.next < cursor.next
    BY <2>3, <2>4, <2>5 DEF X!View!Next, X!View!Cut, X!View!Below
  <2>6. CASE cursor'.next = cursor.next
    <3>1. X!BehindCursor' = X!BehindCursor
      BY <2>4, <2>6 DEF X!BehindCursor
    <3> QED BY <1>0, <2>3, <2>6, <3>1 DEF X!View!Next, X!View!Grow
  <2> QED BY <1>0, <2>2, <2>3, <2>5, <2>6
<1>3. CASE X!CommitEvents
  <2>1. X!IndInv' /\ UNCHANGED << cursor, rebuilds, chain, forks >> /\ pc = "commit"
    BY <1>3, CommitStep DEF X!CommitEvents, X!At, X!chainVars, X!histVars
  <2>2. job.from = cursor.next /\ job.events = X!Logs(chain, job.from, job.final)
        /\ chain \in Chains /\ job.from \in Nat /\ job.final \in Int
    <3>1. X!OnCanonicalCursor /\ job.events = X!Logs(chain, job.from, job.final)
      BY <1>0, <2>1, JobNumbers DEF X!RoundInv, X!UpdateInv
    <3> QED BY <1>0, <3>1, JobNumbers, JobTypes DEF X!OnCanonicalCursor, X!OnCursor
  <2>3. events' = X!appendEvents(X!deleteEventsAfterBlock(events, job.from - 1), job.events)
    BY <1>3, <2>2 DEF X!CommitEvents
  <2>4. \A e \in job.events : e.h >= cursor.next /\ e.h \in Int
    BY <2>2, LogsOf
  <2>5. X!BehindCursor' = X!BehindCursor
    BY <1>0, <2>1, <2>2, <2>3, <2>4 DEF X!BehindCursor, X!appendEvents, X!deleteEventsAfterBlock
  <2> QED BY <2>1, <2>5 DEF X!View!vars
<1>4. CASE X!SaveCursor
  <2>1. cursor'.next = job.next /\ UNCHANGED << events, rebuilds >> /\ pc = "save"
    BY <1>4 DEF X!SaveCursor, X!At, X!Cursor, X!histVars
  <2>2. job.from = cursor.next /\ job.from <= job.next /\ job.next \in Nat
    BY <1>0, <2>1, JobNumbers DEF X!RoundInv, X!UpdateInv, X!OnCanonicalCursor, X!OnCursor
  <2>3. X!BehindCursor' = { e \in events : e.h < job.next }
    BY <2>1 DEF X!BehindCursor
  <2>4. X!BehindCursor \subseteq X!BehindCursor' /\ \A e \in X!BehindCursor' \ X!BehindCursor : e.h \in cursor.next..cursor'.next - 1
    BY <1>0, <2>1, <2>2, <2>3 DEF X!BehindCursor
  <2> QED BY <1>0, <2>1, <2>2, <2>4 DEF X!View!Next, X!View!Grow
<1>5. CASE X!RebuildEmpty \/ X!RebuildCommit
  <2>1. rebuilds' = rebuilds + 1
    BY <1>5 DEF X!RebuildEmpty, X!RebuildCommit
  <2> QED BY <2>1 DEF X!View!Next, X!View!Rebuild, X!BehindCursor
<1>6. CASE ~(X!ApplyRollback \/ X!CommitEvents \/ X!SaveCursor \/ X!RebuildEmpty \/ X!RebuildCommit)
  <2> SUFFICES UNCHANGED << events, cursor, rebuilds >>
    BY <1>1
  <2>1. CASE UNCHANGED X!vars
    BY <2>1 DEF X!vars, X!storeVars, X!histVars
  <2>2. CASE X!Mine \/ (\E k \in X!Heights : X!Reorg(k)) \/ X!RefreshStart \/ X!SweepStart \/ X!RebuildStart
    BY <2>2 DEF X!Mine, X!Reorg, X!RefreshStart, X!SweepStart, X!RebuildStart, X!storeVars, X!histVars
  <2>3. CASE X!Proceed
    <3>1. CASE \/ X!CheckHash \/ X!CheckHashFails \/ X!FindAncestor \/ X!NoEventStored \/ X!RoundFails
               \/ X!InvalidateNotifications \/ X!TrimPendingSteps \/ X!SweepList \/ X!SweepDone
      BY <3>1 DEF X!CheckHash, X!CheckHashFails, X!FindAncestor, X!NoEventStored, X!RoundFails,
                  X!InvalidateNotifications, X!TrimPendingSteps, X!SweepList, X!SweepDone, X!storeVars, X!histVars
    <3>2. ASSUME NEW s \in job.todo, X!SweepWaits(s) \/ X!SweepDelivers(s)
          PROVE  UNCHANGED << events, cursor, rebuilds >>
      BY <3>2 DEF X!SweepWaits, X!SweepDelivers, X!storeVars, X!histVars
    <3>3. CASE \/ X!RefreshIdle \/ X!ReadEvents \/ X!NotifyDelivered \/ X!ReadHash \/ X!Summarize \/ X!Automation
               \/ X!RebuildRead \/ X!RebuildStage
      BY <3>3 DEF X!RefreshIdle, X!ReadEvents, X!NotifyDelivered, X!ReadHash, X!Summarize, X!Automation,
                  X!RebuildRead, X!RebuildStage, X!storeVars, X!histVars
    <3>4. ~X!RollbackDeferred /\ ~X!SaveDeferred
      BY NeverDeferred
    <3> QED BY <1>6, <2>3, <3>1, <3>2, <3>3, <3>4 DEF X!Proceed
  <2>4. CASE X!Faulty
    <3>1. ASSUME NEW s \in job.todo, X!SweepFails(s)
          PROVE  UNCHANGED << events, cursor, rebuilds >>
      BY <3>1 DEF X!SweepFails
    <3>2. CASE \/ X!CleanupGivenUp \/ X!NotifyPersisted \/ X!NotifyLost \/ X!AutomationPersisted
               \/ X!RebuildStageFails \/ X!Abort \/ X!Crash
      BY <3>2 DEF X!CleanupGivenUp, X!NotifyPersisted, X!NotifyLost, X!AutomationPersisted, X!RebuildStageFails,
                  X!Abort, X!Crash, X!storeVars
    <3> QED BY <2>4, <3>1, <3>2 DEF X!Faulty
  <2>5. ~X!OtherRead /\ ~X!OtherCommit /\ ~X!OtherFails
    BY NoOther DEF X!OneProcess
  <2> QED BY <1>6, <2>1, <2>2, <2>3, <2>4, <2>5 DEF X!Next
<1> QED BY <1>2, <1>3, <1>4, <1>5, <1>6

(* Seen through the cursor the event log is one that grows at its end, is  *)
(* cut back, or is replaced by a rebuild, although rows, cursor and sync   *)
(* state are written in separate steps with crashes between them.          *)
THEOREM LogIsAView ==
  ASSUME X!OneProcess
  PROVE  Spec => ImplementsChainView
<1>1. Init => X!View!Init
  BY DEF Init, X!Init, X!View!Init, X!BehindCursor, X!NoCursor
<1>2. LogInv /\ [Next]_vars => [X!View!Next]_(X!View!vars)
  <2> SUFFICES ASSUME LogInv, [Next]_vars PROVE [X!View!Next]_(X!View!vars)
    OBVIOUS
  <2>1. CASE focus = "log"
    BY <2>1, FocusStep, ViewStep DEF LogInv
  <2>2. CASE focus # "log"
    <3>1. UNCHANGED << events, cursor, rebuilds >>
      BY <2>2 DEF Next, vars, indexVars
    <3> QED BY <3>1 DEF X!View!vars, X!BehindCursor
  <2> QED BY <2>1, <2>2
<1> QED BY <1>1, <1>2, LogInvariant, PTL DEF Spec, ImplementsChainView, X!ImplementsChainView, X!View!Spec
=============================================================================
