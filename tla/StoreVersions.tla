---------------------------- MODULE StoreVersions ----------------------------
(***************************************************************************)
(* The versions of one zhixu series (service/src/store/console/version.ts, *)
(* the version routes of api/routes/store-console.ts).  A series without   *)
(* version records has its published plan as an implicit active version;   *)
(* the first record ends that.  An activation lists the versions, then     *)
(* deprecates the active ones of its list and stores its own as active, in *)
(* one transaction.  New orders are placed on the plan of the active       *)
(* version (requireActiveZhixu of product/query/bff).                      *)
(***************************************************************************)
EXTENDS Naturals, FiniteSets

CONSTANTS
    VersionIds,       \* versions of the series
    DefaultVersion,   \* the id of the implicit version
    VersionPlans,     \* plans
    DefaultPlan,      \* the plan the zhixu itself names
    NoPlan,
    VersionCalls,     \* requests in flight
    MaxVersionRequests

VARIABLES
    buckets,          \* plan -> the events its bucket in the projection has seen
    records,          \* version id -> its record in the metadata store
    versionCalls,     \* request -> where it is
    requested,        \* requests so far
    anchors,          \* history: version id -> the plans its record ever named
    overlaps          \* history: which requests ever worked side by side

versionVars == << buckets, records, versionCalls, requested, anchors, overlaps >>

NoVersion == [status |-> "none", plan |-> NoPlan]
NoRequest == [at |-> "new", op |-> "none", on |-> DefaultVersion, claim |-> NoPlan,
              record |-> NoVersion, fresh |-> FALSE, listed |-> [v \in {} |-> NoVersion]]

Init ==
    /\ buckets = [p \in VersionPlans |-> {}]
    /\ records = [v \in VersionIds |-> NoVersion]
    /\ versionCalls = [c \in VersionCalls |-> NoRequest]
    /\ requested = 0
    /\ anchors = [v \in VersionIds |-> {}]
    /\ overlaps = {}

-----------------------------------------------------------------------------
(* The projection's bucket of a plan is there from commitPlan on, with a   *)
(* registration that repeats the commit until the finalizing transaction   *)
(* replaces it; a stream cut off at the start has only the registration.   *)
isPlanRegistered(bucket) ==
    \/ "finalized" \in bucket
    \/ "committed" \notin bucket
    \/ "registered" \in bucket

findFinalizedPlan(p) == buckets[p] # {} /\ isPlanRegistered(buckets[p])

Stored == {v \in VersionIds : records[v] # NoVersion}

synthesizeDefaultVersion ==
    IF findFinalizedPlan(DefaultPlan)
    THEN [v \in {DefaultVersion} |-> [status |-> "active", plan |-> DefaultPlan]]
    ELSE [v \in {} |-> NoVersion]

effectiveVersionRecords ==
    IF Stored # {} THEN [v \in Stored |-> records[v]] ELSE synthesizeDefaultVersion

(* The version new orders are placed on, if any.                           *)
resolveActiveVersion ==
    {v \in DOMAIN effectiveVersionRecords : effectiveVersionRecords[v].status = "active"}

-----------------------------------------------------------------------------
Holds(c, call) == versionCalls' = [versionCalls EXCEPT ![c] = call]
Answered(c) == Holds(c, NoRequest)
Quiet == UNCHANGED << buckets, records, requested, anchors >>

(* storeVersionConfirmationError: the operator confirms the anchors of the *)
(* record, or those of a registered plan when there is no record yet.      *)
storeVersionConfirmationError(v, claim) ==
    ~ (v \in DOMAIN effectiveVersionRecords \/ (claim # NoPlan /\ findFinalizedPlan(claim)))

RequestVersion(c, op, v, claim) ==
    /\ versionCalls[c].at = "new"
    /\ ~storeVersionConfirmationError(v, claim)
    /\ requested < MaxVersionRequests /\ requested' = requested + 1
    /\ Holds(c, [NoRequest EXCEPT !.at = "get", !.op = op, !.on = v, !.claim = claim])
    /\ UNCHANGED << buckets, records, anchors, overlaps >>

(* patchVersionRecord: the record with the anchors of the request, which   *)
(* may not differ from the ones it has.                                    *)
patchVersionRecord(record, claim) == [record EXCEPT !.plan = IF claim = NoPlan THEN @ ELSE claim]

anchorImmutable(record, claim) == claim \in {NoPlan, record.plan}

(* The request goes on with a record, or is refused.                       *)
Proceeds(c, record, allowed, fresh) ==
    IF allowed
    THEN Holds(c, [versionCalls[c] EXCEPT !.at = "ready", !.claim = NoPlan, !.record = record, !.fresh = fresh])
    ELSE Answered(c)

(* ensureVersionRecord: the stored record; failing that, the one a list    *)
(* shows; failing that, a new candidate for the claimed plan, which must   *)
(* be registered.                                                          *)
GetVersion(c) ==
    LET call == versionCalls[c]
    IN  /\ call.at = "get"
        /\ IF records[call.on] # NoVersion
           THEN Proceeds(c, patchVersionRecord(records[call.on], call.claim),
                         anchorImmutable(records[call.on], call.claim), FALSE)
           ELSE Holds(c, [call EXCEPT !.at = "list"])
        /\ Quiet /\ UNCHANGED overlaps

ensureVersionRecord(c) ==
    LET call == versionCalls[c]
        effective == effectiveVersionRecords
        fresh == records[call.on] = NoVersion
        beside == \E x \in VersionCalls \ {c} : versionCalls[x].fresh
    IN  /\ call.at = "list"
        /\ IF call.on \in DOMAIN effective
           THEN Proceeds(c, patchVersionRecord(effective[call.on], call.claim),
                         anchorImmutable(effective[call.on], call.claim), fresh)
           ELSE Proceeds(c, [status |-> "candidate", plan |-> call.claim],
                         call.claim # NoPlan /\ findFinalizedPlan(call.claim), fresh)
        /\ overlaps' = IF fresh /\ beside THEN overlaps \cup {"create"} ELSE overlaps
        /\ Quiet

(* activate: the plan must be published, and the versions are listed; only *)
(* the active ones matter later.                                           *)
assertActivatable(record) == findFinalizedPlan(record.plan)

ListForCutover(c) ==
    LET call == versionCalls[c]
        beside == \E x \in VersionCalls \ {c} : versionCalls[x].at = "cutover"
    IN  /\ call.at = "ready" /\ call.op = "activate"
        /\ IF assertActivatable(call.record)
           THEN /\ Holds(c, [call EXCEPT !.at = "cutover", !.listed = [v \in resolveActiveVersion |-> effectiveVersionRecords[v]]])
                /\ overlaps' = IF beside THEN overlaps \cup {"activate"} ELSE overlaps
           ELSE Answered(c) /\ UNCHANGED overlaps
        /\ Quiet

(* What the cutover leaves of a version: its own active, the active ones   *)
(* of its list deprecated, as they were listed.                            *)
applyCutover(v, call) ==
    CASE v = call.on -> [call.record EXCEPT !.status = "active"]
      [] v # call.on /\ v \in DOMAIN call.listed -> [call.listed[v] EXCEPT !.status = "deprecated"]
      [] OTHER -> records[v]

Stores(new) ==
    /\ records' = new
    /\ anchors' = [v \in VersionIds |-> anchors[v] \cup ({new[v].plan} \ {NoPlan})]

(* The transaction commits as a whole.                                     *)
activate(c) ==
    /\ versionCalls[c].at = "cutover"
    /\ Stores([v \in VersionIds |-> applyCutover(v, versionCalls[c])])
    /\ Answered(c)
    /\ UNCHANGED << buckets, requested, overlaps >>

(* The transaction is rolled back, or the write fails.                     *)
WriteFails(c) ==
    /\ versionCalls[c].at \in {"cutover", "ready"}
    /\ Answered(c)
    /\ Quiet /\ UNCHANGED overlaps

deprecate(c) ==
    LET call == versionCalls[c]
    IN  /\ call.at = "ready" /\ call.op = "deprecate"
        /\ Stores([records EXCEPT ![call.on] = [call.record EXCEPT !.status = "deprecated"]])
        /\ Answered(c)
        /\ UNCHANGED << buckets, requested, overlaps >>

(* The index: a plan is committed, then finalized and registered in one    *)
(* transaction; a truncated stream starts behind the commit.               *)
PlanIndexed(p, events) ==
    /\ events \cap buckets[p] = {}
    /\ "committed" \in events => buckets[p] = {}
    /\ buckets' = [buckets EXCEPT ![p] = @ \cup events]
    /\ UNCHANGED << records, versionCalls, requested, anchors, overlaps >>

Next ==
    \/ \E p \in VersionPlans, events \in {{"committed"}, {"finalized", "registered"}} : PlanIndexed(p, events)
    \/ \E c \in VersionCalls :
          \/ \E op \in {"activate", "deprecate"}, v \in VersionIds, claim \in VersionPlans \cup {NoPlan} :
                RequestVersion(c, op, v, claim)
          \/ GetVersion(c) \/ ensureVersionRecord(c) \/ ListForCutover(c)
          \/ activate(c) \/ deprecate(c) \/ WriteFails(c)

Spec == Init /\ [][Next]_versionVars

-----------------------------------------------------------------------------
(* The plan of an active version, stored or implicit, is registered on the *)
(* state machine, not only committed: no order is placed on a pending plan *)
(* (findFinalizedPlan), whichever requests created and activated it.       *)
OrdersUseRegisteredPlans ==
    \A v \in resolveActiveVersion :
        {"finalized", "registered"} \cap buckets[effectiveVersionRecords[v].plan] # {}

(* A cutover leaves one active version, unless two activations listed the  *)
(* versions side by side; deprecations and creations in between do not     *)
(* matter (activate).                                                      *)
OneActiveVersion == "activate" \notin overlaps => Cardinality(resolveActiveVersion) <= 1

(* The anchor of a version is given once: requests that write back stale   *)
(* copies never move it to another plan, unless two requests created       *)
(* records side by side (patchVersionRecord).                              *)
AnchorKept == "create" \notin overlaps => \A v \in VersionIds : Cardinality(anchors[v]) <= 1

(* Versions are switched on, off and created by requests that work from    *)
(* lists and copies, and orders still go to one registered plan.           *)
VersionsSound == OrdersUseRegisteredPlans /\ OneActiveVersion /\ AnchorKept

-----------------------------------------------------------------------------
(* The invariant behind VersionsSound.                                     *)
Versions == [status : {"active", "deprecated", "candidate"}, plan : VersionPlans]
Lists == UNION {[S -> Versions] : S \in SUBSET VersionIds}
Requests == [at : {"new", "get", "list", "ready", "cutover"}, op : {"none", "activate", "deprecate"},
             on : VersionIds, claim : VersionPlans \cup {NoPlan}, record : Versions \cup {NoVersion},
             fresh : BOOLEAN, listed : Lists]

VersionTypes ==
    /\ buckets \in [VersionPlans -> SUBSET {"committed", "finalized", "registered"}]
    /\ records \in [VersionIds -> Versions \cup {NoVersion}]
    /\ versionCalls \in [VersionCalls -> Requests]
    /\ anchors \in [VersionIds -> SUBSET VersionPlans]

Registered(p) == {"finalized", "registered"} \cap buckets[p] # {}
AtCutover == {c \in VersionCalls : versionCalls[c].at = "cutover"}
Fresh == {c \in VersionCalls : versionCalls[c].fresh}

(* The plan that is about to be activated, or is active, is registered.    *)
PlanInv ==
    /\ \A c \in VersionCalls :
         /\ versionCalls[c].at \in {"ready", "cutover"} => versionCalls[c].record # NoVersion
         /\ versionCalls[c].at = "cutover" => Registered(versionCalls[c].record.plan)
    /\ \A v \in VersionIds : records[v].status = "active" => Registered(records[v].plan)

(* Unless two activations met, a cutover knows of every active version.    *)
CutoverInv ==
    "activate" \notin overlaps =>
        /\ \A c, x \in AtCutover : c = x
        /\ \A v, w \in VersionIds : records[v].status = "active" /\ records[w].status = "active" => v = w
        /\ \A c \in AtCutover, v \in VersionIds :
             records[v].status = "active" => v \in DOMAIN versionCalls[c].listed

(* Unless two requests created records side by side, every copy names the  *)
(* plan that its version has, or the version is still to be created by the *)
(* one request that creates.                                               *)
CopyInv(call) ==
    /\ call.fresh => call.at \in {"ready", "cutover"} /\ records[call.on] = NoVersion
    /\ (call.at \in {"ready", "cutover"} /\ ~call.fresh) =>
         records[call.on] # NoVersion /\ call.record.plan = records[call.on].plan
    /\ call.at = "cutover" =>
         \A v \in DOMAIN call.listed : IF records[v] = NoVersion THEN call.fresh
                                       ELSE call.listed[v].plan = records[v].plan

AnchorInv ==
    "create" \notin overlaps =>
        /\ \A c, x \in Fresh : c = x
        /\ \A c \in VersionCalls : CopyInv(versionCalls[c])
        /\ \A v \in VersionIds : anchors[v] = {records[v].plan} \ {NoPlan}

IndInv == VersionTypes /\ PlanInv /\ CutoverInv /\ AnchorInv
=============================================================================
