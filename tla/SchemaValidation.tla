-------------------------- MODULE SchemaValidation --------------------------
(***************************************************************************)
(* validateProductSchemaBundle and the two checks it calls                 *)
(* (service/src/store/console/zhixu-drafts.ts), as the sets of issues they *)
(* report, next to a definition of what the product needs from a schema:   *)
(* for every stage exactly one responsible plugin, for every selected      *)
(* stage exactly one slot that may appoint its executor, and no dangling   *)
(* reference.  The three groups of fields are enumerated one at a time,    *)
(* the other two being those of a sound schema.                            *)
(***************************************************************************)
EXTENDS Integers, FiniteSets

CONSTANTS
    StageNames,   \* stage identifiers; a schema declares some of them
    SlotNames,    \* role slot identifiers; a schema declares some of them
    SlotPlugins   \* how many capability plugins a slot has at most

VARIABLES schema, verdict

schemaVars == << schema, verdict >>

Plugins   == [explicit : BOOLEAN, stages : SUBSET StageNames]
PluginSets == {P \in SUBSET Plugins : Cardinality(P) <= SlotPlugins}
NoManifest == [patches |-> FALSE, stages |-> {}]
Manifests  == {NoManifest} \cup [patches : {TRUE}, stages : SUBSET StageNames]

(* A sound schema: one slot serves every stage, executors are fixed.       *)
OneSlot == CHOOSE slot \in SlotNames : TRUE
Sound ==
    [ matches     |-> TRUE,                             \* planId, planHash, artifactHash
      slots       |-> {OneSlot},
      plugins     |-> [x \in SlotNames |-> {[explicit |-> TRUE, stages |-> StageNames]}],
      manifests   |-> [x \in SlotNames |-> NoManifest],
      stages      |-> StageNames,
      assignment  |-> [s \in StageNames |-> "static"],  \* executorAssignment
      targets     |-> [s \in StageNames |-> {}],        \* selectedStageTargets
      bindings    |-> {},                               \* selectorBindings
      permissions |-> {},                               \* roleSlotId of each row
      system      |-> FALSE,                            \* some row is a system permission
      submitter   |-> {} ]                              \* createOrderTrigger's slot, if any

Init ==
    /\ verdict = "none"
    /\ \/ \E slots \in SUBSET SlotNames, stages \in SUBSET StageNames,
             plugins \in [SlotNames -> PluginSets], matches \in BOOLEAN :
             schema = [Sound EXCEPT !.slots = slots, !.stages = stages,
                                        !.plugins = plugins, !.matches = matches]
       \/ \E assignment \in [StageNames -> {"unset", "static", "selected"}],
             manifests \in [SlotNames -> Manifests], stages \in SUBSET StageNames,
             serve \in [StageNames -> SlotNames] :
             schema = [Sound EXCEPT !.slots = {serve[s] : s \in stages}, !.stages = stages,
                        !.assignment = assignment, !.manifests = manifests,
                        !.plugins = [x \in SlotNames |-> {[explicit |-> TRUE,
                            stages |-> {s \in stages : serve[s] = x}]}]]
       \/ \E targets \in [StageNames -> SUBSET StageNames],
             bindings \in SUBSET (StageNames \X StageNames),
             permissions \in SUBSET SlotNames, system \in BOOLEAN,
             submitter \in {{}} \cup {{x} : x \in SlotNames} :
             schema = [Sound EXCEPT !.targets = targets, !.bindings = bindings,
                        !.permissions = permissions, !.system = system,
                        !.submitter = submitter]

-----------------------------------------------------------------------------
(* Fault: coverage is counted per slot, not per plugin.                     *)
SlotCoverage(sc, stage) ==
    Cardinality({x \in sc.slots : \E p \in sc.plugins[x] : stage \in p.stages})

(* stageCoverage: how many capability plugins of the slots cover a stage.   *)
stageCoverage(sc, stage) ==
    Cardinality({o \in SlotNames \X Plugins :
                    o[1] \in sc.slots /\ o[2] \in sc.plugins[o[1]] /\ stage \in o[2].stages})

PluginIssues(sc) ==
    {"slot_missing_capability_plugin" : x \in {x \in sc.slots : sc.plugins[x] = {}}}
    \cup UNION {
        (IF p.explicit THEN {} ELSE {"capability_plugin_not_explicit"})
        \cup (IF p.stages # {} /\ p.stages \subseteq sc.stages THEN {} ELSE {"stage_not_covered"})
        : p \in UNION {sc.plugins[x] : x \in sc.slots}}

CoverageIssues(sc) ==
    UNION { (IF stageCoverage(sc, s) = 0 THEN {"stage_not_covered"} ELSE {})
            \cup (IF stageCoverage(sc, s) > 1 THEN {"duplicate_stage_capability"} ELSE {})
            : s \in sc.stages }

ReferenceIssues(sc) ==
    (IF sc.matches THEN {} ELSE {"plan_identity_mismatch"})
    \cup (IF sc.slots = {} THEN {"missing_role_slot"} ELSE {})
    \cup (IF sc.submitter \subseteq sc.slots THEN {} ELSE {"create_order_trigger_invalid"})
    \cup (IF sc.system THEN {"unsupported_system_permission"} ELSE {})
    \cup (IF sc.permissions \subseteq sc.slots THEN {} ELSE {"permission_role_slot_not_found"})

(* A declared target needs a mirror among the bindings when there are any. *)
validateSelectorBindings(sc) ==
    LET dangling == \E b \in sc.bindings : b[1] \notin sc.stages \/ b[2] \notin sc.stages
        unmirrored == \E s \in sc.stages : \E t \in sc.targets[s] :
                         \/ t \notin sc.stages
                         \/ sc.bindings # {} /\ <<s, t>> \notin sc.bindings
    IN  IF dangling \/ unmirrored THEN {"stage_executor_selection_invalid"} ELSE {}

validateStageExecutorSelection(sc) ==
    LET coveringSlots(s) == {x \in sc.slots : sc.manifests[x].patches /\ s \in sc.manifests[x].stages}
        bad(s) == \/ sc.assignment[s] = "selected" /\ Cardinality(coveringSlots(s)) # 1
                  \/ sc.assignment[s] = "static" /\ coveringSlots(s) # {}
                  \/ Cardinality(coveringSlots(s)) > 1
        dangling == \E s \in StageNames \ sc.stages : coveringSlots(s) # {}
    IN  IF dangling \/ \E s \in sc.stages : bad(s)
        THEN {"stage_executor_selection_invalid"} ELSE {}

validateProductSchemaBundle(sc) ==
    ReferenceIssues(sc) \cup PluginIssues(sc) \cup CoverageIssues(sc)
        \cup validateSelectorBindings(sc) \cup validateStageExecutorSelection(sc)

Validate ==
    /\ verdict = "none"
    /\ verdict' = IF validateProductSchemaBundle(schema) = {} THEN "ok" ELSE "refused"
    /\ UNCHANGED schema

Next == Validate

-----------------------------------------------------------------------------
(* What a schema must provide, said without the algorithm's counters.      *)
Serviceable(sc) ==
    LET owners == {o \in SlotNames \X Plugins : o[1] \in sc.slots /\ o[2] \in sc.plugins[o[1]]}
        appoints == {a \in sc.slots \X StageNames :
                        sc.manifests[a[1]].patches /\ a[2] \in sc.manifests[a[1]].stages}
    IN  /\ sc.matches /\ ~sc.system
        /\ sc.slots # {}
        /\ sc.submitter \cup sc.permissions \subseteq sc.slots
        /\ \A x \in sc.slots : \E o \in owners : o[1] = x
        /\ \A o \in owners : o[2].explicit /\ o[2].stages \in (SUBSET sc.stages) \ {{}}
        /\ \E owner \in [sc.stages -> owners] :
              \A o \in owners, s \in sc.stages : s \in o[2].stages <=> o = owner[s]
        /\ \A a, b \in appoints : a[2] \in sc.stages /\ (a[2] = b[2] => a = b)
        /\ \A s \in sc.stages :
              CASE sc.assignment[s] = "selected" -> \E a \in appoints : a[2] = s
                [] sc.assignment[s] = "static"   -> \A a \in appoints : a[2] # s
                [] OTHER -> TRUE
        /\ sc.bindings \subseteq sc.stages \X sc.stages
        /\ LET selects == {b \in sc.stages \X StageNames : b[2] \in sc.targets[b[1]]}
           IN  selects \subseteq IF sc.bindings = {} THEN sc.stages \X sc.stages ELSE sc.bindings

(* The validator accepts exactly the serviceable schemas: one responsible  *)
(* plugin per stage, one appointing slot per selected stage, no reference  *)
(* to what the schema does not declare (validateProductSchemaBundle).      *)
AcceptsServiceable ==
    verdict # "none" => (verdict = "ok" <=> Serviceable(schema))

-----------------------------------------------------------------------------
(* The schemas that can be handed to the validator, whole.                 *)
Schemas ==
    [matches : BOOLEAN, slots : SUBSET SlotNames, plugins : [SlotNames -> SUBSET Plugins],
     manifests : [SlotNames -> [patches : BOOLEAN, stages : SUBSET StageNames]], stages : SUBSET StageNames,
     assignment : [StageNames -> {"unset", "static", "selected"}], targets : [StageNames -> SUBSET StageNames],
     bindings : SUBSET (StageNames \X StageNames), permissions : SUBSET SlotNames, system : BOOLEAN,
     submitter : SUBSET SlotNames]

(* The invariant behind AcceptsServiceable.                                *)
IndInv ==
    /\ schema \in Schemas
    /\ verdict \in {"none", IF validateProductSchemaBundle(schema) = {} THEN "ok" ELSE "refused"}
=============================================================================
