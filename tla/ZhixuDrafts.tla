----------------------------- MODULE ZhixuDrafts -----------------------------
(***************************************************************************)
(* The Store console's draft workflow                                      *)
(* (service/src/store/console/zhixu-drafts.ts): import a definition,       *)
(* compile it, edit the product schema, send it to review.  Every          *)
(* operation reads the draft, awaits the projection or governance, and     *)
(* writes its whole copy back.  A definition's content determines its plan *)
(* (the compiler is deterministic) and never changes after the import, so  *)
(* a compiled draft's preview is its plan.  A schema is abstracted to the  *)
(* call that wrote it and to whether validateProductSchemaBundle accepts   *)
(* it.                                                                     *)
(***************************************************************************)
EXTENDS FiniteSets

CONSTANTS
    DraftIds,     \* drafts
    Plans,        \* plans that definitions compile to
    Broken,       \* the content that does not compile
    DraftCalls    \* how many requests run at a time

VARIABLES
    drafts,       \* the draft store
    published,    \* plans the projection shows as registered
    draftCalls,   \* requests in progress
    settled       \* history: what the published schema of a draft may be

draftVars == << drafts, published, draftCalls, settled >>

NoSchema  == [by |-> "nobody", ok |-> FALSE]
Suggested == [by |-> "compiler", ok |-> FALSE]  \* inferred plugins: not explicit
Schemas   == [by : DraftCalls, ok : BOOLEAN] \cup {NoSchema, Suggested}

Statuses  == {"imported", "compiled", "compile_failed", "submitted_for_review",
              "approved_for_broadcast", "rejected", "revoked"}
Absent    == [content |-> Broken, status |-> "absent", compiled |-> FALSE, schema |-> NoSchema]
Drafts    == [content : Plans \cup {Broken}, status : Statuses \cup {"absent"},
              compiled : BOOLEAN, schema : Schemas]

(* A request holds the copy it read and, past its checks, writes it.       *)
NoCall == [at |-> "new", op |-> "none", on |-> "none", copy |-> Absent]

DraftTypeOK ==
    /\ drafts \in [DraftIds -> Drafts]
    /\ published \subseteq Plans
    /\ \A c \in DraftCalls : /\ draftCalls[c].at \in {"new", "check", "write"}
                             /\ draftCalls[c].copy \in Drafts
    /\ settled \in [DraftIds -> SUBSET Schemas]

Init ==
    /\ drafts = [d \in DraftIds |-> Absent]
    /\ published = {}
    /\ draftCalls = [c \in DraftCalls |-> NoCall]
    /\ settled = [d \in DraftIds |-> {}]

-----------------------------------------------------------------------------
(* hasPublishedPlan: only a compiled draft anchors a plan.                 *)
hasPublishedPlan(draft) == draft.compiled /\ draft.content \in published

(* Fault: publication is read off the stored status, which is never        *)
(* "active".                                                               *)
MutableByStatus(draft) == draft.status # "active"

assertDraftSchemaMutable(draft) == draft.status # "active" /\ ~hasPublishedPlan(draft)

(* assertDraftCompiledForReview                                            *)
assertDraftCompiledForReview(draft) ==
    /\ draft.status # "compile_failed"
    /\ draft.compiled
    /\ draft.schema # NoSchema
    /\ draft.schema.ok

draftStatusFromReviewStatus(status) ==
    CASE status \in {"draft", "submitted"} -> "submitted_for_review"
      [] status \in {"approved_for_broadcast", "approved", "restricted"} -> "approved_for_broadcast"
      [] status = "rejected" -> "rejected"
      [] status = "revoked"  -> "revoked"

ReviewStatuses == {"draft", "submitted", "approved_for_broadcast", "approved",
                   "restricted", "rejected", "revoked"}

(* What compilePreview stores: the suggested schema replaces the old one.  *)
compileDraftContent(draft) ==
    IF draft.content = Broken
    THEN [draft EXCEPT !.status = "compile_failed"]
    ELSE [draft EXCEPT !.status = "compiled", !.compiled = TRUE, !.schema = Suggested]

(* normalizeProductSchemaInput: the caller's bundle, validated against the *)
(* preview and stored whatever the outcome.                                *)
normalizeProductSchemaInput(draft, c, ok) ==
    [draft EXCEPT !.schema = [by |-> c, ok |-> ok]]

-----------------------------------------------------------------------------
(* A call returns an answer or an error.                                   *)
CallEnds(c) == draftCalls' = [draftCalls EXCEPT ![c] = NoCall]

importDraft(c, d) ==
    /\ draftCalls[c].at = "new"
    /\ drafts[d].status = "absent"
    /\ \E content \in Plans \cup {Broken} :
          /\ drafts' = [drafts EXCEPT ![d] =
                [content |-> content, status |-> "imported", compiled |-> FALSE, schema |-> NoSchema]]
          /\ settled' = [settled EXCEPT ![d] =
                IF content \in published THEN {NoSchema, Suggested} ELSE {}]
    /\ CallEnds(c)
    /\ UNCHANGED published

(* requireDraft                                                            *)
CallReads(c, d, op) ==
    /\ draftCalls[c].at = "new"
    /\ drafts[d].status # "absent"
    /\ draftCalls' = [draftCalls EXCEPT ![c] =
            [at |-> "check", op |-> op, on |-> d, copy |-> drafts[d]]]
    /\ UNCHANGED << drafts, published, settled >>

Carries(c, copy) ==
    /\ draftCalls' = [draftCalls EXCEPT ![c].at = "write", ![c].copy = copy]
    /\ UNCHANGED << drafts, published, settled >>

Rejected(c) == CallEnds(c) /\ UNCHANGED << drafts, published, settled >>

(* A successful compilation is checked like a schema edit, against the     *)
(* draft as it was before; a failed one is stored unconditionally.         *)
compilePreview(c) ==
    /\ draftCalls[c].at = "check" /\ draftCalls[c].op = "compile"
    /\ LET copy == draftCalls[c].copy
       IN  IF copy.content # Broken /\ ~assertDraftSchemaMutable(copy)
           THEN Rejected(c)
           ELSE Carries(c, compileDraftContent(copy))

updateProductSchema(c) ==
    /\ draftCalls[c].at = "check" /\ draftCalls[c].op = "update"
    /\ LET copy == draftCalls[c].copy
       IN  IF ~assertDraftSchemaMutable(copy) \/ ~copy.compiled
           THEN Rejected(c)
           ELSE \E ok \in BOOLEAN : Carries(c, normalizeProductSchemaInput(copy, c, ok))

(* Governance records the review, or refuses its transition.               *)
submitReview(c) ==
    /\ draftCalls[c].at = "check" /\ draftCalls[c].op = "review"
    /\ LET copy == draftCalls[c].copy
       IN  \/ Rejected(c)
           \/ /\ assertDraftCompiledForReview(copy)
              /\ \E status \in ReviewStatuses :
                    Carries(c, [copy EXCEPT !.status = draftStatusFromReviewStatus(status)])

(* updateDraft: the whole record, whatever was stored since.               *)
updateDraft(c) ==
    /\ draftCalls[c].at = "write"
    /\ drafts' = [drafts EXCEPT ![draftCalls[c].on] = draftCalls[c].copy]
    /\ CallEnds(c)
    /\ UNCHANGED << published, settled >>

(* What a request in progress may still write: its copy once it is past    *)
(* its check, the copy's schema for a review, the suggested schema for the *)
(* first compilation.                                                      *)
MayWrite(c) ==
    LET call == draftCalls[c]
    IN  CASE call.at = "write" -> {call.copy.schema}
          [] call.at = "check" /\ call.op = "review"  -> {call.copy.schema}
          [] call.at = "check" /\ call.op = "compile" /\ ~call.copy.compiled -> {Suggested}
          [] OTHER -> {}

(* The index shows the plan as registered: finalizePlan on chain.          *)
PlanRegistered(p) ==
    /\ p \notin published
    /\ published' = published \cup {p}
    /\ settled' = [d \in DraftIds |->
            IF drafts[d].status # "absent" /\ drafts[d].content = p
            THEN {drafts[d].schema}
                 \cup (IF drafts[d].compiled THEN {} ELSE {Suggested})
                 \cup UNION {MayWrite(c) : c \in {x \in DraftCalls : draftCalls[x].on = d}}
            ELSE settled[d]]
    /\ UNCHANGED << drafts, draftCalls >>

Next ==
    \/ \E c \in DraftCalls :
          \/ \E d \in DraftIds : \/ importDraft(c, d)
                                 \/ \E op \in {"compile", "update", "review"} : CallReads(c, d, op)
          \/ compilePreview(c) \/ updateProductSchema(c) \/ submitReview(c) \/ updateDraft(c)
    \/ \E p \in Plans : PlanRegistered(p)

Spec == Init /\ [][Next]_draftVars

-----------------------------------------------------------------------------
(* Published schemas are frozen: once the index shows a draft's plan as    *)
(* registered, the draft's product schema is the one stored then or one an *)
(* operation already under way was about to store; no operation that       *)
(* starts later changes it in place (assertDraftSchemaMutable, applied by  *)
(* compilePreview and updateProductSchema alike).                          *)
FrozenOncePublished ==
    \A d \in DraftIds :
        drafts[d].status # "absent" /\ drafts[d].content \in published
            => drafts[d].schema \in settled[d]

(* Drafts carry a status their store's type allows, whatever the review    *)
(* said, and a published schema is frozen.                                 *)
DraftsSound == DraftTypeOK /\ FrozenOncePublished

-----------------------------------------------------------------------------
(* The invariant behind DraftsSound.                                       *)
DraftTypes ==
    /\ drafts \in [DraftIds -> Drafts]
    /\ published \subseteq Plans
    /\ draftCalls \in [DraftCalls -> [at : {"new", "check", "write"}, op : {"none", "compile", "update", "review"},
                                      on : DraftIds \cup {"none"}, copy : Drafts]]
    /\ settled \in [DraftIds -> SUBSET Schemas]

(* A copy in flight is of a draft that is there, and has its content; what *)
(* compiled stays so.                                                      *)
CopyInv(c) ==
    draftCalls[c].at # "new" =>
        LET call == draftCalls[c]
        IN  /\ call.on \in DraftIds /\ drafts[call.on].status # "absent" /\ call.copy.status # "absent"
            /\ call.copy.content = drafts[call.on].content
            /\ (call.at = "write" /\ call.copy.content # Broken) => call.copy.compiled

(* Whatever can still become the schema of a published draft was settled.  *)
SettledInv ==
    \A d \in DraftIds :
        drafts[d].status # "absent" /\ drafts[d].content \in published =>
            /\ drafts[d].schema \in settled[d]
            /\ ~drafts[d].compiled => Suggested \in settled[d]
            /\ \A c \in DraftCalls : draftCalls[c].on = d => MayWrite(c) \subseteq settled[d]

IndInv == DraftTypes /\ SettledInv /\ \A c \in DraftCalls : CopyInv(c)
=============================================================================
