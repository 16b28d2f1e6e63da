------------------------------ MODULE Evidence ------------------------------
(* Evidence of participants (evidence/service.ts) in an object store with  *)
(* a second copy (evidence/storage.ts). An upload writes the object, its   *)
(* backup and then the record; a signal that refers to the evidence binds  *)
(* the record to its transaction; an administrator restores an object from *)
(* its backup. Media may lose or damage a stored object at any time.       *)
EXTENDS Integers, FiniteSets

CONSTANTS
  EvidenceIds,     \* a set of numbers: ids are taken in order
  Participants, Admin,
  Payloads,        \* what the payload hash covers: bytes, metadata, order, task, stage
  Damaged,         \* bytes that no payload has
  Uploads,         \* requests in flight
  MaxRot, MaxPutFailures

VARIABLES
  evidence,        \* evidence id -> record
  taken,           \* ids used, recorded or not
  primary, backup, \* evidence id -> bytes, or "none"
  evidenceWork,    \* request in flight -> where it is
  answered,        \* uploads answered: owner, payload, evidence id
  rot,             \* objects the media spoilt and nobody restored
  mishaps          \* spoilt objects and failed writes so far

evidenceVars == << evidence, taken, primary, backup, evidenceWork, answered, rot, mishaps >>
objectVars == << primary, backup, rot >>

NoEvidence == [ status |-> "none" ]
NotBusy == [ at |-> "idle" ]

Init ==
  /\ evidence = [ i \in EvidenceIds |-> NoEvidence ] /\ taken = {}
  /\ primary = [ i \in EvidenceIds |-> "none" ] /\ backup = [ i \in EvidenceIds |-> "none" ]
  /\ evidenceWork = [ u \in Uploads |-> NotBusy ]
  /\ answered = {} /\ rot = {}
  /\ mishaps = [ rot |-> 0, failures |-> 0 ]

Turn(u, w) == evidenceWork' = [ evidenceWork EXCEPT ![u] = w ]

-----------------------------------------------------------------------------

(* The principal itself, or an administrator on its behalf.                *)
canWriteEvidence(principal, owner) == principal \in { owner, Admin }

findOwnedByPayloadHash(owner, payload) ==
  { i \in EvidenceIds : evidence[i] # NoEvidence /\ evidence[i].owner = owner /\ evidence[i].payload = payload }

Answer(owner, payload, i) == answered' = answered \cup { [ owner |-> owner, payload |-> payload, id |-> i ] }

(* The same payload of the same owner is answered with its record.         *)
uploadEvidence(u, principal, owner, payload) ==
  /\ evidenceWork[u] = NotBusy
  /\ canWriteEvidence(principal, owner)
  /\ LET existing == findOwnedByPayloadHash(owner, payload)
     IN IF existing # {}
        THEN /\ \E i \in existing : (\A j \in existing : i <= j) /\ Answer(owner, payload, i)
             /\ UNCHANGED << taken, evidenceWork >>
        ELSE \E i \in EvidenceIds \ taken :
             /\ \A j \in EvidenceIds \ taken : i <= j
             /\ taken' = taken \cup {i}
             /\ Turn(u, [ at |-> "primary", id |-> i, by |-> principal, owner |-> owner, payload |-> payload ])
             /\ UNCHANGED answered
  /\ UNCHANGED << evidence, objectVars, mishaps >>

Fails == mishaps.failures < MaxPutFailures /\ mishaps' = [ mishaps EXCEPT !.failures = @ + 1 ]

(* A put that fails ends the upload with an error.                         *)
PutPrimary(u, ok) ==
  /\ evidenceWork[u].at = "primary"
  /\ primary' = IF ok THEN [ primary EXCEPT ![evidenceWork[u].id] = evidenceWork[u].payload ] ELSE primary
  /\ Turn(u, IF ok THEN [ evidenceWork[u] EXCEPT !.at = "backup" ] ELSE NotBusy)
  /\ IF ok THEN UNCHANGED mishaps ELSE Fails
  /\ UNCHANGED << evidence, taken, backup, answered, rot >>

(* The second copy must be written before anything is recorded.            *)
BackupRequired(ok) == ok

PutBackup(u, ok) ==
  /\ evidenceWork[u].at = "backup"
  /\ backup' = IF ok THEN [ backup EXCEPT ![evidenceWork[u].id] = evidenceWork[u].payload ] ELSE backup
  /\ Turn(u, IF BackupRequired(ok) THEN [ evidenceWork[u] EXCEPT !.at = "record" ] ELSE NotBusy)
  /\ IF ok THEN UNCHANGED mishaps ELSE Fails
  /\ UNCHANGED << evidence, taken, primary, answered, rot >>

(* INSERT ... WHERE NOT EXISTS: the record that was there first, if any.   *)
insertIfPayloadHashAbsent(owner, payload) == findOwnedByPayloadHash(owner, payload)

RecordEvidence(u) ==
  LET job == evidenceWork[u]
      winner == insertIfPayloadHashAbsent(job.owner, job.payload)
  IN /\ job.at = "record"
     /\ IF winner = {}
        THEN /\ evidence' = [ evidence EXCEPT ![job.id] =
                  [ status |-> "uploaded", owner |-> job.owner, payload |-> job.payload, by |-> job.by ] ]
             /\ Answer(job.owner, job.payload, job.id)
        ELSE /\ \E i \in winner : (\A j \in winner : i <= j) /\ Answer(job.owner, job.payload, i)
             /\ UNCHANGED evidence
     /\ Turn(u, NotBusy)
     /\ UNCHANGED << taken, objectVars, mishaps >>

-----------------------------------------------------------------------------
(* bindEvidence for a signal on the evidence's order: a record already     *)
(* bound is returned as it is.                                             *)
bindEvidence(u, i, principal) ==
  /\ evidenceWork[u] = NotBusy
  /\ evidence[i].status = "uploaded"
  /\ canWriteEvidence(principal, evidence[i].owner)
  /\ Turn(u, [ at |-> "bind", id |-> i, by |-> principal ])
  /\ UNCHANGED << evidence, taken, objectVars, answered, mishaps >>

(* markBound writes whatever the record has become.                        *)
markBound(u) ==
  /\ evidenceWork[u].at = "bind"
  /\ evidence' = [ evidence EXCEPT ![evidenceWork[u].id].status = "bound" ]
  /\ Turn(u, NotBusy)
  /\ UNCHANGED << taken, objectVars, answered, mishaps >>

-----------------------------------------------------------------------------
(* Fault: whatever the backup holds is written over the object.            *)
RestoreUnchecked(bytes, payload) == bytes # "none"

(* Only a backup with the recorded hash may be written back.               *)
RestoreAllowed(bytes, payload) == bytes # "none" /\ bytes = payload

restoreFromBackup(u, i) ==
  /\ evidenceWork[u] = NotBusy
  /\ evidence[i] # NoEvidence
  /\ RestoreAllowed(backup[i], evidence[i].payload)
  /\ Turn(u, [ at |-> "restore", id |-> i, bytes |-> backup[i] ])
  /\ UNCHANGED << evidence, taken, objectVars, answered, mishaps >>

RestoreWrites(u) ==
  /\ evidenceWork[u].at = "restore"
  /\ primary' = [ primary EXCEPT ![evidenceWork[u].id] = evidenceWork[u].bytes ]
  /\ rot' = rot \ { << "primary", evidenceWork[u].id >> }
  /\ Turn(u, NotBusy)
  /\ UNCHANGED << evidence, taken, backup, answered, mishaps >>

(* An object is lost or damaged.                                           *)
MediaSpoils(copy, i, bytes) ==
  /\ mishaps.rot < MaxRot
  /\ mishaps' = [ mishaps EXCEPT !.rot = @ + 1 ]
  /\ IF copy = "primary" THEN primary[i] # "none" ELSE backup[i] # "none"
  /\ primary' = IF copy = "primary" THEN [ primary EXCEPT ![i] = bytes ] ELSE primary
  /\ backup' = IF copy = "backup" THEN [ backup EXCEPT ![i] = bytes ] ELSE backup
  /\ rot' = rot \cup { << copy, i >> }
  /\ UNCHANGED << evidence, taken, evidenceWork, answered >>

(* What getProof answers about the record.                                 *)
verifyEvidenceRecord(i) ==
  CASE primary[i] = "none" -> "missing_file"
    [] primary[i] # "none" /\ primary[i] # evidence[i].payload -> "mismatch"
    [] primary[i] = evidence[i].payload -> IF evidence[i].status = "bound" THEN "matched" ELSE "unbound"

Next ==
  \/ \E u \in Uploads :
       \/ \E principal \in Participants \cup {Admin}, owner \in Participants, payload \in Payloads :
            uploadEvidence(u, principal, owner, payload)
       \/ \E ok \in BOOLEAN : PutPrimary(u, ok) \/ PutBackup(u, ok)
       \/ RecordEvidence(u)
       \/ \E i \in EvidenceIds :
            \/ \E principal \in Participants \cup {Admin} : bindEvidence(u, i, principal)
            \/ restoreFromBackup(u, i)
       \/ markBound(u)
       \/ RestoreWrites(u)
  \/ \E copy \in { "primary", "backup" }, i \in EvidenceIds, bytes \in { "none", Damaged } : MediaSpoils(copy, i, bytes)

Spec == Init /\ [][Next]_evidenceVars

-----------------------------------------------------------------------------
(* A participant has one record for a payload, and every upload of it, the *)
(* losers of a race included, was answered with that record.               *)
OneRecordPerPayload ==
  \A a \in answered : findOwnedByPayloadHash(a.owner, a.payload) = { a.id }

(* No evidence is recorded without its second copy: a recorded object has  *)
(* a backup of its payload unless the media spoilt it, whatever writes     *)
(* failed on the way.                                                      *)
BackedUp ==
  \A i \in EvidenceIds :
    (evidence[i] # NoEvidence /\ << "backup", i >> \notin rot) => backup[i] = evidence[i].payload

(* A recorded object proves its payload unless the media spoilt it since   *)
(* it was last restored: a restoration never writes other bytes, though    *)
(* the backup may be spoilt before, during or after it.                    *)
ProofsHold ==
  \A i \in EvidenceIds :
    (evidence[i] # NoEvidence /\ << "primary", i >> \notin rot) =>
      verifyEvidenceRecord(i) \in { "matched", "unbound" }

(* What a participant was told is stored is stored: one record, two        *)
(* copies, and bytes that prove the payload.                               *)
EvidenceKept == OneRecordPerPayload /\ BackedUp /\ ProofsHold
-----------------------------------------------------------------------------
(* The invariant behind EvidenceKept.                                      *)
Bytes == Payloads \cup { "none", Damaged }
EvidenceRecord == [ status : { "uploaded", "bound" }, owner : Participants, payload : Payloads,
                    by : Participants \cup {Admin} ]
Upload == [ at : { "primary", "backup", "record" }, id : EvidenceIds, by : Participants \cup {Admin},
            owner : Participants, payload : Payloads ]

EvidenceTypes ==
  /\ evidence \in [ EvidenceIds -> {NoEvidence} \cup EvidenceRecord ]
  /\ taken \subseteq EvidenceIds
  /\ primary \in [ EvidenceIds -> Bytes ] /\ backup \in [ EvidenceIds -> Bytes ]
  /\ evidenceWork \in [ Uploads -> {NotBusy} \cup Upload
                                   \cup [ at : {"bind"}, id : EvidenceIds, by : Participants \cup {Admin} ]
                                   \cup [ at : {"restore"}, id : EvidenceIds, bytes : Bytes ] ]
  /\ answered \subseteq [ owner : Participants, payload : Payloads, id : EvidenceIds ]

Recorded(i) == evidence[i] # NoEvidence
Stores(u) == evidenceWork[u].at \in { "primary", "backup", "record" }

(* What was written is there unless the media spoilt it.                   *)
Holds(copy, i, payload) ==
  << copy, i >> \notin rot => (IF copy = "primary" THEN primary[i] ELSE backup[i]) = payload

(* An id is of one upload until it is recorded.                            *)
UploadInv(u) ==
  LET job == evidenceWork[u]
  IN /\ Stores(u) =>
          /\ job.id \in taken /\ ~Recorded(job.id)
          /\ \A v \in Uploads : (v # u /\ Stores(v)) => evidenceWork[v].id # job.id
     /\ job.at \in { "backup", "record" } => Holds("primary", job.id, job.payload)
     /\ job.at = "record" => Holds("backup", job.id, job.payload)
     /\ job.at = "bind" => Recorded(job.id)
     /\ job.at = "restore" => Recorded(job.id) /\ job.bytes = evidence[job.id].payload

RecordInv(i) ==
  Recorded(i) =>
    /\ i \in taken
    /\ Holds("primary", i, evidence[i].payload) /\ Holds("backup", i, evidence[i].payload)
    /\ \A j \in EvidenceIds :
         (Recorded(j) /\ evidence[j].owner = evidence[i].owner /\ evidence[j].payload = evidence[i].payload) => j = i

AnswerInv(a) == Recorded(a.id) /\ evidence[a.id].owner = a.owner /\ evidence[a.id].payload = a.payload

IndInv ==
  /\ EvidenceTypes
  /\ \A u \in Uploads : UploadInv(u)
  /\ \A i \in EvidenceIds : RecordInv(i)
  /\ \A a \in answered : AnswerInv(a)
=============================================================================
