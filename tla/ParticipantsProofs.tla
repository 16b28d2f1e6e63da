------------------------ MODULE ParticipantsProofs ------------------------
(***************************************************************************)
(* Theorems about what participants meet, for any number of concurrent     *)
(* requests and any size of the sets: the invariant of a component is      *)
(* inductive under the component's own steps, and so under those of        *)
(* MCParticipants while the behaviour is about that component.             *)
(***************************************************************************)
EXTENDS MCParticipants, FiniteSetTheorems, SequenceTheorems, WellFoundedInduction, TLAPS

allVars == << focus, x1, x2, x3, x4, x5, x6, x7, x8, x9 >>

-----------------------------------------------------------------------------
(* A step is one of the component in focus, or a stutter.                  *)
LEMMA FocusStep ==
  ASSUME [Next]_allVars
  PROVE  /\ UNCHANGED focus
         /\ focus = "evidence" => [E!Next]_(E!evidenceVars)
         /\ focus = "invites" => [I!Next]_(I!inviteVars)
         /\ focus = "webhooks" => [W!Next]_(W!webhookVars)
         /\ focus = "patches" => [P!Next]_(P!patchVars)
         /\ focus = "notifications" => [N!Next]_(N!notifyVars)
BY DEF Next, allVars, E!evidenceVars, I!inviteVars, W!webhookVars, P!patchVars, N!notifyVars

(* The modules bring their own names for what they take from FiniteSets.   *)
LEMMA SameCardinality ==
  \A X : W!Cardinality(X) = Cardinality(X) /\ P!Cardinality(X) = Cardinality(X)
         /\ (P!IsFiniteSet(X) <=> IsFiniteSet(X))
BY DEF Cardinality, W!Cardinality, P!Cardinality, IsFiniteSet, P!IsFiniteSet

-----------------------------------------------------------------------------
(* Evidence: x1 is evidence, x2 taken, x3 primary, x4 backup, x5           *)
(* evidenceWork, x6 answered and x7 rot.                                   *)
LEMMA EvidenceInit == E!Init => E!IndInv
BY DEF E!Init, E!IndInv, E!EvidenceTypes, E!NoEvidence, E!NotBusy, E!Bytes, E!UploadInv, E!RecordInv,
       E!Recorded, E!Stores

(* A request that finds the payload on record is answered with the record. *)
LEMMA FoundStep ==
  ASSUME E!IndInv, NEW owner \in Participants, NEW payload \in Payloads,
         NEW i \in E!findOwnedByPayloadHash(owner, payload), E!Answer(owner, payload, i),
         UNCHANGED << x1, x2, x3, x4, x7 >>, E!EvidenceTypes',
         \A u \in Uploads : E!UploadInv(u)'
  PROVE  E!IndInv'
<1>1. \A a \in x6' : E!AnswerInv(a)'
  <2> SUFFICES ASSUME NEW a \in x6' PROVE E!AnswerInv(a)'
    OBVIOUS
  <2>1. a \in x6 \/ a = [ owner |-> owner, payload |-> payload, id |-> i ]
    BY DEF E!Answer
  <2> QED BY <2>1 DEF E!IndInv, E!AnswerInv, E!Recorded, E!findOwnedByPayloadHash
<1>2. \A j \in EvidenceIds : E!RecordInv(j)'
  BY DEF E!IndInv, E!RecordInv, E!Recorded, E!Holds
<1> QED BY <1>1, <1>2 DEF E!IndInv

LEMMA UploadStep ==
  ASSUME E!IndInv, NEW u \in Uploads, NEW by \in Participants \cup {Admin}, NEW owner \in Participants,
         NEW payload \in Payloads, E!uploadEvidence(u, by, owner, payload)
  PROVE  E!IndInv'
<1>0. /\ E!EvidenceTypes /\ UNCHANGED << x1, x3, x4, x7 >> /\ x5[u] = E!NotBusy
  BY DEF E!IndInv, E!uploadEvidence, E!objectVars
<1>1. CASE E!findOwnedByPayloadHash(owner, payload) # {}
  <2>1. PICK i \in E!findOwnedByPayloadHash(owner, payload) : E!Answer(owner, payload, i)
    BY <1>1 DEF E!uploadEvidence
  <2>2. UNCHANGED << x2, x5 >>
    BY <1>1 DEF E!uploadEvidence
  <2>3. i \in EvidenceIds
    BY DEF E!findOwnedByPayloadHash
  <2>4. E!EvidenceTypes'
    BY <1>0, <2>1, <2>2, <2>3 DEF E!EvidenceTypes, E!Answer
  <2>5. \A v \in Uploads : E!UploadInv(v)'
    BY <1>0, <2>2 DEF E!IndInv, E!UploadInv, E!Recorded, E!Stores, E!Holds
  <2> QED BY <1>0, <2>1, <2>2, <2>4, <2>5, FoundStep
<1>2. CASE E!findOwnedByPayloadHash(owner, payload) = {}
  <2> DEFINE job(i) == [ at |-> "primary", id |-> i, by |-> by, owner |-> owner, payload |-> payload ]
  <2>1. PICK i \in EvidenceIds \ x2 : x2' = x2 \cup {i} /\ x5' = [ x5 EXCEPT ![u] = job(i) ]
    BY <1>2 DEF E!uploadEvidence, E!Turn
  <2>2. UNCHANGED << x1, x3, x4, x6, x7 >>
    BY <1>0, <1>2 DEF E!uploadEvidence
  <2>3. job(i) \in E!Upload /\ job(i).at = "primary" /\ job(i).id = i
    BY DEF E!Upload
  <2> HIDE DEF job
  <2>4. /\ x5'[u] = job(i) /\ \A v \in Uploads : v # u => x5'[v] = x5[v]
    BY <1>0, <2>1 DEF E!EvidenceTypes
  <2>5. E!EvidenceTypes'
    BY <1>0, <2>1, <2>2, <2>3 DEF E!EvidenceTypes
  <2>6. ~E!Recorded(i)
    BY <2>1 DEF E!IndInv, E!RecordInv
  <2>7. \A v \in Uploads : v # u /\ E!Stores(v) => x5[v].id \in x2
    BY DEF E!IndInv, E!UploadInv
  <2>8. E!UploadInv(u)'
    BY <2>1, <2>2, <2>3, <2>4, <2>6, <2>7 DEF E!UploadInv, E!Stores, E!Recorded
  <2>9. ASSUME NEW v \in Uploads, v # u PROVE E!UploadInv(v)'
    BY <2>1, <2>2, <2>3, <2>4, <2>7, <2>9 DEF E!IndInv, E!UploadInv, E!Stores, E!Recorded, E!Holds
  <2>10. \A j \in EvidenceIds : E!RecordInv(j)'
    BY <2>1, <2>2 DEF E!IndInv, E!RecordInv, E!Recorded, E!Holds
  <2>11. \A a \in x6' : E!AnswerInv(a)'
    BY <2>2 DEF E!IndInv, E!AnswerInv, E!Recorded
  <2> QED BY <2>5, <2>8, <2>9, <2>10, <2>11 DEF E!IndInv
<1> QED BY <1>1, <1>2

(* A write of one upload's object leaves every other id alone.             *)
LEMMA PutStep ==
  ASSUME E!IndInv, NEW u \in Uploads, NEW ok \in BOOLEAN, E!PutPrimary(u, ok) \/ E!PutBackup(u, ok)
  PROVE  E!IndInv'
<1>j. PICK job : job = x5[u]
  OBVIOUS
<1> USE <1>j
<1> DEFINE next == IF ok THEN [ job EXCEPT !.at = IF job.at = "primary" THEN "backup" ELSE "record" ] ELSE E!NotBusy
<1>0. /\ E!EvidenceTypes /\ E!UploadInv(u) /\ job.at \in { "primary", "backup" }
      /\ x5' = [ x5 EXCEPT ![u] = next ] /\ UNCHANGED << x1, x2, x6, x7 >>
      /\ x3' = IF ok /\ job.at = "primary" THEN [ x3 EXCEPT ![job.id] = job.payload ] ELSE x3
      /\ x4' = IF ok /\ job.at = "backup" THEN [ x4 EXCEPT ![job.id] = job.payload ] ELSE x4
  BY DEF E!IndInv, E!PutPrimary, E!PutBackup, E!Turn, E!BackupRequired
<1>1. job \in E!Upload
  BY <1>0 DEF E!EvidenceTypes, E!NotBusy, E!Upload
<1>2. next = E!NotBusy \/ (next \in E!Upload /\ next.id = job.id /\ next.payload = job.payload)
  BY <1>0, <1>1 DEF E!Upload
<1>3. /\ ok /\ job.at = "primary" => next.at = "backup"
      /\ ok /\ job.at = "backup" => next.at = "record"
      /\ ~ok => next.at = "idle"
  BY <1>1 DEF E!Upload, E!NotBusy
<1>4. /\ next.at = "backup" => ok /\ job.at = "primary"
      /\ next.at = "record" => ok /\ job.at = "backup"
      /\ next.at \notin { "bind", "restore" }
  BY <1>0, <1>3
<1>5. E!NotBusy.at = "idle"
  BY DEF E!NotBusy
<1>6. /\ job.id \in EvidenceIds /\ job.payload \in Payloads /\ job.id \in x2 /\ ~E!Recorded(job.id)
      /\ \A v \in Uploads : v # u /\ E!Stores(v) => x5[v].id # job.id
  BY <1>0, <1>1 DEF E!UploadInv, E!Stores, E!Upload
<1>7. job.at = "backup" => E!Holds("primary", job.id, job.payload)
  BY <1>0 DEF E!UploadInv
<1> HIDE DEF next
<1>8. x5'[u] = next /\ \A v \in Uploads : v # u => x5'[v] = x5[v]
  BY <1>0 DEF E!EvidenceTypes
<1>9. E!EvidenceTypes'
  BY <1>0, <1>1, <1>2, <1>6 DEF E!EvidenceTypes, E!Bytes
<1>10. \A j \in EvidenceIds : j # job.id => x3'[j] = x3[j] /\ x4'[j] = x4[j]
  BY <1>0, <1>6 DEF E!EvidenceTypes
<1>11. /\ ok /\ job.at = "primary" => x3'[job.id] = job.payload
       /\ ok /\ job.at = "backup" => x4'[job.id] = job.payload /\ x3' = x3
  BY <1>0, <1>6 DEF E!EvidenceTypes
<1>12. E!UploadInv(u)'
  <2>1. CASE next = E!NotBusy
    BY <1>5, <1>8, <2>1 DEF E!UploadInv, E!Stores
  <2>2. CASE next # E!NotBusy
    <3>1. /\ x5'[u] = next /\ next.id = job.id /\ next.payload = job.payload
      BY <1>2, <1>8, <2>2
    <3>2. next.at = "backup" => E!Holds("primary", job.id, job.payload)'
      BY <1>4, <1>11 DEF E!Holds
    <3>3. next.at = "record" => E!Holds("primary", job.id, job.payload)' /\ E!Holds("backup", job.id, job.payload)'
      BY <1>0, <1>4, <1>7, <1>11 DEF E!Holds
    <3>4. \A v \in Uploads : v # u /\ E!Stores(v)' => x5'[v].id # job.id
      BY <1>6, <1>8 DEF E!Stores
    <3> QED BY <1>0, <1>4, <1>6, <3>1, <3>2, <3>3, <3>4 DEF E!UploadInv, E!Recorded, E!Holds
  <2> QED BY <2>1, <2>2
<1>13. ASSUME NEW v \in Uploads, v # u PROVE E!UploadInv(v)'
  <2>1. E!UploadInv(v) /\ x5'[v] = x5[v] /\ (E!Stores(v) => x5[v].id # job.id)
    BY <1>6, <1>8, <1>13 DEF E!IndInv
  <2>2. E!Stores(v) => x5[v].id \in EvidenceIds
    BY <1>0, <2>1 DEF E!Stores, E!EvidenceTypes, E!UploadInv
  <2>3. \A w \in Uploads : (E!Stores(w)' /\ w # v) => (E!Stores(v) => x5'[w].id # x5[v].id)
    <3> SUFFICES ASSUME NEW w \in Uploads, E!Stores(w)', w # v, E!Stores(v) PROVE x5'[w].id # x5[v].id
      OBVIOUS
    <3>1. CASE w = u
      BY <1>2, <1>5, <1>8, <2>1, <3>1 DEF E!Stores
    <3>2. CASE w # u
      BY <1>8, <2>1, <3>2 DEF E!Stores, E!UploadInv
    <3> QED BY <3>1, <3>2
  <2> QED BY <1>0, <1>10, <2>1, <2>2, <2>3 DEF E!UploadInv, E!Stores, E!Holds, E!Recorded
<1>14. ASSUME NEW j \in EvidenceIds PROVE E!RecordInv(j)'
  BY <1>0, <1>6, <1>10 DEF E!IndInv, E!RecordInv, E!Recorded, E!Holds
<1>15. \A a \in x6' : E!AnswerInv(a)'
  BY <1>0 DEF E!IndInv, E!AnswerInv, E!Recorded
<1> QED BY <1>9, <1>12, <1>13, <1>14, <1>15 DEF E!IndInv

(* The insert is conditional on the payload: the loser of a race gets the  *)
(* winner's record.                                                        *)
LEMMA RecordStep ==
  ASSUME E!IndInv, NEW u \in Uploads, E!RecordEvidence(u)
  PROVE  E!IndInv'
<1>j. PICK job : job = x5[u]
  OBVIOUS
<1> USE <1>j
<1> DEFINE winner == E!findOwnedByPayloadHash(job.owner, job.payload)
           row == [ status |-> "uploaded", owner |-> job.owner, payload |-> job.payload, by |-> job.by ]
<1>0. /\ E!EvidenceTypes /\ E!UploadInv(u) /\ job.at = "record"
      /\ x5' = [ x5 EXCEPT ![u] = E!NotBusy ] /\ UNCHANGED << x2, x3, x4, x7 >>
  BY DEF E!IndInv, E!RecordEvidence, E!Turn, E!objectVars
<1>1. job \in E!Upload
  BY <1>0 DEF E!EvidenceTypes, E!NotBusy, E!Upload
<1>2. /\ job.id \in EvidenceIds /\ job.payload \in Payloads /\ job.owner \in Participants /\ job.id \in x2
      /\ ~E!Recorded(job.id) /\ \A v \in Uploads : v # u /\ E!Stores(v) => x5[v].id # job.id
      /\ E!Holds("primary", job.id, job.payload) /\ E!Holds("backup", job.id, job.payload)
  BY <1>0, <1>1 DEF E!UploadInv, E!Stores, E!Upload
<1>3. row \in E!EvidenceRecord /\ row # E!NoEvidence
  BY <1>1 DEF E!EvidenceRecord, E!NoEvidence, E!Upload
<1>4. x5'[u].at = "idle" /\ \A v \in Uploads : v # u => x5'[v] = x5[v]
  BY <1>0 DEF E!EvidenceTypes, E!NotBusy
<1>5. CASE winner # {}
  <2>1. PICK i \in winner : E!Answer(job.owner, job.payload, i)
    BY <1>5 DEF E!RecordEvidence, E!insertIfPayloadHashAbsent
  <2>2. UNCHANGED x1
    BY <1>5 DEF E!RecordEvidence, E!insertIfPayloadHashAbsent
  <2>3. i \in EvidenceIds
    BY DEF E!findOwnedByPayloadHash
  <2>4. E!EvidenceTypes'
    BY <1>0, <1>2, <2>1, <2>2, <2>3 DEF E!EvidenceTypes, E!Answer
  <2>5. \A v \in Uploads : E!UploadInv(v)'
    BY <1>0, <1>4, <2>2 DEF E!IndInv, E!UploadInv, E!Recorded, E!Stores, E!Holds
  <2> QED BY <1>0, <1>2, <2>1, <2>2, <2>4, <2>5, FoundStep
<1>6. CASE winner = {}
  <2>1. x1' = [ x1 EXCEPT ![job.id] = row ] /\ E!Answer(job.owner, job.payload, job.id)
    BY <1>6 DEF E!RecordEvidence, E!insertIfPayloadHashAbsent
  <2>2. x1'[job.id] = row /\ \A j \in EvidenceIds : j # job.id => x1'[j] = x1[j]
    BY <1>0, <1>2, <2>1 DEF E!EvidenceTypes
  <2>3. \A j \in EvidenceIds : E!Recorded(j) => ~(x1[j].owner = job.owner /\ x1[j].payload = job.payload)
    BY <1>6 DEF E!findOwnedByPayloadHash, E!Recorded
  <2> HIDE DEF row
  <2>4. E!EvidenceTypes'
    BY <1>0, <1>2, <1>3, <2>1 DEF E!EvidenceTypes, E!Answer
  <2>5. row.owner = job.owner /\ row.payload = job.payload
    BY DEF row
  <2> HIDE DEF winner
  <2>6. E!RecordInv(job.id)'
    BY <1>0, <1>2, <2>2, <2>3, <2>5 DEF E!RecordInv, E!Recorded, E!Holds
  <2>7. ASSUME NEW j \in EvidenceIds, j # job.id PROVE E!RecordInv(j)'
    BY <1>0, <2>2, <2>3, <2>5, <2>7 DEF E!IndInv, E!RecordInv, E!Recorded, E!Holds
  <2>8. ASSUME NEW v \in Uploads PROVE E!UploadInv(v)'
    <3>1. CASE v = u
      BY <1>4, <3>1 DEF E!UploadInv, E!Stores
    <3>2. CASE v # u
      <4>1. E!UploadInv(v) /\ x5'[v] = x5[v] /\ (E!Stores(v) => x5[v].id # job.id)
        BY <1>2, <1>4, <3>2 DEF E!IndInv
      <4>2. x5[v].at # "idle" => x5[v].id \in EvidenceIds
        <5>1. x5[v] \in {E!NotBusy} \cup E!Upload \cup [ at : {"bind"}, id : EvidenceIds, by : Participants \cup {Admin} ]
                    \cup [ at : {"restore"}, id : EvidenceIds, bytes : E!Bytes ]
          BY <1>0 DEF E!EvidenceTypes
        <5> QED BY <5>1 DEF E!NotBusy, E!Upload
      <4>3. E!Stores(v) => ~E!Recorded(x5[v].id)'
        BY <4>1, <4>2, <2>2 DEF E!UploadInv, E!Recorded, E!Stores
      <4>4. x5[v].at \in { "bind", "restore" } => x1'[x5[v].id] = x1[x5[v].id]
        BY <1>2, <4>1, <4>2, <2>2 DEF E!UploadInv
      <4>5. \A w \in Uploads : (E!Stores(w)' /\ w # v) => (E!Stores(v) => x5'[w].id # x5[v].id)
        BY <1>4, <4>1 DEF E!Stores, E!UploadInv
      <4> QED BY <1>0, <4>1, <4>3, <4>4, <4>5 DEF E!UploadInv, E!Stores, E!Holds, E!Recorded
    <3> QED BY <3>1, <3>2
  <2>9. ASSUME NEW a \in x6' PROVE E!AnswerInv(a)'
    <3>1. a \in x6 \/ a = [ owner |-> job.owner, payload |-> job.payload, id |-> job.id ]
      BY <2>1 DEF E!Answer
    <3>2. CASE a \in x6
      <4>1. E!AnswerInv(a) /\ a.id \in EvidenceIds
        BY <1>0, <3>2 DEF E!IndInv, E!EvidenceTypes
      <4>2. a.id # job.id
        BY <1>2, <4>1 DEF E!AnswerInv
      <4> QED BY <2>2, <4>1, <4>2 DEF E!AnswerInv, E!Recorded
    <3>3. CASE a = [ owner |-> job.owner, payload |-> job.payload, id |-> job.id ]
      <4>1. a.owner = job.owner /\ a.payload = job.payload /\ a.id = job.id
        BY <3>3
      <4> QED BY <1>3, <2>2, <2>5, <4>1 DEF E!AnswerInv, E!Recorded
    <3> QED BY <3>1, <3>2, <3>3
  <2> QED BY <2>4, <2>6, <2>7, <2>8, <2>9 DEF E!IndInv
<1> QED BY <1>5, <1>6

(* A request that holds no object leaves the others as they are.           *)
LEMMA WorkStep ==
  ASSUME E!IndInv, NEW u \in Uploads, ~E!Stores(u), NEW next, x5' = [ x5 EXCEPT ![u] = next ],
         next.at \notin { "primary", "backup", "record" }, E!EvidenceTypes',
         next.at \in { "bind", "restore" } => E!Recorded(next.id),
         next.at = "restore" => next.bytes = x1[next.id].payload,
         UNCHANGED << x1, x2, x3, x4, x6, x7 >>
  PROVE  E!IndInv'
<1>1. x5'[u] = next /\ \A v \in Uploads : v # u => x5'[v] = x5[v]
  BY DEF E!IndInv, E!EvidenceTypes
<1>2. \A v \in Uploads : E!UploadInv(v)'
  BY <1>1 DEF E!IndInv, E!UploadInv, E!Recorded, E!Stores, E!Holds
<1>3. \A i \in EvidenceIds : E!RecordInv(i)'
  BY DEF E!IndInv, E!RecordInv, E!Recorded, E!Holds
<1>4. \A a \in x6' : E!AnswerInv(a)'
  BY DEF E!IndInv, E!AnswerInv, E!Recorded
<1> QED BY <1>2, <1>3, <1>4 DEF E!IndInv

LEMMA BindStep ==
  ASSUME E!IndInv, NEW u \in Uploads, NEW i \in EvidenceIds, NEW by \in Participants \cup {Admin},
         E!bindEvidence(u, i, by)
  PROVE  E!IndInv'
<1> DEFINE next == [ at |-> "bind", id |-> i, by |-> by ]
<1>1. /\ E!EvidenceTypes /\ x5[u] = E!NotBusy /\ x1[i].status = "uploaded" /\ x5' = [ x5 EXCEPT ![u] = next ]
      /\ UNCHANGED << x1, x2, x3, x4, x6, x7 >>
  BY DEF E!IndInv, E!bindEvidence, E!Turn, E!objectVars
<1>2. E!EvidenceTypes'
  BY <1>1 DEF E!EvidenceTypes
<1>3. ~E!Stores(u) /\ E!Recorded(i)
  BY <1>1 DEF E!Stores, E!NotBusy, E!Recorded, E!NoEvidence
<1> QED BY <1>1, <1>2, <1>3, WorkStep

LEMMA RestoreStep ==
  ASSUME E!IndInv, NEW u \in Uploads, NEW i \in EvidenceIds, E!restoreFromBackup(u, i)
  PROVE  E!IndInv'
<1> DEFINE next == [ at |-> "restore", id |-> i, bytes |-> x4[i] ]
<1>1. /\ E!EvidenceTypes /\ x5[u] = E!NotBusy /\ x1[i] # E!NoEvidence /\ x4[i] = x1[i].payload
      /\ x5' = [ x5 EXCEPT ![u] = next ] /\ UNCHANGED << x1, x2, x3, x4, x6, x7 >>
  BY DEF E!IndInv, E!restoreFromBackup, E!RestoreAllowed, E!Turn, E!objectVars
<1>2. E!EvidenceTypes'
  BY <1>1 DEF E!EvidenceTypes
<1>3. ~E!Stores(u) /\ E!Recorded(i)
  BY <1>1 DEF E!Stores, E!NotBusy, E!Recorded
<1> QED BY <1>1, <1>2, <1>3, WorkStep

(* A mark changes the status of a record and nothing else of it.           *)
LEMMA MarkStep ==
  ASSUME E!IndInv, NEW u \in Uploads, E!markBound(u)
  PROVE  E!IndInv'
<1>j. PICK k : k = x5[u].id
  OBVIOUS
<1>0. /\ E!EvidenceTypes /\ x5[u].at = "bind" /\ E!Recorded(k) /\ x1' = [ x1 EXCEPT ![k].status = "bound" ]
      /\ x5' = [ x5 EXCEPT ![u] = E!NotBusy ] /\ UNCHANGED << x2, x3, x4, x6, x7 >>
  BY <1>j DEF E!IndInv, E!UploadInv, E!markBound, E!Turn, E!objectVars
<1>1. k \in EvidenceIds
  <2>1. x5[u] \in {E!NotBusy} \cup E!Upload \cup [ at : {"bind"}, id : EvidenceIds, by : Participants \cup {Admin} ]
              \cup [ at : {"restore"}, id : EvidenceIds, bytes : E!Bytes ]
    BY <1>0 DEF E!EvidenceTypes
  <2> QED BY <1>j, <1>0, <2>1 DEF E!NotBusy, E!Upload
<1>2. x1[k] \in E!EvidenceRecord
  BY <1>0, <1>1 DEF E!EvidenceTypes, E!Recorded
<1>3. /\ x1'[k] = [ x1[k] EXCEPT !.status = "bound" ]
      /\ \A j \in EvidenceIds : j # k => x1'[j] = x1[j]
  BY <1>0, <1>1 DEF E!EvidenceTypes
<1>4. [ x1[k] EXCEPT !.status = "bound" ] \in E!EvidenceRecord
  BY <1>2 DEF E!EvidenceRecord
<1>5. /\ x1'[k].owner = x1[k].owner /\ x1'[k].payload = x1[k].payload /\ x1'[k] # E!NoEvidence
  BY <1>2, <1>3 DEF E!EvidenceRecord, E!NoEvidence
<1>6. \A j \in EvidenceIds : /\ E!Recorded(j)' <=> E!Recorded(j)
                             /\ E!Recorded(j) => x1'[j].owner = x1[j].owner /\ x1'[j].payload = x1[j].payload
  BY <1>0, <1>3, <1>5 DEF E!Recorded
<1>7. x5'[u].at = "idle" /\ \A v \in Uploads : v # u => x5'[v] = x5[v]
  BY <1>0 DEF E!EvidenceTypes, E!NotBusy
<1>8. E!EvidenceTypes'
  BY <1>0, <1>1, <1>4 DEF E!EvidenceTypes
<1>9. ASSUME NEW v \in Uploads, v # u PROVE E!UploadInv(v)'
  <2>1. x5[v].at \in { "primary", "backup", "record", "bind", "restore" } => x5[v].id \in EvidenceIds
    <3>1. x5[v] \in {E!NotBusy} \cup E!Upload \cup [ at : {"bind"}, id : EvidenceIds, by : Participants \cup {Admin} ]
                \cup [ at : {"restore"}, id : EvidenceIds, bytes : E!Bytes ]
      BY <1>0 DEF E!EvidenceTypes
    <3> QED BY <3>1 DEF E!NotBusy, E!Upload
  <2>2. E!UploadInv(v) /\ x5'[v] = x5[v]
    BY <1>7, <1>9 DEF E!IndInv
  <2>3. \A w \in Uploads : (w # v /\ E!Stores(w)') => E!Stores(w) /\ x5'[w] = x5[w]
    BY <1>7 DEF E!Stores
  <2>4. E!Stores(v)' => E!Stores(v)
    BY <2>2 DEF E!Stores
  <2>5. /\ E!Stores(v) => ~E!Recorded(x5[v].id)'
        /\ x5[v].at \in { "bind", "restore" } => E!Recorded(x5[v].id)' /\ x1'[x5[v].id].payload = x1[x5[v].id].payload
    BY <1>6, <2>1, <2>2 DEF E!UploadInv, E!Stores, E!Recorded
  <2> QED BY <1>0, <2>2, <2>3, <2>4, <2>5 DEF E!UploadInv, E!Stores, E!Holds, E!Recorded
<1>10. E!UploadInv(u)'
  BY <1>7 DEF E!UploadInv, E!Stores
<1>11. \A i \in EvidenceIds : E!RecordInv(i)'
  BY <1>0, <1>6 DEF E!IndInv, E!RecordInv, E!Holds
<1>12. \A a \in x6' : E!AnswerInv(a)'
  BY <1>0, <1>6 DEF E!IndInv, E!AnswerInv, E!EvidenceTypes
<1> QED BY <1>8, <1>9, <1>10, <1>11, <1>12 DEF E!IndInv

(* A restoration writes the recorded payload; the media may spoil any copy *)
(* at any time.                                                            *)
LEMMA ObjectStep ==
  ASSUME E!IndInv, UNCHANGED << x1, x2, x6 >>, E!EvidenceTypes',
         NEW i \in EvidenceIds,
         \A j \in EvidenceIds : j # i => x3'[j] = x3[j] /\ x4'[j] = x4[j],
         \A j \in EvidenceIds : \A copy \in { "primary", "backup" } :
           << copy, j >> \notin x7' /\ << copy, j >> \in x7 =>
             j = i /\ copy = "primary" /\ E!Recorded(i) /\ x3'[i] = x1[i].payload,
         x3'[i] = x3[i] \/ << "primary", i >> \in x7' \/ (E!Recorded(i) /\ x3'[i] = x1[i].payload),
         x4'[i] = x4[i] \/ << "backup", i >> \in x7',
         \A v \in Uploads : x5'[v] = x5[v] \/ x5'[v].at = "idle"
  PROVE  E!IndInv'
<1>1. ASSUME NEW j \in EvidenceIds PROVE E!RecordInv(j)'
  BY DEF E!IndInv, E!RecordInv, E!Recorded, E!Holds
<1>2. ASSUME NEW v \in Uploads PROVE E!UploadInv(v)'
  <2>1. E!UploadInv(v) /\ E!EvidenceTypes
    BY DEF E!IndInv
  <2>2. E!Stores(v) => x5[v].id \in EvidenceIds /\ ~E!Recorded(x5[v].id)
    BY <2>1 DEF E!UploadInv, E!EvidenceTypes, E!Stores
  <2>3. \A w \in Uploads : E!Stores(w)' => E!Stores(w) /\ x5'[w] = x5[w]
    BY DEF E!Stores
  <2>4. CASE x5'[v] = x5[v]
    <3>1. ASSUME NEW k \in EvidenceIds, ~E!Recorded(k), NEW p
          PROVE  /\ E!Holds("primary", k, p) => E!Holds("primary", k, p)'
                 /\ E!Holds("backup", k, p) => E!Holds("backup", k, p)'
      BY <3>1 DEF E!Holds
    <3> QED BY <2>1, <2>2, <2>3, <2>4, <3>1 DEF E!UploadInv, E!Stores, E!Recorded, E!Holds
  <2>5. CASE x5'[v].at = "idle"
    BY <2>5 DEF E!UploadInv, E!Stores
  <2> QED BY <2>4, <2>5
<1>3. \A a \in x6' : E!AnswerInv(a)'
  BY DEF E!IndInv, E!AnswerInv, E!Recorded
<1> QED BY <1>1, <1>2, <1>3 DEF E!IndInv

LEMMA RestoreWritesStep ==
  ASSUME E!IndInv, NEW u \in Uploads, E!RestoreWrites(u)
  PROVE  E!IndInv'
<1>j. PICK job : job = x5[u]
  OBVIOUS
<1>0. /\ E!EvidenceTypes /\ job.at = "restore" /\ E!Recorded(job.id) /\ job.bytes = x1[job.id].payload
      /\ x3' = [ x3 EXCEPT ![job.id] = job.bytes ] /\ x7' = x7 \ { << "primary", job.id >> }
      /\ x5' = [ x5 EXCEPT ![u] = E!NotBusy ] /\ UNCHANGED << x1, x2, x4, x6 >>
  BY <1>j DEF E!IndInv, E!UploadInv, E!RestoreWrites, E!Turn
<1>1. job.id \in EvidenceIds /\ job.bytes \in E!Bytes
  <2>1. job \in {E!NotBusy} \cup E!Upload \cup [ at : {"bind"}, id : EvidenceIds, by : Participants \cup {Admin} ]
              \cup [ at : {"restore"}, id : EvidenceIds, bytes : E!Bytes ]
    BY <1>j, <1>0 DEF E!EvidenceTypes
  <2> QED BY <1>0, <2>1 DEF E!NotBusy, E!Upload
<1>2. E!EvidenceTypes'
  BY <1>0, <1>1 DEF E!EvidenceTypes
<1>3. x3'[job.id] = x1[job.id].payload /\ \A j \in EvidenceIds : j # job.id => x3'[j] = x3[j]
  BY <1>0, <1>1 DEF E!EvidenceTypes
<1>4. \A v \in Uploads : x5'[v] = x5[v] \/ x5'[v].at = "idle"
  BY <1>0 DEF E!EvidenceTypes, E!NotBusy
<1> QED BY <1>0, <1>1, <1>2, <1>3, <1>4, ObjectStep

LEMMA SpoilsStep ==
  ASSUME E!IndInv, NEW copy \in { "primary", "backup" }, NEW i \in EvidenceIds, NEW bytes \in { "none", Damaged },
         E!MediaSpoils(copy, i, bytes)
  PROVE  E!IndInv'
<1>0. /\ E!EvidenceTypes /\ UNCHANGED << x1, x2, x5, x6 >> /\ x7' = x7 \cup { << copy, i >> }
      /\ x3' = IF copy = "primary" THEN [ x3 EXCEPT ![i] = bytes ] ELSE x3
      /\ x4' = IF copy = "backup" THEN [ x4 EXCEPT ![i] = bytes ] ELSE x4
  BY DEF E!IndInv, E!MediaSpoils
<1>1. E!EvidenceTypes'
  BY <1>0 DEF E!EvidenceTypes, E!Bytes
<1>2. \A j \in EvidenceIds : j # i => x3'[j] = x3[j] /\ x4'[j] = x4[j]
  BY <1>0 DEF E!EvidenceTypes
<1> QED BY <1>0, <1>1, <1>2, ObjectStep

LEMMA EvidenceStep == E!IndInv /\ [E!Next]_(E!evidenceVars) => E!IndInv'
<1> SUFFICES ASSUME E!IndInv, [E!Next]_(E!evidenceVars) PROVE E!IndInv'
  OBVIOUS
<1>1. CASE UNCHANGED E!evidenceVars
  BY <1>1 DEF E!evidenceVars, E!IndInv, E!EvidenceTypes, E!UploadInv, E!RecordInv, E!AnswerInv, E!Recorded,
              E!Stores, E!Holds
<1>2. CASE E!Next
  BY <1>2, UploadStep, PutStep, RecordStep, BindStep, MarkStep, RestoreStep, RestoreWritesStep, SpoilsStep DEF E!Next
<1> QED BY <1>1, <1>2

(* What a participant was told is stored is stored: one record for a       *)
(* payload, however many uploads race; a second copy before the record;    *)
(* and bytes that prove the payload after every restoration.               *)
THEOREM EvidenceStays == Spec => []EvidenceKept
<1> DEFINE Inv == focus = "evidence" => E!IndInv
<1>1. Init => Inv
  BY EvidenceInit DEF Init
<1>2. Inv /\ [Next]_allVars => Inv'
  BY FocusStep, EvidenceStep
<1>3. Inv => EvidenceKept
  <2> SUFFICES ASSUME E!IndInv PROVE E!EvidenceKept
    BY DEF EvidenceKept
  <2>1. E!OneRecordPerPayload
    <3> SUFFICES ASSUME NEW a \in x6 PROVE E!findOwnedByPayloadHash(a.owner, a.payload) = { a.id }
      BY DEF E!OneRecordPerPayload
    <3>1. E!AnswerInv(a) /\ a.id \in EvidenceIds /\ E!RecordInv(a.id)
      BY DEF E!IndInv, E!EvidenceTypes
    <3> QED BY <3>1 DEF E!AnswerInv, E!RecordInv, E!Recorded, E!findOwnedByPayloadHash
  <2>2. E!BackedUp
    BY DEF E!IndInv, E!BackedUp, E!RecordInv, E!Recorded, E!Holds
  <2>3. E!ProofsHold
    <3> SUFFICES ASSUME NEW i \in EvidenceIds, E!Recorded(i), << "primary", i >> \notin x7
                 PROVE E!verifyEvidenceRecord(i) \in { "matched", "unbound" }
      BY DEF E!ProofsHold, E!Recorded
    <3>1. x3[i] = x1[i].payload /\ x1[i].payload \in Payloads
      BY DEF E!IndInv, E!RecordInv, E!Recorded, E!Holds, E!EvidenceTypes, E!EvidenceRecord
    <3>2. x3[i] # "none"
      BY <3>1, ParticipantsConstants
    <3> QED BY <3>1, <3>2 DEF E!verifyEvidenceRecord
  <2> QED BY <2>1, <2>2, <2>3 DEF E!EvidenceKept
<1> QED BY <1>1, <1>2, <1>3, PTL DEF Spec, allVars

-----------------------------------------------------------------------------
(* Invites: x1 is inviteTime, x2 draftStatus, x3 participants, x4 invites, *)
(* x5 requests, x6 acceptances and x7 authorized.                          *)
LEMMA InvitesInit == I!Init => I!IndInv
<1> SUFFICES ASSUME I!Init PROVE I!IndInv
  OBVIOUS
<1>1. /\ x1 = 0 /\ x2 = "draft" /\ x3 = [ r \in Roles |-> [ status |-> "missing", wallet |-> NoOne ] ]
      /\ x4 = [ i \in InviteIds |-> I!NoInvite ] /\ x5 = [ q \in InviteRequests |-> I!Idle ] /\ x6 = {} /\ x7 = {}
  BY DEF I!Init
<1>2. I!InviteTypes
  BY <1>1 DEF I!InviteTypes, I!Participant, I!Wallets, I!DraftStatuses
<1>3. I!OneActiveInvite /\ I!SpentOnce /\ I!AuthoritySound
  BY <1>1 DEF I!OneActiveInvite, I!NoInvite, I!SpentOnce, I!AuthoritySound, I!AuthorityWasAccepted, I!NoDoubleAuthority
<1>4. /\ \A q \in InviteRequests : I!RequestInv(q)
      /\ \A a \in x6 : I!AcceptanceInv(a)
      /\ \A r \in Roles : I!ParticipantInv(r)
  BY <1>1 DEF I!RequestInv, I!Idle, I!ParticipantInv
<1> QED BY <1>2, <1>3, <1>4 DEF I!IndInv

(* The shapes of a request.                                                *)
LEMMA RequestShape ==
  ASSUME I!InviteTypes, NEW q \in InviteRequests
  PROVE  /\ x5[q].at \in { "create.checked", "create.write" } =>
              x5[q].role \in Roles /\ x5[q].found \in I!Participant /\ x5[q].draft \in I!DraftStatuses
         /\ x5[q].at \in { "expire", "answer.participant", "answer.write" } =>
              x5[q].invite \in InviteIds /\ x5[q].kind \in I!Kinds /\ x5[q].wallet \in I!Wallets
         /\ x5[q].at = "answer.write" => x5[q].found \in I!Participant
<1>1. x5[q] = I!Idle \/ x5[q] \in [ at : { "create.checked", "create.write" }, role : Roles, found : I!Participant, draft : I!DraftStatuses ]
      \/ x5[q] \in [ at : { "expire", "answer.participant" }, invite : InviteIds, kind : I!Kinds, wallet : I!Wallets ]
      \/ x5[q] \in [ at : {"answer.write"}, invite : InviteIds, kind : I!Kinds, wallet : I!Wallets, found : I!Participant ]
  BY DEF I!InviteTypes
<1>2. I!Idle.at = "idle"
  BY DEF I!Idle
<1> QED BY <1>1, <1>2

(* A request that moves on and writes nothing.                             *)
LEMMA RequestMoves ==
  ASSUME I!IndInv, NEW q \in InviteRequests, NEW next, x5' = [ x5 EXCEPT ![q] = next ],
         UNCHANGED << x1, x2, x3, x4, x6, x7 >>,
         next = I!Idle
         \/ next \in [ at : { "create.checked", "create.write" }, role : Roles, found : I!Participant, draft : I!DraftStatuses ]
         \/ (/\ next \in [ at : { "expire", "answer.participant" }, invite : InviteIds, kind : I!Kinds, wallet : I!Wallets ]
                         \cup [ at : {"answer.write"}, invite : InviteIds, kind : I!Kinds, wallet : I!Wallets, found : I!Participant ]
             /\ x4[next.invite] # I!NoInvite)
  PROVE  I!IndInv'
<1>1. x5'[q] = next /\ \A p \in InviteRequests : p # q => x5'[p] = x5[p]
  BY DEF I!IndInv, I!InviteTypes
<1>2. I!InviteTypes'
  BY DEF I!IndInv, I!InviteTypes
<1>3. next.at \in { "expire", "answer.participant", "answer.write" } => x4[next.invite] # I!NoInvite
  BY DEF I!Idle
<1>4. \A p \in InviteRequests : I!RequestInv(p)'
  BY <1>1, <1>3 DEF I!IndInv, I!RequestInv
<1>5. I!OneActiveInvite' /\ I!SpentOnce' /\ I!AuthoritySound'
  BY DEF I!IndInv, I!OneActiveInvite, I!isInviteExpired, I!SpentOnce, I!AuthoritySound, I!AuthorityWasAccepted,
         I!NoDoubleAuthority
<1>6. \A a \in x6' : I!AcceptanceInv(a)'
  BY DEF I!IndInv, I!AcceptanceInv
<1>7. \A r \in Roles : I!ParticipantInv(r)'
  BY DEF I!IndInv, I!ParticipantInv
<1> QED BY <1>2, <1>4, <1>5, <1>6, <1>7 DEF I!IndInv

LEMMA ReadsStep ==
  ASSUME I!IndInv, NEW q \in InviteRequests,
         \/ \E r \in Roles : I!CreateReads(q, r)
         \/ I!CreateChecks(q)
         \/ \E i \in InviteIds, w \in InviteWallets : I!requireAcceptableInvite(q, i, "accepted", w)
         \/ \E i \in InviteIds : I!requireAcceptableInvite(q, i, "rejected", NoOne)
         \/ I!AnswerChecks(q)
  PROVE  I!IndInv'
<1>0. I!InviteTypes /\ I!RequestInv(q)
  BY DEF I!IndInv
<1>1. ASSUME NEW r \in Roles, I!CreateReads(q, r) PROVE I!IndInv'
  <2> DEFINE next == [ at |-> "create.checked", role |-> r, found |-> x3[r], draft |-> x2 ]
  <2>1. x5' = [ x5 EXCEPT ![q] = next ] /\ UNCHANGED << x1, x2, x3, x4, x6, x7 >>
    BY <1>1 DEF I!CreateReads, I!Step
  <2>2. next \in [ at : { "create.checked", "create.write" }, role : Roles, found : I!Participant, draft : I!DraftStatuses ]
    BY <1>0 DEF I!InviteTypes
  <2> HIDE DEF next
  <2> QED BY <2>1, <2>2, RequestMoves
<1>2. ASSUME I!CreateChecks(q) PROVE I!IndInv'
  <2> DEFINE next == [ x5[q] EXCEPT !.at = "create.write" ]
  <2>1. /\ x5' = [ x5 EXCEPT ![q] = I!Idle ] \/ x5' = [ x5 EXCEPT ![q] = next ]
        /\ UNCHANGED << x1, x2, x3, x4, x6, x7 >> /\ x5[q].at = "create.checked"
    BY <1>2 DEF I!CreateChecks, I!Step
  <2>2. next \in [ at : { "create.checked", "create.write" }, role : Roles, found : I!Participant, draft : I!DraftStatuses ]
    <3>1. x5[q] \in {I!Idle} \cup [ at : { "create.checked", "create.write" }, role : Roles, found : I!Participant, draft : I!DraftStatuses ]
           \cup [ at : { "expire", "answer.participant" }, invite : InviteIds, kind : I!Kinds, wallet : I!Wallets ]
           \cup [ at : {"answer.write"}, invite : InviteIds, kind : I!Kinds, wallet : I!Wallets, found : I!Participant ]
      BY <1>0 DEF I!InviteTypes
    <3> QED BY <2>1, <3>1 DEF I!Idle
  <2> HIDE DEF next
  <2> QED BY <2>1, <2>2, RequestMoves
<1>3. ASSUME NEW i \in InviteIds, NEW kind \in I!Kinds, NEW w \in I!Wallets, I!requireAcceptableInvite(q, i, kind, w)
      PROVE  I!IndInv'
  <2> DEFINE next == [ at |-> IF I!isInviteExpired(x4[i]) THEN "expire" ELSE "answer.participant",
                       invite |-> i, kind |-> kind, wallet |-> w ]
  <2>1. x5' = [ x5 EXCEPT ![q] = next ] /\ UNCHANGED << x1, x2, x3, x4, x6, x7 >> /\ x4[i] # I!NoInvite
    BY <1>3 DEF I!requireAcceptableInvite, I!Step, I!NoInvite
  <2>2. next \in [ at : { "expire", "answer.participant" }, invite : InviteIds, kind : I!Kinds, wallet : I!Wallets ]
        /\ next.invite = i
    OBVIOUS
  <2> HIDE DEF next
  <2> QED BY <2>1, <2>2, RequestMoves
<1>4. ASSUME I!AnswerChecks(q) PROVE I!IndInv'
  <2> DEFINE role == x4[x5[q].invite].role
             next == [ at |-> "answer.write", invite |-> x5[q].invite, kind |-> x5[q].kind,
                       wallet |-> x5[q].wallet, found |-> x3[role] ]
  <2>1. /\ x5' = [ x5 EXCEPT ![q] = I!Idle ] \/ x5' = [ x5 EXCEPT ![q] = next ]
        /\ UNCHANGED << x1, x2, x3, x4, x6, x7 >> /\ x5[q].at = "answer.participant"
    BY <1>4 DEF I!AnswerChecks, I!Step
  <2>2. x5[q].invite \in InviteIds /\ x5[q].kind \in I!Kinds /\ x5[q].wallet \in I!Wallets /\ x4[x5[q].invite] # I!NoInvite
    BY <1>0, <2>1, RequestShape DEF I!RequestInv
  <2>3. role \in Roles
    BY <1>0, <2>2 DEF I!InviteTypes, I!Invite
  <2>4. next \in [ at : {"answer.write"}, invite : InviteIds, kind : I!Kinds, wallet : I!Wallets, found : I!Participant ]
        /\ next.invite = x5[q].invite
    BY <1>0, <2>2, <2>3 DEF I!InviteTypes
  <2> HIDE DEF next
  <2> QED BY <2>1, <2>2, <2>4, RequestMoves
<1> QED BY <1>1, <1>2, <1>3, <1>4 DEF I!Kinds, I!Wallets

(* Invites keep what they were made for; an answered one is never active   *)
(* again.                                                                  *)
LEMMA CreateStep ==
  ASSUME I!IndInv, NEW q \in InviteRequests, NEW i \in InviteIds, NEW e \in Lifetimes, I!CreateWrites(q, i, e)
  PROVE  I!IndInv'
<1>j. PICK r, found, draft : r = x5[q].role /\ found = x5[q].found /\ draft = x5[q].draft
  OBVIOUS
<1> USE <1>j
<1> DEFINE after == [ x3 EXCEPT ![r] = [ found EXCEPT !.status = "invited" ] ]
           invite == [ status |-> "active", role |-> r, expires |-> e, wallet |-> NoOne ]
<1>0. /\ I!InviteTypes /\ x4[i] = I!NoInvite /\ x5[q].at = "create.write" /\ x5' = [ x5 EXCEPT ![q] = I!Idle ]
      /\ UNCHANGED << x1, x6, x7 >>
  BY DEF I!IndInv, I!CreateWrites, I!Step
<1>1. r \in Roles /\ found \in I!Participant /\ draft \in I!DraftStatuses
  BY <1>0, RequestShape
<1>2. CASE ~I!HasActiveInvite(r)
  <2>1. x3' = after /\ x4' = [ x4 EXCEPT ![i] = invite ] /\ x2' = I!refreshDraftStatus(draft, after)
    BY <1>2 DEF I!CreateWrites, I!createInviteIfNoneActive
  <2>2. [ found EXCEPT !.status = "invited" ] \in I!Participant /\ [ found EXCEPT !.status = "invited" ].status = "invited"
    BY <1>1 DEF I!Participant
  <2>3. invite \in I!Invite /\ invite # I!NoInvite
    BY <1>1, ParticipantsConstants DEF I!Invite, I!Wallets, I!NoInvite
  <2>4. x2' \in I!DraftStatuses
    BY <1>1, <2>1 DEF I!refreshDraftStatus, I!DraftStatuses
  <2>5. x4'[i] = invite /\ \A j \in InviteIds : j # i => x4'[j] = x4[j]
    BY <1>0, <2>1 DEF I!InviteTypes
  <2>6. x3'[r].status = "invited" /\ \A s \in Roles : s # r => x3'[s] = x3[s]
    BY <1>0, <1>1, <2>1, <2>2 DEF I!InviteTypes
  <2>7. I!InviteTypes'
    <3>1. x3' \in [ Roles -> I!Participant ]
      BY <1>0, <1>1, <2>1, <2>2 DEF I!InviteTypes
    <3>2. x4' \in [ InviteIds -> {I!NoInvite} \cup I!Invite ]
      BY <1>0, <2>1, <2>3 DEF I!InviteTypes
    <3> QED BY <1>0, <2>4, <3>1, <3>2 DEF I!InviteTypes
  <2>8. I!OneActiveInvite'
    <3>1. \A j \in InviteIds : (x4[j].status = "active" /\ x4[j].role = r) => I!isInviteExpired(x4[j])
      BY <1>2 DEF I!HasActiveInvite
    <3>2. ASSUME NEW j \in InviteIds, NEW k \in InviteIds, j # k, x4'[j].status = "active", x4'[k].status = "active",
                 x4'[j].role = x4'[k].role, ~(x4'[j].expires <= x1), ~(x4'[k].expires <= x1)
          PROVE  FALSE
      BY <2>5, <3>1, <3>2 DEF I!IndInv, I!OneActiveInvite, I!isInviteExpired
    <3> QED BY <1>0, <3>2 DEF I!OneActiveInvite, I!isInviteExpired
  <2>9. \A a \in x6' : I!AcceptanceInv(a)'
    <3> SUFFICES ASSUME NEW a \in x6' PROVE I!AcceptanceInv(a)'
      OBVIOUS
    <3>1. I!AcceptanceInv(a) /\ a[1] # i
      BY <1>0 DEF I!IndInv, I!AcceptanceInv, I!NoInvite
    <3> QED BY <2>5, <3>1 DEF I!AcceptanceInv
  <2>10. \A s \in Roles : I!ParticipantInv(s)'
    BY <1>0, <2>6 DEF I!IndInv, I!ParticipantInv
  <2>11. \A p \in InviteRequests : I!RequestInv(p)'
    <3> SUFFICES ASSUME NEW p \in InviteRequests PROVE I!RequestInv(p)'
      OBVIOUS
    <3>1. CASE p = q
      BY <1>0, <3>1 DEF I!RequestInv, I!InviteTypes, I!Idle
    <3>2. CASE p # q
      <4>1. x5'[p] = x5[p] /\ I!RequestInv(p)
        BY <1>0, <3>2 DEF I!IndInv, I!InviteTypes
      <4>2. \A j \in InviteIds : x4[j] # I!NoInvite => x4'[j] # I!NoInvite
        BY <2>3, <2>5
      <4> QED BY <1>0, <4>1, <4>2, RequestShape DEF I!RequestInv
    <3> QED BY <3>1, <3>2
  <2>12. I!SpentOnce' /\ I!AuthoritySound'
    BY <1>0 DEF I!IndInv, I!SpentOnce, I!AuthoritySound, I!AuthorityWasAccepted, I!NoDoubleAuthority
  <2> QED BY <2>7, <2>8, <2>9, <2>10, <2>11, <2>12 DEF I!IndInv
<1>3. CASE I!HasActiveInvite(r)
  <2>1. UNCHANGED << x2, x3, x4 >>
    BY <1>3 DEF I!CreateWrites, I!createInviteIfNoneActive
  <2> QED BY <1>0, <2>1, RequestMoves
<1> QED BY <1>2, <1>3

(* What an update of one invite keeps, when it does not become active.     *)
LEMMA InviteClosed ==
  ASSUME I!IndInv, NEW i \in InviteIds, x4[i] # I!NoInvite,
         NEW status \in { "expired", "accepted", "rejected" }, NEW wallet \in I!Wallets,
         x4' = [ x4 EXCEPT ![i] = [ x4[i] EXCEPT !.status = status, !.wallet = wallet ] ],
         NEW q \in InviteRequests, x5' = [ x5 EXCEPT ![q] = I!Idle ], UNCHANGED << x1, x7 >>
  PROVE  /\ x4' \in [ InviteIds -> {I!NoInvite} \cup I!Invite ]
         /\ x4'[i].status = status /\ \A j \in InviteIds : j # i => x4'[j] = x4[j]
         /\ I!OneActiveInvite'
         /\ \A p \in InviteRequests : I!RequestInv(p)'
<1>0. I!InviteTypes /\ x4[i] \in I!Invite
  BY DEF I!IndInv, I!InviteTypes
<1>1. [ x4[i] EXCEPT !.status = status, !.wallet = wallet ] \in I!Invite
      /\ [ x4[i] EXCEPT !.status = status, !.wallet = wallet ].status = status
  BY <1>0 DEF I!Invite
<1>2. x4' \in [ InviteIds -> {I!NoInvite} \cup I!Invite ]
  BY <1>0, <1>1 DEF I!InviteTypes
<1>3. x4'[i].status = status /\ \A j \in InviteIds : j # i => x4'[j] = x4[j]
  BY <1>0, <1>1 DEF I!InviteTypes
<1>4. I!OneActiveInvite'
  BY <1>3 DEF I!IndInv, I!OneActiveInvite, I!isInviteExpired
<1>5. \A j \in InviteIds : x4[j] # I!NoInvite => x4'[j] # I!NoInvite
  <2>1. I!NoInvite.status = "none"
    BY DEF I!NoInvite
  <2> QED BY <1>3, <2>1
<1>6. \A p \in InviteRequests : I!RequestInv(p)'
  BY <1>0, <1>5, RequestShape DEF I!IndInv, I!RequestInv, I!InviteTypes, I!Idle
<1> QED BY <1>2, <1>3, <1>4, <1>6

LEMMA ExpireStep ==
  ASSUME I!IndInv, NEW q \in InviteRequests, I!ExpireInvite(q)
  PROVE  I!IndInv'
<1>j. PICK i : i = x5[q].invite
  OBVIOUS
<1>0. /\ I!InviteTypes /\ x5[q].at = "expire" /\ x4' = [ x4 EXCEPT ![i].status = "expired" ]
      /\ x5' = [ x5 EXCEPT ![q] = I!Idle ] /\ UNCHANGED << x1, x2, x3, x6, x7 >>
  BY <1>j DEF I!IndInv, I!ExpireInvite, I!Step
<1>1. i \in InviteIds /\ x4[i] # I!NoInvite /\ x4[i] \in I!Invite
  BY <1>j, <1>0, RequestShape DEF I!IndInv, I!RequestInv, I!InviteTypes
<1>2. x4' = [ x4 EXCEPT ![i] = [ x4[i] EXCEPT !.status = "expired", !.wallet = x4[i].wallet ] ] /\ x4[i].wallet \in I!Wallets
  <2>1. [ x4[i] EXCEPT !.status = "expired", !.wallet = x4[i].wallet ] = [ x4[i] EXCEPT !.status = "expired" ]
    BY <1>1 DEF I!Invite
  <2> QED BY <1>0, <1>1, <2>1 DEF I!Invite
<1>3. /\ x4' \in [ InviteIds -> {I!NoInvite} \cup I!Invite ]
      /\ x4'[i].status = "expired" /\ \A j \in InviteIds : j # i => x4'[j] = x4[j]
      /\ I!OneActiveInvite'
      /\ \A p \in InviteRequests : I!RequestInv(p)'
  BY <1>0, <1>1, <1>2, InviteClosed
<1>4. I!InviteTypes'
  BY <1>0, <1>3 DEF I!InviteTypes
<1>5. \A a \in x6' : I!AcceptanceInv(a)'
  BY <1>0, <1>3 DEF I!IndInv, I!AcceptanceInv
<1>6. I!SpentOnce' /\ I!AuthoritySound' /\ \A r \in Roles : I!ParticipantInv(r)'
  BY <1>0 DEF I!IndInv, I!SpentOnce, I!AuthoritySound, I!AuthorityWasAccepted, I!NoDoubleAuthority, I!ParticipantInv
<1> QED BY <1>3, <1>4, <1>5, <1>6 DEF I!IndInv

(* The update is conditional on an active invite: only then does the       *)
(* answer reach the participant.                                           *)
LEMMA AnswerStep ==
  ASSUME I!IndInv, NEW q \in InviteRequests, I!AnswerWrites(q)
  PROVE  I!IndInv'
<1>j. PICK i, kind, found, role, mine :
        i = x5[q].invite /\ kind = x5[q].kind /\ found = x5[q].found /\ role = x4[i].role /\ mine = x5[q].wallet
  OBVIOUS
<1> DEFINE wallet == IF kind = "accepted" THEN mine ELSE found.wallet
           after == [ x3 EXCEPT ![role] = [ status |-> kind, wallet |-> wallet ] ]
           held == IF kind = "accepted" THEN mine ELSE x4[i].wallet
<1>0. /\ I!InviteTypes /\ x5[q].at = "answer.write" /\ x5' = [ x5 EXCEPT ![q] = I!Idle ] /\ UNCHANGED << x1, x7 >>
  BY DEF I!IndInv, I!AnswerWrites, I!Step
<1>1. /\ i \in InviteIds /\ kind \in I!Kinds /\ mine \in I!Wallets /\ found \in I!Participant
      /\ x4[i] # I!NoInvite /\ x4[i] \in I!Invite
  BY <1>j, <1>0, RequestShape DEF I!IndInv, I!RequestInv, I!InviteTypes
<1>2. role \in Roles /\ wallet \in I!Wallets /\ held \in I!Wallets
  BY <1>j, <1>1 DEF I!Invite, I!Participant
<1>3. CASE x4[i].status # "active"
  <2>1. UNCHANGED << x2, x3, x4, x6 >>
    BY <1>j, <1>3 DEF I!AnswerWrites, I!updateInviteIfActive
  <2> QED BY <1>0, <2>1, RequestMoves
<1>4. CASE x4[i].status = "active"
  <2>1. /\ x4' = [ x4 EXCEPT ![i] = [ x4[i] EXCEPT !.status = kind, !.wallet = held ] ]
        /\ x3' = after /\ x2' = I!refreshDraftStatus(x2, after)
        /\ x6' = IF kind = "accepted" THEN x6 \cup { << i, role, mine >> } ELSE x6
    <3>1. x4' = [ x4 EXCEPT ![i] = [ x4[i] EXCEPT !.status = kind, !.wallet = held ] ]
      <4>1. CASE kind = "accepted"
        BY <1>j, <1>0, <1>1, <1>4, <4>1 DEF I!AnswerWrites, I!updateInviteIfActive, I!Invite, I!InviteTypes
      <4>2. CASE kind # "accepted"
        <5>1. x4' = [ x4 EXCEPT ![i] = [ x4[i] EXCEPT !.status = kind,
                                                      !.wallet = IF kind = "accepted" THEN mine ELSE x4[i].wallet ] ]
          BY <1>j, <1>4 DEF I!AnswerWrites, I!updateInviteIfActive
        <5> QED BY <4>2, <5>1
      <4> QED BY <4>1, <4>2
    <3>2. x3' = after /\ x2' = I!refreshDraftStatus(x2, after)
      BY <1>j, <1>4 DEF I!AnswerWrites, I!updateInviteIfActive
    <3>3. x6' = IF kind = "accepted" THEN x6 \cup { << i, role, mine >> } ELSE x6
      BY <1>j, <1>4 DEF I!AnswerWrites, I!updateInviteIfActive
    <3> QED BY <3>1, <3>2, <3>3
  <2> HIDE DEF wallet, held
  <2>2. [ status |-> kind, wallet |-> wallet ] \in I!Participant
    BY <1>1, <1>2 DEF I!Participant, I!Kinds
  <2>3. /\ x3' \in [ Roles -> I!Participant ] /\ x3'[role] = [ status |-> kind, wallet |-> wallet ]
        /\ \A r \in Roles : r # role => x3'[r] = x3[r]
    BY <1>0, <1>2, <2>1, <2>2 DEF I!InviteTypes
  <2>4. x2' \in I!DraftStatuses
    BY <1>0, <2>1 DEF I!InviteTypes, I!refreshDraftStatus, I!DraftStatuses
  <2>5. kind \in { "expired", "accepted", "rejected" }
    BY <1>1 DEF I!Kinds
  <2>6. /\ x4' \in [ InviteIds -> {I!NoInvite} \cup I!Invite ]
        /\ x4'[i].status = kind /\ \A j \in InviteIds : j # i => x4'[j] = x4[j]
        /\ I!OneActiveInvite'
        /\ \A p \in InviteRequests : I!RequestInv(p)'
    BY <1>0, <1>1, <1>2, <2>1, <2>5, InviteClosed
  <2>7. I!InviteTypes'
    BY <1>0, <2>3, <2>4, <2>6 DEF I!InviteTypes
  <2>8. \A a \in x6 : a[1] \in InviteIds /\ a[1] # i
    BY <1>4 DEF I!IndInv, I!AcceptanceInv
  <2>9. \A a \in x6' : I!AcceptanceInv(a)'
    <3> SUFFICES ASSUME NEW a \in x6' PROVE I!AcceptanceInv(a)'
      OBVIOUS
    <3>1. CASE a \in x6
      BY <2>6, <2>8, <3>1 DEF I!IndInv, I!AcceptanceInv
    <3>2. CASE a = << i, role, mine >>
      BY <1>1, <2>5, <2>6, <3>2 DEF I!AcceptanceInv
    <3> QED BY <2>1, <3>1, <3>2
  <2>10. I!SpentOnce'
    BY <2>1, <2>8 DEF I!IndInv, I!SpentOnce
  <2>11. x6 \subseteq x6'
    BY <2>1
  <2>12. I!AuthoritySound'
    BY <1>0, <2>11 DEF I!IndInv, I!AuthoritySound, I!AuthorityWasAccepted, I!NoDoubleAuthority
  <2>13. I!ParticipantInv(role)'
    <3> SUFFICES ASSUME kind = "accepted" PROVE << i, role, wallet >> \in x6'
      BY <1>1, <2>3 DEF I!ParticipantInv
    <3> QED BY <2>1 DEF wallet
  <2>14. ASSUME NEW r \in Roles, r # role PROVE I!ParticipantInv(r)'
    BY <2>3, <2>11, <2>14 DEF I!IndInv, I!ParticipantInv
  <2>15. \A r \in Roles : I!ParticipantInv(r)'
    <3> SUFFICES ASSUME NEW r \in Roles PROVE I!ParticipantInv(r)'
      OBVIOUS
    <3>1. CASE r = role
      BY <2>3, <2>13, <3>1 DEF I!ParticipantInv
    <3> QED BY <2>14, <3>1
  <2> QED BY <2>6, <2>7, <2>9, <2>10, <2>12, <2>15 DEF I!IndInv
<1> QED BY <1>3, <1>4

(* What the trigger is prepared with is what the participants accepted.    *)
LEMMA TriggerStep ==
  ASSUME I!IndInv, \/ \E w \in InviteWallets : I!PrepareTrigger(w)
                   \/ I!SubmitTrigger
  PROVE  I!IndInv'
<1>0. /\ I!InviteTypes /\ UNCHANGED << x1, x3, x4, x5, x6 >>
      /\ x2' \in I!DraftStatuses
      /\ x7' = x7 \/ x7' = I!resolvePermissions \cup I!stagePatchAuthorizations
  BY DEF I!IndInv, I!PrepareTrigger, I!SubmitTrigger, I!InviteTypes, I!DraftStatuses
<1>1. I!AuthoritySound'
  <2>1. CASE x7' = x7
    BY <1>0, <2>1 DEF I!IndInv, I!AuthoritySound, I!AuthorityWasAccepted, I!NoDoubleAuthority
  <2>2. CASE x7' # x7
    <3>1. PICK w \in InviteWallets : I!PrepareTrigger(w)
      BY <2>2 DEF I!SubmitTrigger
    <3>2. /\ x7' = I!resolvePermissions \cup I!stagePatchAuthorizations
          /\ \A row \in PermissionTable : I!Filled(row.role) /\ I!addAuthorization(x7')
      BY <3>1 DEF I!PrepareTrigger, I!buildAuthorizations
    <3>3. ASSUME NEW a \in x7' PROVE \E i \in InviteIds : << i, a.role, a.submitter >> \in x6
      <4>1. PICK row \in PermissionTable \cup PatchRows : a = I!Authorization(row) /\ I!Filled(row.role)
        BY <3>2, <3>3 DEF I!resolvePermissions, I!stagePatchAuthorizations
      <4>2. row.role \in Roles /\ a.role = row.role /\ a.submitter = x3[row.role].wallet
        BY <4>1, ParticipantsConstants DEF I!Authorization
      <4> QED BY <4>1, <4>2 DEF I!Filled, I!IndInv, I!ParticipantInv
    <3>4. I!addAuthorization(x7')
      BY <3>1, <3>2 DEF I!PrepareTrigger, I!buildAuthorizations
    <3>5. I!AuthorityWasAccepted'
      BY <1>0, <3>3 DEF I!AuthorityWasAccepted
    <3>6. I!NoDoubleAuthority'
      BY <3>4 DEF I!NoDoubleAuthority, I!addAuthorization
    <3> QED BY <3>5, <3>6 DEF I!AuthoritySound
  <2> QED BY <2>1, <2>2
<1>2. I!InviteTypes' /\ I!OneActiveInvite' /\ I!SpentOnce'
  BY <1>0 DEF I!IndInv, I!InviteTypes, I!OneActiveInvite, I!isInviteExpired, I!SpentOnce
<1>3. /\ \A q \in InviteRequests : I!RequestInv(q)'
      /\ \A a \in x6' : I!AcceptanceInv(a)'
      /\ \A r \in Roles : I!ParticipantInv(r)'
  BY <1>0 DEF I!IndInv, I!RequestInv, I!AcceptanceInv, I!ParticipantInv
<1> QED BY <1>1, <1>2, <1>3 DEF I!IndInv

LEMMA InvitesStep == I!IndInv /\ [I!Next]_(I!inviteVars) => I!IndInv'
<1> SUFFICES ASSUME I!IndInv, [I!Next]_(I!inviteVars) PROVE I!IndInv'
  OBVIOUS
<1>1. CASE I!TimePasses \/ UNCHANGED I!inviteVars
  <2>1. UNCHANGED << x2, x3, x4, x5, x6, x7 >> /\ x1 \in Nat /\ x1' \in Nat /\ x1 <= x1'
    BY <1>1 DEF I!TimePasses, I!inviteVars, I!IndInv, I!InviteTypes
  <2>2. I!OneActiveInvite'
    <3>1. \A j \in InviteIds : x4[j].status = "active" => x4[j].expires \in Int
      BY DEF I!IndInv, I!InviteTypes, I!NoInvite, I!Invite
    <3>2. \A j \in InviteIds : x4[j].status = "active" /\ ~(x4[j].expires <= x1') => ~(x4[j].expires <= x1)
      BY <2>1, <3>1
    <3> QED BY <2>1, <3>2 DEF I!IndInv, I!OneActiveInvite, I!isInviteExpired
  <2>3. I!InviteTypes' /\ I!SpentOnce' /\ I!AuthoritySound'
    BY <2>1 DEF I!IndInv, I!InviteTypes, I!SpentOnce, I!AuthoritySound, I!AuthorityWasAccepted, I!NoDoubleAuthority
  <2>4. /\ \A q \in InviteRequests : I!RequestInv(q)'
        /\ \A a \in x6' : I!AcceptanceInv(a)'
        /\ \A r \in Roles : I!ParticipantInv(r)'
    BY <2>1 DEF I!IndInv, I!RequestInv, I!AcceptanceInv, I!ParticipantInv
  <2> QED BY <2>2, <2>3, <2>4 DEF I!IndInv
<1> QED BY <1>1, ReadsStep, CreateStep, ExpireStep, AnswerStep, TriggerStep DEF I!Next

(* A role has one open invite however many creators race, an invite one    *)
(* answer however many wallets hold its token, and the preview tells which *)
(* answer it would be.                                                     *)
THEOREM InvitesHonest == Spec => []InvitesSound
<1> DEFINE Inv == focus = "invites" => I!IndInv
<1>1. Init => Inv
  BY InvitesInit DEF Init
<1>2. Inv /\ [Next]_allVars => Inv'
  BY FocusStep, InvitesStep
<1>3. Inv => InvitesSound
  <2> SUFFICES ASSUME I!IndInv PROVE I!InvitesSound
    BY DEF InvitesSound
  <2>1. I!PreviewTruthful
    <3> SUFFICES ASSUME NEW i \in InviteIds, NEW w \in InviteWallets, x4[i] # I!NoInvite
                 PROVE  (I!inviteAcceptance(i, w) = "can_accept") <=>
                          /\ x4[i].status = "active" /\ ~I!isInviteExpired(x4[i])
                          /\ I!assertWalletCanAcceptInvite(x4[i].role, x3[x4[i].role], w)
      BY DEF I!PreviewTruthful
    <3>1. x4[i].status \in { "active", "expired", "accepted", "rejected" }
      BY DEF I!IndInv, I!InviteTypes, I!Invite
    <3>2. CASE x4[i].status # "active"
      BY <3>1, <3>2 DEF I!inviteAcceptance, I!inviteWithCurrentStatus
    <3>3. CASE x4[i].status = "active" /\ I!isInviteExpired(x4[i])
      BY <3>3 DEF I!inviteAcceptance, I!inviteWithCurrentStatus
    <3>4. CASE x4[i].status = "active" /\ ~I!isInviteExpired(x4[i])
      <4>1. I!inviteWithCurrentStatus(x4[i]) = "active"
        BY <3>4 DEF I!inviteWithCurrentStatus
      <4> QED BY <3>4, <4>1 DEF I!inviteAcceptance, I!assertWalletCanAcceptInvite
    <3> QED BY <3>2, <3>3, <3>4
  <2> QED BY <2>1 DEF I!InvitesSound, I!IndInv
<1> QED BY <1>1, <1>2, <1>3, PTL DEF Spec, allVars

(* An order is prepared only with authority for the wallets that accepted  *)
(* an invite to the very role, and no wallet holds a signal twice.         *)
THEOREM AuthorityAccepted == Spec => []AuthoritySound
<1> DEFINE Inv == focus = "invites" => I!IndInv
<1>1. Init => Inv
  BY InvitesInit DEF Init
<1>2. Inv /\ [Next]_allVars => Inv'
  BY FocusStep, InvitesStep
<1>3. Inv => AuthoritySound
  BY DEF AuthoritySound, I!IndInv
<1> QED BY <1>1, <1>2, <1>3, PTL DEF Spec, allVars

-----------------------------------------------------------------------------
(* Webhooks: x1 is clock, x2 signed, x3 seen and x4 accepted.              *)

LEMMA WebhooksInit == W!Init => W!IndInv
<1> SUFFICES ASSUME W!Init PROVE W!IndInv
  OBVIOUS
<1>1. x1 = 0 /\ x2 = [ m \in Messages |-> -1 ] /\ x3 = << >> /\ x4 = [ m \in Messages |-> 0 ]
  BY DEF W!Init
<1>2. W!Remembered = {} /\ Len(x3) = 0
  BY <1>1 DEF W!Remembered
<1>3. W!Cardinality(W!Remembered) = 0
  BY <1>2, SameCardinality, FS_EmptySet
<1> QED BY <1>1, <1>2, <1>3 DEF W!IndInv

(* A message that is taken is not remembered: as long as its signature is  *)
(* in time, so is the memory of it.  There is room to remember it.         *)
LEMMA ReceiveStep ==
  ASSUME W!IndInv, NEW m \in Messages, W!Receive(m)
  PROVE  W!IndInv'
<1> DEFINE entry == [ nonce |-> m, at |-> x2[m] ]
<1>0. /\ x2 \in [ Messages -> Int ] /\ x3 \in Seq([ nonce : Messages, at : Int ]) /\ x4 \in [ Messages -> Nat ]
      /\ x1 \in Int /\ x2[m] # -1 /\ W!Distance(x1, x2[m]) <= Tolerance /\ ~W!Known(m)
      /\ UNCHANGED << x1, x2 >> /\ x4' = [ x4 EXCEPT ![m] = @ + 1 ]
      /\ \A i \in 1..Len(x3) : x3[i].at = x2[x3[i].nonce] /\ x3[i].at # -1
  BY DEF W!IndInv, W!Receive, W!observe, W!verifyWebhookSignature
<1>1. \A i \in 1..Len(x3) : x3[i].nonce # m
  BY <1>0 DEF W!Known
<1>2. W!Without(m) = x3
  BY <1>1 DEF W!Without
<1>3. m \notin W!Remembered
  BY <1>1 DEF W!Remembered
<1>4. W!Remembered \subseteq Messages
  <2>1. \A i \in 1..Len(x3) : x3[i] \in [ nonce : Messages, at : Int ]
    BY <1>0, ElementOfSeq
  <2> QED BY <2>1 DEF W!Remembered
<1>5. IsFiniteSet(W!Remembered) /\ IsFiniteSet(W!Remembered \cup {m}) /\ Cardinality(W!Remembered) = Len(x3)
      /\ Cardinality(W!Remembered \cup {m}) = Cardinality(W!Remembered) + 1
  BY <1>3, <1>4, ParticipantsConstants, FS_Subset, FS_AddElement, SameCardinality DEF W!IndInv
<1>6. Len(x3) + 1 <= MaxNonces
  <2>1. W!Remembered \cup {m} \subseteq Messages
    BY <1>4
  <2>2. Cardinality(W!Remembered \cup {m}) <= Cardinality(Messages) /\ Cardinality(Messages) \in Nat
    BY <2>1, ParticipantsConstants, FS_Subset, FS_CardinalityType
  <2> QED BY <1>0, <1>5, <2>2, ParticipantsConstants
<1>7. x3' = Append(x3, entry) /\ Len(Append(x3, entry)) = Len(x3) + 1
  <2>1. entry \in [ nonce : Messages, at : Int ]
    BY <1>0
  <2>2. Len(Append(x3, entry)) = Len(x3) + 1
    BY <1>0, <2>1
  <2>3. ~(Len(Append(x3, entry)) > MaxNonces)
    BY <1>0, <1>6, <2>2, ParticipantsConstants
  <2> QED BY <1>2, <2>2, <2>3 DEF W!Receive, W!observe, W!Remember
<1>8. /\ x3' \in Seq([ nonce : Messages, at : Int ]) /\ Len(x3') = Len(x3) + 1
      /\ \A i \in 1..Len(x3) : x3'[i] = x3[i]
      /\ x3'[Len(x3) + 1] = entry
  BY <1>0, <1>7
<1>9. \A i \in 1..Len(x3') : i \in 1..Len(x3) \/ i = Len(x3) + 1
  BY <1>0, <1>8
<1>10. W!Remembered' = W!Remembered \cup {m}
  <2>1. \A i \in 1..Len(x3) : i \in 1..Len(x3')
    BY <1>0, <1>8
  <2>2. Len(x3) + 1 \in 1..Len(x3') /\ x3'[Len(x3) + 1].nonce = m
    BY <1>0, <1>8
  <2> QED BY <1>8, <1>9, <2>1, <2>2 DEF W!Remembered
<1>11. W!Cardinality(W!Remembered)' = Len(x3')
  <2>1. W!Cardinality(W!Remembered') = Cardinality(W!Remembered')
    BY SameCardinality
  <2> QED BY <1>0, <1>5, <1>8, <1>10, <2>1
<1>12. \A i \in 1..Len(x3') : x3'[i].at = x2[x3'[i].nonce] /\ x3'[i].at # -1
  <2> SUFFICES ASSUME NEW i \in 1..Len(x3') PROVE x3'[i].at = x2[x3'[i].nonce] /\ x3'[i].at # -1
    OBVIOUS
  <2>1. CASE i \in 1..Len(x3)
    BY <1>0, <1>8, <2>1
  <2>2. CASE i = Len(x3) + 1
    <3>1. x3'[i] = entry
      BY <1>8, <2>2
    <3> QED BY <1>0, <3>1
  <2> QED BY <1>9, <2>1, <2>2
<1>13. x4[m] = 0
  <2>1. x4[m] <= 1 /\ x4[m] # 1
    BY <1>3 DEF W!IndInv
  <2>2. x4[m] \in Nat
    BY <1>0
  <2> QED BY <2>1, <2>2
<1>14. /\ x4' \in [ Messages -> Nat ]
       /\ \A n \in Messages : x4'[n] <= 1 /\ (x4'[n] = 1 => n \in W!Remembered')
  BY <1>0, <1>10, <1>13 DEF W!IndInv
<1> QED BY <1>0, <1>8, <1>11, <1>12, <1>14 DEF W!IndInv

LEMMA WebhooksStep == W!IndInv /\ [W!Next]_(W!webhookVars) => W!IndInv'
<1> SUFFICES ASSUME W!IndInv, [W!Next]_(W!webhookVars) PROVE W!IndInv'
  OBVIOUS
<1>1. CASE W!Tick \/ UNCHANGED W!webhookVars
  <2>1. UNCHANGED << x2, x3, x4 >> /\ (x1' = x1 + 1 \/ x1' = x1)
    BY <1>1 DEF W!Tick, W!webhookVars
  <2>2. W!Remembered' = W!Remembered
    BY <2>1 DEF W!Remembered
  <2> QED BY <2>1, <2>2 DEF W!IndInv
<1>2. ASSUME NEW m \in Messages, W!signWebhookBody(m) PROVE W!IndInv'
  <2>1. PICK t \in 0..(MaxClock + MaxSkew) : x2' = [ x2 EXCEPT ![m] = t ]
    BY <1>2 DEF W!signWebhookBody
  <2>2. x2[m] = -1 /\ UNCHANGED << x1, x3, x4 >> /\ t \in Int /\ x2 \in [ Messages -> Int ]
        /\ x3 \in Seq([ nonce : Messages, at : Int ])
    BY <1>2 DEF W!signWebhookBody, W!IndInv
  <2>3. x2' \in [ Messages -> Int ] /\ \A n \in Messages : n # m => x2'[n] = x2[n]
    BY <2>1, <2>2
  <2>4. \A i \in 1..Len(x3) : x3[i].nonce \in Messages /\ x3[i].nonce # m
    <3>1. \A i \in 1..Len(x3) : x3[i] \in [ nonce : Messages, at : Int ]
      BY <2>2, ElementOfSeq
    <3>2. \A i \in 1..Len(x3) : x3[i].at = x2[x3[i].nonce] /\ x3[i].at # -1
      BY DEF W!IndInv
    <3> QED BY <2>2, <3>1, <3>2
  <2>5. W!Remembered' = W!Remembered
    BY <2>2 DEF W!Remembered
  <2> QED BY <2>2, <2>3, <2>4, <2>5 DEF W!IndInv
<1> QED BY <1>1, <1>2, ReceiveStep DEF W!Next

(* A message is accepted once: whatever the clocks, an intercepted request *)
(* expires together with the memory of its nonce.                          *)
THEOREM NoReplay == Spec => []AcceptedOnce
<1> DEFINE Inv == focus = "webhooks" => W!IndInv
<1>1. Init => Inv
  BY WebhooksInit DEF Init
<1>2. Inv /\ [Next]_allVars => Inv'
  BY FocusStep, WebhooksStep
<1>3. Inv => AcceptedOnce
  BY DEF AcceptedOnce, W!AcceptedOnce, W!IndInv
<1> QED BY <1>1, <1>2, <1>3, PTL DEF Spec, allVars

-----------------------------------------------------------------------------
(* Stage patches: x1 is time, x2 stageSignals, x3 overlay, x4              *)
(* preparedPatch, x5 reserved, x6 patchRows, x7 transactions, x8 submit    *)
(* and x9 trouble.                                                         *)
LEMMA PatchesInit == P!Init => P!IndInv
<1> SUFFICES ASSUME P!Init PROVE P!IndInv
  OBVIOUS
<1>1. /\ x1 = 0 /\ x2 = {} /\ x3 = [ nonce |-> [ k \in P!Kinds |-> 0 ], executor |-> Nobody ]
      /\ x4 = [ p \in Prepares |-> P!Absent ] /\ x5 = [ n \in P!NonceKeys |-> -1 ]
      /\ x6 = {} /\ x7 = {} /\ x8 = [ s \in Submits |-> P!IdleSubmit ]
      /\ x9 = [ storeFailures |-> 0, kills |-> 0, takeovers |-> FALSE, attempts |-> 0 ]
  BY DEF P!Init
<1>2. P!IsFiniteSet({})
  BY FS_EmptySet, SameCardinality
<1>3. P!PatchTypes
  BY <1>1, <1>2 DEF P!PatchTypes
<1>4. P!SignalsInv
  BY <1>1, <1>2 DEF P!SignalsInv
<1>5. /\ \A s \in Submits : ~P!HoldsNonce(s) /\ ~P!Answered(s)
  BY <1>1 DEF P!HoldsNonce, P!Answered, P!IdleSubmit
<1>6. P!NonceInv /\ \A s \in Submits : P!AnswerInv(s)
  BY <1>1, <1>5 DEF P!NonceInv, P!HolderInv, P!AnswerInv
<1>7. P!NonceDiscipline
  BY <1>1 DEF P!NonceDiscipline, P!OneTransactionPerNonce, P!HashRecorded, P!NoWedgedNonce
<1> QED BY <1>3, <1>4, <1>6, <1>7 DEF P!IndInv

LEMMA SubmitShape ==
  ASSUME P!PatchTypes, NEW s \in Submits
  PROVE  /\ x8[s] = P!IdleSubmit \/
            x8[s] \in [ at : { "read", "checked", "reserved" }, prepare : Prepares, patch : P!Patch ] \/
            x8[s] \in [ at : { "answered", "fallback" }, prepare : Prepares, patch : P!Patch, result : P!Answer ]
         /\ x8[s].at # "idle" => x8[s].prepare \in Prepares /\ x8[s].patch \in P!Patch /\ P!KeyOf(s) \in P!NonceKeys
         /\ P!Answered(s) => x8[s].result \in P!Answer
<1>1. /\ x8[s] = P!IdleSubmit \/
            x8[s] \in [ at : { "read", "checked", "reserved" }, prepare : Prepares, patch : P!Patch ] \/
            x8[s] \in [ at : { "answered", "fallback" }, prepare : Prepares, patch : P!Patch, result : P!Answer ]
  BY DEF P!PatchTypes
<1>2. x8[s].at # "idle" => x8[s].prepare \in Prepares /\ x8[s].patch \in P!Patch
  BY <1>1 DEF P!IdleSubmit
<1>3. \A p \in P!Patch : P!stagePatchNonceKey(p) \in P!NonceKeys
  BY DEF P!Patch, P!stagePatchNonceKey, P!NonceKeys, P!KindOf, P!Kinds
<1>4. P!Answered(s) => x8[s].result \in P!Answer
  BY <1>1 DEF P!Answered, P!IdleSubmit
<1> QED BY <1>1, <1>2, <1>3, <1>4 DEF P!KeyOf

(* A nonce is of whoever holds it, of a transaction, or of a final row.    *)
KeptBy(n) ==
  \/ \E t \in x7 : t.key = n
  \/ \E r \in x6 : r.key = n /\ r.status = "failed" /\ ~r.retryable

LEMMA WedgeMeans ==
  P!NoWedgedNonce <=>
    (x9.kills = 0 /\ ~x9.takeovers =>
       \A n \in P!NonceKeys : x5[n] # -1 =>
         KeptBy(n) \/ \E s \in Submits : P!HoldsNonce(s) /\ P!KeyOf(s) = n)
BY DEF P!NoWedgedNonce, KeptBy, P!HoldsNonce, P!KeyOf

(* A submit that holds no nonce before or after, or whose process dies.    *)
LEMMA QuietStep ==
  ASSUME P!IndInv, NEW s \in Submits, NEW next, next.at \notin { "reserved", "answered", "fallback" },
         x8' = [ x8 EXCEPT ![s] = next ], ~P!HoldsNonce(s) \/ x9'.kills > 0,
         UNCHANGED << x2, x5, x7 >>, x6 \subseteq x6', x9'.takeovers = x9.takeovers,
         x9'.storeFailures = x9.storeFailures, x9'.kills = x9.kills \/ x9'.kills > 0, P!PatchTypes'
  PROVE  P!IndInv'
<1>1. x8'[s] = next /\ \A r \in Submits : r # s => x8'[r] = x8[r]
  BY DEF P!IndInv, P!PatchTypes
<1>2. /\ ~P!HoldsNonce(s)' /\ ~P!Answered(s)'
      /\ \A r \in Submits : P!HoldsNonce(r)' => r # s /\ P!HoldsNonce(r) /\ x8'[r] = x8[r]
      /\ \A r \in Submits : P!Answered(r)' => r # s /\ P!Answered(r) /\ x8'[r] = x8[r]
      /\ \A r \in Submits : r # s => P!KeyOf(r)' = P!KeyOf(r)
  BY <1>1 DEF P!HoldsNonce, P!Answered, P!KeyOf
<1>3. P!SignalsInv'
  BY DEF P!IndInv, P!SignalsInv
<1>4. P!NonceInv'
  <2> SUFFICES ASSUME ~x9'.takeovers
               PROVE  (\A r \in Submits : P!HolderInv(r)') /\ (\A t \in x7 : P!LiveInv(t)')
    BY DEF P!NonceInv
  <2>1. (\A r \in Submits : P!HolderInv(r)) /\ (\A t \in x7 : P!LiveInv(t))
    BY DEF P!IndInv, P!NonceInv
  <2>2. \A r \in Submits : P!HolderInv(r)'
    BY <1>2, <2>1 DEF P!HolderInv
  <2>3. \A r \in Submits : P!HoldsNonce(r)' => (P!Answered(r)' <=> P!Answered(r))
    BY <1>2 DEF P!Answered
  <2>4. \A t \in x7 : P!LiveInv(t)'
    BY <1>2, <2>1, <2>3 DEF P!LiveInv, P!Live
  <2> QED BY <2>2, <2>4
<1>5. \A r \in Submits : P!AnswerInv(r)'
  BY <1>1, <1>2 DEF P!IndInv, P!AnswerInv
<1>6. P!OneTransactionPerNonce'
  BY DEF P!IndInv, P!NonceDiscipline, P!OneTransactionPerNonce
<1>7. P!HashRecorded'
  <2> SUFFICES ASSUME ~(x9'.kills > 0), ~(x9'.storeFailures > 1), NEW t \in x7
               PROVE  \/ \E r \in x6' : r.sent = t.id
                      \/ \E r \in Submits : x8'[r].at \in { "answered", "fallback" } /\ x8'[r].result.sent = t.id
    BY DEF P!HashRecorded
  <2>1. x9'.kills = x9.kills /\ ~P!HoldsNonce(s)
    OBVIOUS
  <2>2. \/ \E r \in x6 : r.sent = t.id
        \/ \E r \in Submits : x8[r].at \in { "answered", "fallback" } /\ x8[r].result.sent = t.id
    BY <2>1 DEF P!IndInv, P!NonceDiscipline, P!HashRecorded
  <2> QED BY <1>1, <2>1, <2>2 DEF P!HoldsNonce
<1>8. P!NoWedgedNonce'
  <2> SUFFICES ASSUME ~(x9'.kills > 0), ~x9'.takeovers, x9'.kills = 0, NEW n \in P!NonceKeys, x5[n] # -1
               PROVE  KeptBy(n)' \/ \E r \in Submits : P!HoldsNonce(r)' /\ P!KeyOf(r)' = n
    BY DEF P!NoWedgedNonce, KeptBy, P!HoldsNonce, P!KeyOf
  <2>1. x9'.kills = x9.kills /\ ~P!HoldsNonce(s)
    OBVIOUS
  <2>2. KeptBy(n) \/ \E r \in Submits : P!HoldsNonce(r) /\ P!KeyOf(r) = n
    BY <2>1, WedgeMeans DEF P!IndInv, P!NonceDiscipline
  <2>3. KeptBy(n) => KeptBy(n)'
    BY DEF KeptBy
  <2>4. \A r \in Submits : P!HoldsNonce(r) => r # s /\ P!HoldsNonce(r)'
    BY <1>1, <2>1 DEF P!HoldsNonce
  <2> QED BY <1>2, <2>2, <2>3, <2>4
<1> QED BY <1>3, <1>4, <1>5, <1>6, <1>7, <1>8 DEF P!IndInv, P!NonceDiscipline

(* A process that begins, gives up before it reserves, or dies.            *)
LEMMA SubmitTypes ==
  ASSUME P!PatchTypes, NEW s \in Submits, NEW next,
         next = P!IdleSubmit
         \/ next \in [ at : { "read", "checked", "reserved" }, prepare : Prepares, patch : P!Patch ]
         \/ next \in [ at : { "answered", "fallback" }, prepare : Prepares, patch : P!Patch, result : P!Answer ]
  PROVE  [ x8 EXCEPT ![s] = next ] \in [ Submits ->
       {P!IdleSubmit} \cup [ at : { "read", "checked", "reserved" }, prepare : Prepares, patch : P!Patch ]
       \cup [ at : { "answered", "fallback" }, prepare : Prepares, patch : P!Patch, result : P!Answer ] ]
BY DEF P!PatchTypes

LEMMA UsedTypes ==
  ASSUME P!PatchTypes, NEW p \in Prepares
  PROVE  P!Used(p) \in [ Prepares -> {P!Absent} \cup P!Patch ]
<1>1. x4 \in [ Prepares -> {P!Absent} \cup P!Patch ]
  BY DEF P!PatchTypes
<1>2. CASE x4[p].state = "absent"
  BY <1>1, <1>2 DEF P!Used
<1>3. CASE x4[p].state # "absent"
  <2>1. x4[p] \in P!Patch
    BY <1>1, <1>3 DEF P!Absent
  <2>2. [ x4[p] EXCEPT !.state = "used" ] \in P!Patch
    BY <2>1 DEF P!Patch
  <2> QED BY <1>1, <1>3, <2>2 DEF P!Used
<1> QED BY <1>2, <1>3

LEMMA EarlyStep ==
  ASSUME P!IndInv, NEW s \in Submits,
         \/ \E p \in Prepares : P!SubmitBegin(s, p)
         \/ P!SubmitExpired(s) \/ P!SubmitCheck(s) \/ P!Kill(s)
  PROVE  P!IndInv'
<1>0. P!PatchTypes /\ P!IdleSubmit.at = "idle"
  BY DEF P!IndInv, P!IdleSubmit
<1>1. ASSUME NEW p \in Prepares, P!SubmitBegin(s, p) PROVE P!IndInv'
  <2> DEFINE next == [ at |-> "read", prepare |-> p, patch |-> x4[p] ]
  <2>1. /\ x8[s].at = "idle" /\ x4[p] # P!Absent /\ x8' = [ x8 EXCEPT ![s] = next ]
        /\ UNCHANGED << x1, x2, x3, x4, x5, x6, x7 >> /\ x9' = [ x9 EXCEPT !.attempts = @ + 1 ]
    BY <1>1 DEF P!SubmitBegin
  <2>2. next \in [ at : { "read", "checked", "reserved" }, prepare : Prepares, patch : P!Patch ]
    BY <1>0, <2>1 DEF P!PatchTypes
  <2>3. /\ x9' \in [ storeFailures : Nat, kills : Nat, takeovers : BOOLEAN, attempts : Nat ]
        /\ x9'.takeovers = x9.takeovers /\ x9'.storeFailures = x9.storeFailures /\ x9'.kills = x9.kills
    BY <1>0, <2>1 DEF P!PatchTypes
  <2>4. next.at = "read"
    OBVIOUS
  <2> HIDE DEF next
  <2>5. P!PatchTypes'
    BY <1>0, <2>1, <2>2, <2>3, SubmitTypes DEF P!PatchTypes
  <2> QED BY <2>1, <2>3, <2>4, <2>5, QuietStep DEF P!HoldsNonce
<1>2. ASSUME P!SubmitExpired(s) PROVE P!IndInv'
  <2>1. /\ x8[s].at = "read" /\ x4' = P!Used(x8[s].prepare) /\ x8' = [ x8 EXCEPT ![s] = P!IdleSubmit ]
        /\ UNCHANGED << x1, x2, x3, x5, x7, x9 >> /\ x6 \subseteq x6'
    BY <1>2 DEF P!SubmitExpired, P!Record
  <2>2. P!PatchTypes'
    BY <1>0, <2>1, SubmitTypes, SubmitShape, UsedTypes DEF P!PatchTypes
  <2> QED BY <1>0, <2>1, <2>2, QuietStep DEF P!HoldsNonce
<1>3. ASSUME P!SubmitCheck(s) PROVE P!IndInv'
  <2> DEFINE next == IF P!StillCurrent(x2, x3, x8[s].patch) THEN [ x8[s] EXCEPT !.at = "checked" ] ELSE P!IdleSubmit
  <2>1. /\ x8[s].at = "read" /\ x8' = [ x8 EXCEPT ![s] = next ]
        /\ UNCHANGED << x1, x2, x3, x4, x5, x6, x7, x9 >>
    BY <1>3 DEF P!SubmitCheck
  <2>2. x8[s] \in [ at : { "read", "checked", "reserved" }, prepare : Prepares, patch : P!Patch ]
    BY <1>0, <2>1, SubmitShape
  <2>3. [ x8[s] EXCEPT !.at = "checked" ] \in [ at : { "read", "checked", "reserved" }, prepare : Prepares, patch : P!Patch ]
        /\ [ x8[s] EXCEPT !.at = "checked" ].at = "checked"
    BY <2>2
  <2>4. (next = P!IdleSubmit \/ next \in [ at : { "read", "checked", "reserved" }, prepare : Prepares, patch : P!Patch ])
        /\ next.at \notin { "reserved", "answered", "fallback" }
    BY <1>0, <2>3
  <2> HIDE DEF next
  <2>5. P!PatchTypes'
    BY <1>0, <2>1, <2>4, SubmitTypes DEF P!PatchTypes
  <2> QED BY <2>1, <2>4, <2>5, QuietStep DEF P!HoldsNonce
<1>4. ASSUME P!Kill(s) PROVE P!IndInv'
  <2>1. /\ x8' = [ x8 EXCEPT ![s] = P!IdleSubmit ] /\ x9' = [ x9 EXCEPT !.kills = @ + 1 ]
        /\ UNCHANGED << x1, x2, x3, x4, x5, x6, x7 >>
    BY <1>4 DEF P!Kill
  <2>2. /\ x9' \in [ storeFailures : Nat, kills : Nat, takeovers : BOOLEAN, attempts : Nat ]
        /\ x9'.takeovers = x9.takeovers /\ x9'.storeFailures = x9.storeFailures /\ x9'.kills > 0
    BY <1>0, <2>1 DEF P!PatchTypes
  <2>3. P!PatchTypes'
    BY <1>0, <2>1, <2>2, SubmitTypes DEF P!PatchTypes
  <2> QED BY <1>0, <2>1, <2>2, <2>3, QuietStep
<1> QED BY <1>1, <1>2, <1>3, <1>4

(* While no reservation was taken over, a nonce that is free has no live   *)
(* transaction and no holder.                                              *)
LEMMA ReserveStep ==
  ASSUME P!IndInv, NEW s \in Submits, P!SubmitReserve(s)
  PROVE  P!IndInv'
<1>j. PICK n : n = P!KeyOf(s)
  OBVIOUS
<1> DEFINE next == [ x8[s] EXCEPT !.at = "reserved" ]
<1>0. P!PatchTypes /\ x8[s].at = "checked" /\ UNCHANGED << x1, x2, x3, x4, x6, x7 >> /\ P!IdleSubmit.at = "idle"
  BY DEF P!IndInv, P!SubmitReserve, P!IdleSubmit
<1>1. x8[s] \in [ at : { "read", "checked", "reserved" }, prepare : Prepares, patch : P!Patch ] /\ n \in P!NonceKeys
  BY <1>j, <1>0, SubmitShape
<1>2. CASE ~P!CanReserve(n)
  <2>1. x8' = [ x8 EXCEPT ![s] = P!IdleSubmit ] /\ UNCHANGED << x5, x9 >>
    BY <1>j, <1>2 DEF P!SubmitReserve, P!KeyOf
  <2>2. P!PatchTypes'
    BY <1>0, <2>1, SubmitTypes DEF P!PatchTypes
  <2> QED BY <1>0, <2>1, <2>2, QuietStep DEF P!HoldsNonce
<1>3. CASE P!CanReserve(n)
  <2>1. /\ x5' = [ x5 EXCEPT ![n] = x1 ] /\ x9' = [ x9 EXCEPT !.takeovers = @ \/ x5[n] # -1 ]
        /\ x8' = [ x8 EXCEPT ![s] = next ]
    BY <1>j, <1>3 DEF P!SubmitReserve, P!KeyOf, P!Reserve
  <2>2. next \in [ at : { "read", "checked", "reserved" }, prepare : Prepares, patch : P!Patch ]
        /\ next.at = "reserved" /\ next.patch = x8[s].patch
    BY <1>1
  <2> HIDE DEF next
  <2>3. x8'[s] = next /\ \A r \in Submits : r # s => x8'[r] = x8[r]
    BY <1>0, <2>1 DEF P!PatchTypes
  <2>4. x5'[n] = x1 /\ x1 \in Nat /\ \A k \in P!NonceKeys : k # n => x5'[k] = x5[k]
    BY <1>0, <1>1, <2>1 DEF P!PatchTypes
  <2>5. x9 \in [ storeFailures : Nat, kills : Nat, takeovers : BOOLEAN, attempts : Nat ]
    BY <1>0 DEF P!PatchTypes
  <2>6. /\ x9' \in [ storeFailures : Nat, kills : Nat, takeovers : BOOLEAN, attempts : Nat ]
        /\ x9'.storeFailures = x9.storeFailures /\ x9'.kills = x9.kills
    BY <2>1, <2>5
  <2>7. ~x9'.takeovers => ~x9.takeovers /\ x5[n] = -1
    BY <2>1, <2>5
  <2>8. P!PatchTypes'
    <3>1. x5' \in [ P!NonceKeys -> Int ]
      <4>1. x5 \in [ P!NonceKeys -> Int ] /\ x1 \in Int
        BY <1>0, <2>4 DEF P!PatchTypes
      <4> QED BY <2>1, <4>1
    <3> QED BY <1>0, <2>1, <2>2, <2>6, <3>1, SubmitTypes DEF P!PatchTypes
  <2>9. /\ P!HoldsNonce(s)' /\ P!KeyOf(s)' = n /\ ~P!HoldsNonce(s) /\ ~P!Answered(s)' /\ ~P!Answered(s)
        /\ \A r \in Submits : r # s => /\ P!KeyOf(r)' = P!KeyOf(r) /\ P!HoldsNonce(r)' = P!HoldsNonce(r)
                                       /\ P!Answered(r)' = P!Answered(r)
    BY <1>j, <1>0, <2>2, <2>3 DEF P!HoldsNonce, P!Answered, P!KeyOf
  <2>10. \A r \in Submits : P!HoldsNonce(r) => P!KeyOf(r) \in P!NonceKeys
    BY <1>0, SubmitShape DEF P!HoldsNonce
  <2>11. \A t \in x7 : t.key \in P!NonceKeys
    BY <1>0 DEF P!PatchTypes
  <2>12. P!NonceInv'
    <3> SUFFICES ASSUME ~x9'.takeovers
                 PROVE  (\A r \in Submits : P!HolderInv(r)') /\ (\A t \in x7 : P!LiveInv(t)')
      BY <1>0 DEF P!NonceInv
    <3>1. (\A r \in Submits : P!HolderInv(r)) /\ (\A t \in x7 : P!LiveInv(t)) /\ x5[n] = -1
      BY <2>7 DEF P!IndInv, P!NonceInv
    <3>2. \A r \in Submits : P!HoldsNonce(r) => P!KeyOf(r) # n
      BY <3>1 DEF P!HolderInv
    <3>3. P!HolderInv(s)'
      BY <2>4, <2>9, <3>2 DEF P!HolderInv
    <3>4. ASSUME NEW r \in Submits, r # s PROVE P!HolderInv(r)'
      BY <2>4, <2>9, <2>10, <3>1, <3>2, <3>4 DEF P!HolderInv
    <3>5. ASSUME NEW t \in x7 PROVE P!LiveInv(t)'
      <4> SUFFICES ASSUME P!Live(t)
                   PROVE  /\ x5'[t.key] # -1
                          /\ \A r \in Submits : (P!HoldsNonce(r)' /\ P!KeyOf(r)' = t.key) =>
                               P!Answered(r)' /\ x8'[r].result.sent # 0
        BY DEF P!LiveInv, P!Live
      <4>1. x5[t.key] # -1 /\ t.key # n
        BY <3>1 DEF P!LiveInv
      <4>2. \A r \in Submits : (P!HoldsNonce(r) /\ P!KeyOf(r) = t.key) => P!Answered(r) /\ x8[r].result.sent # 0
        BY <3>1 DEF P!LiveInv
      <4> QED BY <2>3, <2>4, <2>9, <2>11, <4>1, <4>2
    <3> QED BY <3>3, <3>4, <3>5
  <2>13. \A r \in Submits : P!AnswerInv(r)'
    BY <1>0, <2>3, <2>6, <2>9 DEF P!IndInv, P!AnswerInv
  <2>14. P!OneTransactionPerNonce'
    BY <1>0, <2>7 DEF P!IndInv, P!NonceDiscipline, P!OneTransactionPerNonce
  <2>15. P!HashRecorded'
    BY <1>0, <2>3, <2>6, <2>9 DEF P!IndInv, P!NonceDiscipline, P!HashRecorded, P!Answered
  <2>16. P!NoWedgedNonce'
    <3> SUFFICES ASSUME x9'.kills = 0, ~x9'.takeovers, NEW k \in P!NonceKeys, x5'[k] # -1
                 PROVE  KeptBy(k)' \/ \E r \in Submits : P!HoldsNonce(r)' /\ P!KeyOf(r)' = k
      BY DEF P!NoWedgedNonce, KeptBy, P!HoldsNonce, P!KeyOf
    <3>1. CASE k = n
      BY <2>9, <3>1
    <3>2. CASE k # n
      <4>1. KeptBy(k) \/ \E r \in Submits : P!HoldsNonce(r) /\ P!KeyOf(r) = k
        BY <2>4, <2>6, <2>7, <3>2, WedgeMeans DEF P!IndInv, P!NonceDiscipline
      <4>2. KeptBy(k) => KeptBy(k)'
        BY <1>0 DEF KeptBy
      <4> QED BY <2>9, <4>1, <4>2
    <3> QED BY <3>1, <3>2
  <2>17. P!SignalsInv'
    BY <1>0 DEF P!IndInv, P!SignalsInv
  <2> QED BY <2>8, <2>12, <2>13, <2>14, <2>15, <2>16, <2>17 DEF P!IndInv, P!NonceDiscipline
<1> QED BY <1>2, <1>3

(* What broadcast answers: a hash or a failure.                            *)
LEMMA ResultShape ==
  ASSUME NEW a \in P!Results \cup { [ status |-> "failed", hash |-> FALSE, retryable |-> FALSE ] }
  PROVE  /\ a.status \in { "failed", "not_attempted", "submitted", "reverted" } /\ a.hash \in BOOLEAN
         /\ a.retryable \in BOOLEAN
         /\ ~a.hash => a.status \in { "failed", "not_attempted" }
         /\ a.hash => a.status # "not_attempted"
<1>1. ASSUME NEW b \in BOOLEAN, a = [ status |-> "failed", hash |-> FALSE, retryable |-> b ]
      PROVE  a.status = "failed" /\ ~a.hash /\ a.hash \in BOOLEAN /\ a.retryable \in BOOLEAN
  BY <1>1
<1>2. CASE a = [ status |-> "not_attempted", hash |-> FALSE, retryable |-> FALSE ]
  BY <1>2
<1>3. CASE a = [ status |-> "submitted", hash |-> TRUE, retryable |-> FALSE ]
  BY <1>3
<1>4. CASE a = [ status |-> "failed", hash |-> TRUE, retryable |-> TRUE ]
  BY <1>4
<1>5. CASE a = [ status |-> "reverted", hash |-> TRUE, retryable |-> FALSE ]
  BY <1>5
<1>6. \/ \E b \in BOOLEAN : a = [ status |-> "failed", hash |-> FALSE, retryable |-> b ]
      \/ a = [ status |-> "not_attempted", hash |-> FALSE, retryable |-> FALSE ]
      \/ a = [ status |-> "submitted", hash |-> TRUE, retryable |-> FALSE ]
      \/ a = [ status |-> "failed", hash |-> TRUE, retryable |-> TRUE ]
      \/ a = [ status |-> "reverted", hash |-> TRUE, retryable |-> FALSE ]
  BY DEF P!Results, P!classifyStagePatchBroadcastError
<1> QED BY <1>1, <1>2, <1>3, <1>4, <1>5, <1>6

(* The holder of a nonce sends the first transaction that may be applied.  *)
LEMMA BroadcastStep ==
  ASSUME P!IndInv, NEW s \in Submits, P!SubmitBroadcast(s)
  PROVE  P!IndInv'
<1>j. PICK n, id : n = P!KeyOf(s) /\ id = P!Cardinality(x7) + 1
  OBVIOUS
<1>0. P!PatchTypes /\ x8[s].at = "reserved" /\ UNCHANGED << x1, x2, x3, x4, x5, x6, x9 >>
  BY DEF P!IndInv, P!SubmitBroadcast
<1>1. x8[s].prepare \in Prepares /\ x8[s].patch \in P!Patch /\ n \in P!NonceKeys
  BY <1>j, <1>0, SubmitShape
<1>2. id \in Nat \ {0}
  <2>1. IsFiniteSet(x7)
    BY <1>0, SameCardinality DEF P!PatchTypes
  <2>2. Cardinality(x7) \in Nat
    BY <2>1, FS_CardinalityType
  <2> QED BY <1>j, <2>2, SameCardinality
<1> DEFINE sent(a) == [ id |-> id, key |-> n, prepare |-> x8[s].prepare,
                        fate |-> IF a.status = "reverted" THEN "failed" ELSE "open" ]
           answer(a) == [ status |-> a.status, sent |-> IF a.hash THEN id ELSE 0, retryable |-> a.retryable ]
           next(a) == [ at |-> "answered", prepare |-> x8[s].prepare, patch |-> x8[s].patch, result |-> answer(a) ]
<1>3. PICK a \in P!Results \cup { [ status |-> "failed", hash |-> FALSE, retryable |-> FALSE ] } :
        /\ x7' = IF a.hash THEN x7 \cup { sent(a) } ELSE x7
        /\ x8' = [ x8 EXCEPT ![s] = next(a) ]
  BY <1>j DEF P!SubmitBroadcast, P!KeyOf
<1>4. /\ a.status \in { "failed", "not_attempted", "submitted", "reverted" } /\ a.hash \in BOOLEAN
      /\ a.retryable \in BOOLEAN
      /\ ~a.hash => a.status \in { "failed", "not_attempted" }
      /\ a.hash => a.status # "not_attempted"
  BY ResultShape
<1>5. answer(a) \in P!Answer /\ answer(a).status = a.status /\ (a.hash => answer(a).sent = id)
      /\ (~a.hash => answer(a).sent = 0)
  BY <1>2, <1>4 DEF P!Answer
<1>6. sent(a) \in [ id : Nat \ {0}, key : P!NonceKeys, prepare : Prepares, fate : { "open", "applied", "failed" } ]
      /\ sent(a).id = id /\ sent(a).key = n
  BY <1>1, <1>2
<1> HIDE DEF answer, sent
<1>7. next(a) \in [ at : { "answered", "fallback" }, prepare : Prepares, patch : P!Patch, result : P!Answer ]
      /\ next(a).at = "answered" /\ next(a).result = answer(a) /\ next(a).patch = x8[s].patch
  BY <1>1, <1>5
<1> HIDE DEF next
<1>8. x8'[s] = next(a) /\ \A r \in Submits : r # s => x8'[r] = x8[r]
  BY <1>0, <1>3 DEF P!PatchTypes
<1>9. /\ P!HoldsNonce(s)' /\ P!HoldsNonce(s) /\ P!KeyOf(s)' = n /\ P!Answered(s)' /\ ~P!Answered(s)
      /\ \A r \in Submits : r # s => /\ P!KeyOf(r)' = P!KeyOf(r) /\ P!HoldsNonce(r)' = P!HoldsNonce(r)
                                     /\ P!Answered(r)' = P!Answered(r)
  BY <1>j, <1>0, <1>7, <1>8 DEF P!HoldsNonce, P!Answered, P!KeyOf
<1>10. P!PatchTypes'
  <2>1. P!IsFiniteSet(x7')
    <3>1. IsFiniteSet(x7)
      BY <1>0, SameCardinality DEF P!PatchTypes
    <3>2. IsFiniteSet(x7')
      BY <1>3, <3>1, FS_AddElement
    <3> QED BY <3>2, SameCardinality
  <2>2. x7' \subseteq [ id : Nat \ {0}, key : P!NonceKeys, prepare : Prepares, fate : { "open", "applied", "failed" } ]
    BY <1>0, <1>3, <1>6 DEF P!PatchTypes
  <2> QED BY <1>0, <1>3, <1>7, <2>1, <2>2, SubmitTypes DEF P!PatchTypes
<1>11. x7 \subseteq x7' /\ \A t \in x7' : t \in x7 \/ (a.hash /\ t = sent(a))
  BY <1>3
<1>12. ~x9.takeovers => \A t \in x7 : P!Live(t) => t.key # n
  BY <1>j, <1>9 DEF P!IndInv, P!NonceInv, P!LiveInv
<1>13. P!NonceInv'
  <2> SUFFICES ASSUME ~x9.takeovers
               PROVE  (\A r \in Submits : P!HolderInv(r)') /\ (\A t \in x7' : P!LiveInv(t)')
    BY <1>0 DEF P!NonceInv
  <2>1. (\A r \in Submits : P!HolderInv(r)) /\ (\A t \in x7 : P!LiveInv(t))
    BY DEF P!IndInv, P!NonceInv
  <2>2. ASSUME NEW r \in Submits PROVE P!HolderInv(r)'
    BY <1>j, <1>0, <1>9, <2>1 DEF P!HolderInv
  <2>3. ASSUME NEW t \in x7' PROVE P!LiveInv(t)'
    <3>1. CASE t \in x7
      <4> SUFFICES ASSUME P!Live(t)
                   PROVE  /\ x5[t.key] # -1
                          /\ \A r \in Submits : (P!HoldsNonce(r)' /\ P!KeyOf(r)' = t.key) =>
                               P!Answered(r)' /\ x8'[r].result.sent # 0
        BY <1>0 DEF P!LiveInv, P!Live
      <4>1. t.key # n /\ x5[t.key] # -1
        BY <1>12, <2>1, <3>1 DEF P!LiveInv
      <4>2. \A r \in Submits : (P!HoldsNonce(r) /\ P!KeyOf(r) = t.key) => P!Answered(r) /\ x8[r].result.sent # 0
        BY <2>1, <3>1 DEF P!LiveInv
      <4> QED BY <1>8, <1>9, <4>1, <4>2
    <3>2. CASE a.hash /\ t = sent(a)
      <4>1. t.key = n /\ x5[n] # -1
        BY <1>j, <1>6, <1>9, <2>1, <3>2 DEF P!HolderInv
      <4>2. \A r \in Submits : (P!HoldsNonce(r)' /\ P!KeyOf(r)' = n) => r = s
        BY <1>j, <1>9, <2>1 DEF P!HolderInv
      <4>3. P!Answered(s)' /\ x8'[s].result.sent # 0
        BY <1>2, <1>5, <1>7, <1>8, <1>9, <3>2
      <4> QED BY <1>0, <4>1, <4>2, <4>3 DEF P!LiveInv
    <3> QED BY <1>11, <3>1, <3>2
  <2> QED BY <2>2, <2>3
<1>14. ASSUME NEW r \in Submits PROVE P!AnswerInv(r)'
  <2>1. CASE r # s
    BY <1>0, <1>8, <1>9, <1>11, <2>1 DEF P!IndInv, P!AnswerInv
  <2>2. CASE r = s
    <3>1. a.hash => sent(a) \in x7'
      BY <1>3
    <3> QED BY <1>2, <1>4, <1>5, <1>6, <1>7, <1>8, <1>9, <2>2, <3>1 DEF P!AnswerInv
  <2> QED BY <2>1, <2>2
<1>15. P!OneTransactionPerNonce'
  <2>1. \A t \in x7' : P!Live(t) => (t \in x7 /\ (~x9.takeovers => t.key # n)) \/ (t = sent(a) /\ t.key = n)
    BY <1>6, <1>11, <1>12
  <2> QED BY <1>0, <1>6, <2>1 DEF P!IndInv, P!NonceDiscipline, P!OneTransactionPerNonce, P!Live
<1>16. P!HashRecorded'
  <2> SUFFICES ASSUME ~(x9.kills > 0), ~(x9.storeFailures > 1), NEW t \in x7'
               PROVE  \/ \E r \in x6 : r.sent = t.id
                      \/ \E r \in Submits : x8'[r].at \in { "answered", "fallback" } /\ x8'[r].result.sent = t.id
    BY <1>0 DEF P!HashRecorded
  <2>1. CASE t \in x7
    <3>1. \/ \E r \in x6 : r.sent = t.id
          \/ \E r \in Submits : x8[r].at \in { "answered", "fallback" } /\ x8[r].result.sent = t.id
      BY <2>1 DEF P!IndInv, P!NonceDiscipline, P!HashRecorded
    <3> QED BY <1>0, <1>8, <3>1
  <2>2. CASE a.hash /\ t = sent(a)
    BY <1>5, <1>6, <1>7, <1>8, <2>2
  <2> QED BY <1>11, <2>1, <2>2
<1>17. P!NoWedgedNonce'
  <2> SUFFICES ASSUME x9.kills = 0, ~x9.takeovers, NEW k \in P!NonceKeys, x5[k] # -1
               PROVE  KeptBy(k)' \/ \E r \in Submits : P!HoldsNonce(r)' /\ P!KeyOf(r)' = k
    BY <1>0 DEF P!NoWedgedNonce, KeptBy, P!HoldsNonce, P!KeyOf
  <2>1. KeptBy(k) \/ \E r \in Submits : P!HoldsNonce(r) /\ P!KeyOf(r) = k
    BY WedgeMeans DEF P!IndInv, P!NonceDiscipline
  <2>2. KeptBy(k) => KeptBy(k)'
    BY <1>0, <1>11 DEF KeptBy
  <2> QED BY <1>j, <1>9, <2>1, <2>2
<1>18. P!SignalsInv'
  BY <1>0 DEF P!IndInv, P!SignalsInv
<1> QED BY <1>10, <1>13, <1>14, <1>15, <1>16, <1>17, <1>18 DEF P!IndInv, P!NonceDiscipline

(* A submit that is over.                                                  *)
LEMMA DoneShape ==
  ASSUME P!IndInv, NEW s \in Submits, P!Answered(s), x8' = [ x8 EXCEPT ![s] = P!IdleSubmit ]
  PROVE  /\ x8'[s] = P!IdleSubmit /\ P!HoldsNonce(s) /\ ~P!HoldsNonce(s)' /\ ~P!Answered(s)'
         /\ \A r \in Submits : r # s =>
              /\ x8'[r] = x8[r] /\ P!KeyOf(r)' = P!KeyOf(r)
              /\ P!HoldsNonce(r)' = P!HoldsNonce(r) /\ P!Answered(r)' = P!Answered(r)
<1>1. x8'[s] = P!IdleSubmit /\ \A r \in Submits : r # s => x8'[r] = x8[r]
  BY DEF P!IndInv, P!PatchTypes
<1>2. P!IdleSubmit.at = "idle"
  BY DEF P!IdleSubmit
<1> QED BY <1>1, <1>2 DEF P!HoldsNonce, P!Answered, P!KeyOf

(* Only what left no transaction behind releases its nonce, so none that   *)
(* may still be applied carries it.                                        *)
LEMMA ReleaseStep ==
  ASSUME P!IndInv, NEW s \in Submits, NEW n, n = P!KeyOf(s), P!Answered(s), x8[s].result.sent = 0,
         x8' = [ x8 EXCEPT ![s] = P!IdleSubmit ], x5' = [ x5 EXCEPT ![n] = -1 ],
         UNCHANGED << x1, x2, x3, x4, x7 >>, x6 \subseteq x6',
         x9' \in [ storeFailures : Nat, kills : Nat, takeovers : BOOLEAN, attempts : Nat ],
         x9'.takeovers = x9.takeovers, x9'.kills = x9.kills, x9'.storeFailures >= x9.storeFailures
  PROVE  P!IndInv'
<1>0. P!PatchTypes
  BY DEF P!IndInv
<1>1. n \in P!NonceKeys
  BY <1>0, SubmitShape DEF P!Answered
<1>2. x5'[n] = -1 /\ x5' \in [ P!NonceKeys -> Int ] /\ \A k \in P!NonceKeys : k # n => x5'[k] = x5[k]
  BY <1>0, <1>1 DEF P!PatchTypes
<1>3. P!PatchTypes'
  BY <1>0, <1>2, SubmitTypes DEF P!PatchTypes
<1>4. x9 \in [ storeFailures : Nat, kills : Nat, takeovers : BOOLEAN, attempts : Nat ]
  BY <1>0 DEF P!PatchTypes
<1>5. \A r \in Submits : P!HoldsNonce(r) => P!KeyOf(r) \in P!NonceKeys
  BY <1>0, SubmitShape DEF P!HoldsNonce
<1>6. \A t \in x7 : t.key \in P!NonceKeys /\ t.id \in Nat \ {0}
  BY <1>0 DEF P!PatchTypes
<1>7. P!NonceInv'
  <2> SUFFICES ASSUME ~x9'.takeovers
               PROVE  (\A r \in Submits : P!HolderInv(r)') /\ (\A t \in x7 : P!LiveInv(t)')
    BY DEF P!NonceInv
  <2>1. (\A r \in Submits : P!HolderInv(r)) /\ (\A t \in x7 : P!LiveInv(t))
    BY DEF P!IndInv, P!NonceInv
  <2>2. \A r \in Submits : r # s /\ P!HoldsNonce(r) => P!KeyOf(r) # n
    BY <2>1, DoneShape DEF P!HolderInv
  <2>3. ASSUME NEW r \in Submits PROVE P!HolderInv(r)'
    <3>1. CASE r = s
      BY <3>1, DoneShape DEF P!HolderInv
    <3>2. CASE r # s
      <4>1. /\ P!KeyOf(r)' = P!KeyOf(r) /\ P!HoldsNonce(r)' = P!HoldsNonce(r)
            /\ \A q \in Submits : P!HoldsNonce(q)' => q # s /\ P!HoldsNonce(q) /\ P!KeyOf(q)' = P!KeyOf(q)
        BY <3>2, DoneShape
      <4> QED BY <1>2, <1>5, <2>1, <2>2, <3>2, <4>1 DEF P!HolderInv
    <3> QED BY <3>1, <3>2
  <2>4. ASSUME NEW t \in x7 PROVE P!LiveInv(t)'
    <3> SUFFICES ASSUME P!Live(t)
                 PROVE  /\ x5'[t.key] # -1
                        /\ \A r \in Submits : (P!HoldsNonce(r)' /\ P!KeyOf(r)' = t.key) =>
                             P!Answered(r)' /\ x8'[r].result.sent # 0
      BY DEF P!LiveInv, P!Live
    <3>1. x5[t.key] # -1 /\ \A r \in Submits : (P!HoldsNonce(r) /\ P!KeyOf(r) = t.key) =>
                                P!Answered(r) /\ x8[r].result.sent # 0
      BY <2>1 DEF P!LiveInv
    <3>2. t.key # n
      BY <3>1, DoneShape
    <3> QED BY <1>2, <1>6, <3>1, <3>2, DoneShape
  <2> QED BY <2>3, <2>4
<1>8. \A r \in Submits : P!AnswerInv(r)'
  <2> SUFFICES ASSUME NEW r \in Submits PROVE P!AnswerInv(r)'
    OBVIOUS
  <2>1. CASE r = s
    BY <2>1, DoneShape DEF P!AnswerInv
  <2>2. CASE r # s
    <3>1. x8'[r] = x8[r] /\ P!KeyOf(r)' = P!KeyOf(r) /\ (P!Answered(r)' => P!Answered(r)) /\ x7' = x7
      BY <2>2, DoneShape
    <3>2. P!AnswerInv(r)
      BY DEF P!IndInv
    <3>3. x9.storeFailures >= 1 => x9'.storeFailures >= 1
      BY <1>4
    <3> QED BY <3>1, <3>2, <3>3 DEF P!AnswerInv
  <2> QED BY <2>1, <2>2
<1>9. P!OneTransactionPerNonce'
  BY DEF P!IndInv, P!NonceDiscipline, P!OneTransactionPerNonce
<1>10. P!HashRecorded'
  <2> SUFFICES ASSUME ~(x9'.kills > 0), ~(x9'.storeFailures > 1), NEW t \in x7
               PROVE  \/ \E r \in x6' : r.sent = t.id
                      \/ \E r \in Submits : x8'[r].at \in { "answered", "fallback" } /\ x8'[r].result.sent = t.id
    BY DEF P!HashRecorded
  <2>1. \/ \E r \in x6 : r.sent = t.id
        \/ \E r \in Submits : x8[r].at \in { "answered", "fallback" } /\ x8[r].result.sent = t.id
    BY <1>4 DEF P!IndInv, P!NonceDiscipline, P!HashRecorded
  <2> QED BY <1>6, <2>1, DoneShape
<1>11. P!NoWedgedNonce'
  <2> SUFFICES ASSUME x9'.kills = 0, ~x9'.takeovers, NEW k \in P!NonceKeys, x5'[k] # -1
               PROVE  KeptBy(k)' \/ \E r \in Submits : P!HoldsNonce(r)' /\ P!KeyOf(r)' = k
    BY DEF P!NoWedgedNonce, KeptBy, P!HoldsNonce, P!KeyOf
  <2>1. k # n /\ x5[k] # -1
    BY <1>2
  <2>2. KeptBy(k) \/ \E r \in Submits : P!HoldsNonce(r) /\ P!KeyOf(r) = k
    BY <2>1, WedgeMeans DEF P!IndInv, P!NonceDiscipline
  <2>3. KeptBy(k) => KeptBy(k)'
    BY DEF KeptBy
  <2> QED BY <2>1, <2>2, <2>3, DoneShape
<1>12. P!SignalsInv'
  BY DEF P!IndInv, P!SignalsInv
<1> QED BY <1>3, <1>7, <1>8, <1>9, <1>10, <1>11, <1>12 DEF P!IndInv, P!NonceDiscipline

(* A submit that is over and keeps its nonce has left a transaction or a   *)
(* final row.                                                              *)
LEMMA KeepStep ==
  ASSUME P!IndInv, NEW s \in Submits, NEW n, n = P!KeyOf(s), P!Answered(s),
         x8' = [ x8 EXCEPT ![s] = P!IdleSubmit ],
         UNCHANGED << x1, x2, x3, x5, x7 >>, x4' \in [ Prepares -> {P!Absent} \cup P!Patch ], x6 \subseteq x6',
         x9' \in [ storeFailures : Nat, kills : Nat, takeovers : BOOLEAN, attempts : Nat ],
         x9'.takeovers = x9.takeovers, x9'.kills = x9.kills, x9'.storeFailures >= x9.storeFailures,
         KeptBy(n)',
         x8[s].result.sent = 0 \/ (\E r \in x6' : r.sent = x8[s].result.sent) \/ x9'.storeFailures > 1
  PROVE  P!IndInv'
<1>0. P!PatchTypes
  BY DEF P!IndInv
<1>3. P!PatchTypes'
  BY <1>0, SubmitTypes DEF P!PatchTypes
<1>4. x9 \in [ storeFailures : Nat, kills : Nat, takeovers : BOOLEAN, attempts : Nat ]
  BY <1>0 DEF P!PatchTypes
<1>6. \A t \in x7 : t.id \in Nat \ {0}
  BY <1>0 DEF P!PatchTypes
<1>7. P!NonceInv'
  <2> SUFFICES ASSUME ~x9'.takeovers
               PROVE  (\A r \in Submits : P!HolderInv(r)') /\ (\A t \in x7 : P!LiveInv(t)')
    BY DEF P!NonceInv
  <2>1. (\A r \in Submits : P!HolderInv(r)) /\ (\A t \in x7 : P!LiveInv(t))
    BY DEF P!IndInv, P!NonceInv
  <2>3. ASSUME NEW r \in Submits PROVE P!HolderInv(r)'
    <3>1. CASE r = s
      BY <3>1, DoneShape DEF P!HolderInv
    <3>2. CASE r # s
      <4>1. /\ P!KeyOf(r)' = P!KeyOf(r) /\ P!HoldsNonce(r)' = P!HoldsNonce(r)
            /\ \A q \in Submits : P!HoldsNonce(q)' => q # s /\ P!HoldsNonce(q) /\ P!KeyOf(q)' = P!KeyOf(q)
        BY <3>2, DoneShape
      <4> QED BY <2>1, <3>2, <4>1 DEF P!HolderInv
    <3> QED BY <3>1, <3>2
  <2>4. ASSUME NEW t \in x7 PROVE P!LiveInv(t)'
    BY <2>1, DoneShape DEF P!LiveInv, P!Live
  <2> QED BY <2>3, <2>4
<1>8. \A r \in Submits : P!AnswerInv(r)'
  <2> SUFFICES ASSUME NEW r \in Submits PROVE P!AnswerInv(r)'
    OBVIOUS
  <2>1. CASE r = s
    BY <2>1, DoneShape DEF P!AnswerInv
  <2>2. CASE r # s
    <3>1. x8'[r] = x8[r] /\ P!KeyOf(r)' = P!KeyOf(r) /\ (P!Answered(r)' => P!Answered(r)) /\ x7' = x7
      BY <2>2, DoneShape
    <3>2. P!AnswerInv(r)
      BY DEF P!IndInv
    <3>3. x9.storeFailures >= 1 => x9'.storeFailures >= 1
      BY <1>4
    <3> QED BY <3>1, <3>2, <3>3 DEF P!AnswerInv
  <2> QED BY <2>1, <2>2
<1>9. P!OneTransactionPerNonce'
  BY DEF P!IndInv, P!NonceDiscipline, P!OneTransactionPerNonce
<1>10. P!HashRecorded'
  <2> SUFFICES ASSUME ~(x9'.kills > 0), ~(x9'.storeFailures > 1), NEW t \in x7
               PROVE  \/ \E r \in x6' : r.sent = t.id
                      \/ \E r \in Submits : x8'[r].at \in { "answered", "fallback" } /\ x8'[r].result.sent = t.id
    BY DEF P!HashRecorded
  <2>1. \/ \E r \in x6 : r.sent = t.id
        \/ \E r \in Submits : x8[r].at \in { "answered", "fallback" } /\ x8[r].result.sent = t.id
    BY <1>4 DEF P!IndInv, P!NonceDiscipline, P!HashRecorded
  <2> QED BY <1>6, <2>1, DoneShape
<1>11. P!NoWedgedNonce'
  <2> SUFFICES ASSUME x9'.kills = 0, ~x9'.takeovers, NEW k \in P!NonceKeys, x5[k] # -1
               PROVE  KeptBy(k)' \/ \E r \in Submits : P!HoldsNonce(r)' /\ P!KeyOf(r)' = k
    BY DEF P!NoWedgedNonce, KeptBy, P!HoldsNonce, P!KeyOf
  <2>2. KeptBy(k) \/ \E r \in Submits : P!HoldsNonce(r) /\ P!KeyOf(r) = k
    BY WedgeMeans DEF P!IndInv, P!NonceDiscipline
  <2>3. KeptBy(k) => KeptBy(k)'
    BY DEF KeptBy
  <2> QED BY <2>2, <2>3, DoneShape
<1>12. P!SignalsInv'
  BY DEF P!IndInv, P!SignalsInv
<1> QED BY <1>3, <1>7, <1>8, <1>9, <1>10, <1>11, <1>12 DEF P!IndInv, P!NonceDiscipline

LEMMA PersistStep ==
  ASSUME P!IndInv, NEW s \in Submits, P!SubmitPersist(s)
  PROVE  P!IndInv'
<1>j. PICK n : n = P!KeyOf(s)
  OBVIOUS
<1> DEFINE row == [ prepare |-> x8[s].prepare, key |-> n, status |-> x8[s].result.status,
                    sent |-> x8[s].result.sent, retryable |-> x8[s].result.retryable ]
<1>0. /\ P!PatchTypes /\ x8[s].at = "answered" /\ UNCHANGED << x1, x2, x3, x7, x9 >>
      /\ x8' = [ x8 EXCEPT ![s] = P!IdleSubmit ] /\ P!Answered(s) /\ P!AnswerInv(s)
  BY DEF P!IndInv, P!SubmitPersist, P!Answered
<1>1. x6' = x6 \cup {row}
  BY <1>j DEF P!SubmitPersist, P!Record, P!KeyOf
<1>2. /\ x9' \in [ storeFailures : Nat, kills : Nat, takeovers : BOOLEAN, attempts : Nat ]
      /\ x9'.storeFailures >= x9.storeFailures
  BY <1>0 DEF P!PatchTypes
<1>3. row \in x6' /\ row.key = n /\ row.status = x8[s].result.status /\ row.sent = x8[s].result.sent
      /\ row.retryable = x8[s].result.retryable /\ x6 \subseteq x6'
  BY <1>1
<1>4. x8[s].result \in P!Answer /\ x8[s].prepare \in Prepares
  BY <1>0, SubmitShape
<1> HIDE DEF row
<1>5. CASE P!Reopened(x8[s].result)
  <2>1. x5' = [ x5 EXCEPT ![n] = -1 ] /\ x4' = x4
    BY <1>j, <1>5 DEF P!SubmitPersist, P!Reserve, P!KeyOf
  <2>2. x8[s].result.sent = 0
    BY <1>0, <1>5 DEF P!Reopened, P!AnswerInv
  <2> QED BY <1>j, <1>0, <1>2, <1>3, <2>1, <2>2, ReleaseStep
<1>6. CASE ~P!Reopened(x8[s].result)
  <2>1. x5' = x5 /\ x4' = P!Used(x8[s].prepare)
    BY <1>6 DEF P!SubmitPersist
  <2>2. KeptBy(n)'
    <3>1. CASE x8[s].result.sent = 0
      <4>1. x8[s].result.status = "failed" /\ ~x8[s].result.retryable
        BY <1>0, <1>6, <3>1 DEF P!Reopened, P!AnswerInv
      <4> QED BY <1>3, <4>1 DEF KeptBy
    <3>2. CASE x8[s].result.sent # 0
      BY <1>j, <1>0, <3>2 DEF KeptBy, P!AnswerInv
    <3> QED BY <3>1, <3>2
  <2>3. x4' \in [ Prepares -> {P!Absent} \cup P!Patch ]
    BY <1>0, <1>4, <2>1, UsedTypes
  <2> QED BY <1>j, <1>0, <1>2, <1>3, <2>1, <2>2, <2>3, KeepStep
<1> QED BY <1>5, <1>6

LEMMA FallbackStep ==
  ASSUME P!IndInv, NEW s \in Submits, P!SubmitFallback(s)
  PROVE  P!IndInv'
<1>j. PICK n : n = P!KeyOf(s)
  OBVIOUS
<1> DEFINE row == [ prepare |-> x8[s].prepare, key |-> n, status |-> "failed",
                    sent |-> x8[s].result.sent, retryable |-> FALSE ]
<1>0. /\ P!PatchTypes /\ x8[s].at = "fallback" /\ UNCHANGED << x1, x2, x3, x4, x5, x7 >>
      /\ x8' = [ x8 EXCEPT ![s] = P!IdleSubmit ] /\ P!Answered(s) /\ P!AnswerInv(s)
      /\ x9 \in [ storeFailures : Nat, kills : Nat, takeovers : BOOLEAN, attempts : Nat ]
      /\ x4' \in [ Prepares -> {P!Absent} \cup P!Patch ]
  BY DEF P!IndInv, P!SubmitFallback, P!Answered, P!PatchTypes
<1>1. (x6' = x6 \cup {row} /\ x9' = x9) \/ (x6' = x6 /\ x9' = [ x9 EXCEPT !.storeFailures = @ + 1 ])
  BY <1>j DEF P!SubmitFallback, P!Record, P!KeyOf, P!StoreFails
<1>2. row.sent = x8[s].result.sent
  OBVIOUS
<1> HIDE DEF row
<1>3. /\ x9' \in [ storeFailures : Nat, kills : Nat, takeovers : BOOLEAN, attempts : Nat ]
      /\ x9'.takeovers = x9.takeovers /\ x9'.kills = x9.kills /\ x9'.storeFailures >= x9.storeFailures
      /\ (x6' = x6 /\ x9' = [ x9 EXCEPT !.storeFailures = @ + 1 ]) => x9'.storeFailures = x9.storeFailures + 1
  BY <1>0, <1>1
<1>4. x9.storeFailures >= 1 /\ x9.storeFailures \in Nat /\ x8[s].result.sent # 0 /\ \E t \in x7 : t.key = n
  BY <1>j, <1>0 DEF P!AnswerInv
<1>5. (\E r \in x6' : r.sent = x8[s].result.sent) \/ x9'.storeFailures > 1
  BY <1>1, <1>2, <1>3, <1>4
<1>6. KeptBy(n)' /\ x6 \subseteq x6'
  BY <1>0, <1>1, <1>4 DEF KeptBy
<1> QED BY <1>j, <1>0, <1>3, <1>5, <1>6, KeepStep

LEMMA PersistFailsStep ==
  ASSUME P!IndInv, NEW s \in Submits, P!SubmitPersistFails(s)
  PROVE  P!IndInv'
<1>j. PICK n : n = P!KeyOf(s)
  OBVIOUS
<1>0. /\ P!PatchTypes /\ x8[s].at = "answered" /\ UNCHANGED << x1, x2, x3, x4, x6, x7 >>
      /\ P!Answered(s) /\ P!HoldsNonce(s) /\ P!AnswerInv(s)
      /\ x9' = [ x9 EXCEPT !.storeFailures = @ + 1 ]
  BY DEF P!IndInv, P!SubmitPersistFails, P!StoreFails, P!Answered, P!HoldsNonce
<1>1. x9 \in [ storeFailures : Nat, kills : Nat, takeovers : BOOLEAN, attempts : Nat ]
  BY <1>0 DEF P!PatchTypes
<1>2. /\ x9' \in [ storeFailures : Nat, kills : Nat, takeovers : BOOLEAN, attempts : Nat ]
      /\ x9'.takeovers = x9.takeovers /\ x9'.kills = x9.kills /\ x9'.storeFailures = x9.storeFailures + 1
      /\ x9.storeFailures \in Nat
  BY <1>0, <1>1
<1>3. CASE x8[s].result.sent = 0
  <2>1. x5' = [ x5 EXCEPT ![n] = -1 ] /\ x8' = [ x8 EXCEPT ![s] = P!IdleSubmit ]
    BY <1>j, <1>3 DEF P!SubmitPersistFails, P!Reserve, P!KeyOf
  <2>2. x9'.storeFailures >= x9.storeFailures
    BY <1>2
  <2> QED BY <1>j, <1>0, <1>2, <1>3, <2>1, <2>2, ReleaseStep
<1>4. CASE x8[s].result.sent # 0
  <2> DEFINE next == [ x8[s] EXCEPT !.at = "fallback" ]
  <2>1. x5' = x5 /\ x8' = [ x8 EXCEPT ![s] = next ]
    BY <1>4 DEF P!SubmitPersistFails
  <2>2. x8[s] \in [ at : { "answered", "fallback" }, prepare : Prepares, patch : P!Patch, result : P!Answer ]
    BY <1>0, SubmitShape DEF P!IdleSubmit
  <2>3. next \in [ at : { "answered", "fallback" }, prepare : Prepares, patch : P!Patch, result : P!Answer ]
        /\ next.at = "fallback" /\ next.result = x8[s].result /\ next.patch = x8[s].patch
    BY <2>2
  <2> HIDE DEF next
  <2>4. x8'[s] = next /\ \A r \in Submits : r # s => x8'[r] = x8[r]
    BY <1>0, <2>1 DEF P!PatchTypes
  <2>5. P!PatchTypes'
    BY <1>0, <1>2, <2>1, <2>3, SubmitTypes DEF P!PatchTypes
  <2>6. \A r \in Submits :
          /\ P!KeyOf(r)' = P!KeyOf(r) /\ (P!HoldsNonce(r)' <=> P!HoldsNonce(r))
          /\ (P!Answered(r)' <=> P!Answered(r)) /\ (P!Answered(r) => x8'[r].result = x8[r].result)
    BY <1>0, <2>3, <2>4 DEF P!HoldsNonce, P!Answered, P!KeyOf
  <2>7. P!NonceInv'
    <3> SUFFICES ASSUME ~x9'.takeovers
                 PROVE  (\A r \in Submits : P!HolderInv(r)') /\ (\A t \in x7 : P!LiveInv(t)')
      BY <1>0 DEF P!NonceInv
    <3>1. (\A r \in Submits : P!HolderInv(r)) /\ (\A t \in x7 : P!LiveInv(t))
      BY <1>2 DEF P!IndInv, P!NonceInv
    <3>2. ASSUME NEW r \in Submits PROVE P!HolderInv(r)'
      BY <2>1, <2>6, <3>1 DEF P!HolderInv
    <3>3. ASSUME NEW t \in x7 PROVE P!LiveInv(t)'
      BY <2>1, <2>6, <3>1 DEF P!LiveInv, P!Live
    <3> QED BY <3>2, <3>3
  <2>8. ASSUME NEW r \in Submits PROVE P!AnswerInv(r)'
    <3>1. P!AnswerInv(r) /\ x7' = x7 /\ (P!Answered(r)' => P!Answered(r)) /\ P!KeyOf(r)' = P!KeyOf(r)
      BY <1>0, <2>6 DEF P!IndInv
    <3>2. P!Answered(r) => x8'[r].result = x8[r].result
      BY <2>6
    <3>3. x8'[r].at = "fallback" => r = s \/ x8[r].at = "fallback"
      BY <2>4
    <3>4. x9'.storeFailures >= 1
      BY <1>2
    <3> QED BY <1>4, <3>1, <3>2, <3>3, <3>4 DEF P!AnswerInv
  <2>9. P!OneTransactionPerNonce'
    BY <1>0, <1>2 DEF P!IndInv, P!NonceDiscipline, P!OneTransactionPerNonce
  <2>10. P!HashRecorded'
    <3> SUFFICES ASSUME ~(x9'.kills > 0), ~(x9'.storeFailures > 1), NEW t \in x7
                 PROVE  \/ \E r \in x6 : r.sent = t.id
                        \/ \E r \in Submits : x8'[r].at \in { "answered", "fallback" } /\ x8'[r].result.sent = t.id
      BY <1>0 DEF P!HashRecorded
    <3>1. \/ \E r \in x6 : r.sent = t.id
          \/ \E r \in Submits : x8[r].at \in { "answered", "fallback" } /\ x8[r].result.sent = t.id
      BY <1>2 DEF P!IndInv, P!NonceDiscipline, P!HashRecorded
    <3> QED BY <2>6, <3>1 DEF P!Answered
  <2>11. P!NoWedgedNonce'
    <3> SUFFICES ASSUME x9'.kills = 0, ~x9'.takeovers, NEW k \in P!NonceKeys, x5'[k] # -1
                 PROVE  KeptBy(k)' \/ \E r \in Submits : P!HoldsNonce(r)' /\ P!KeyOf(r)' = k
      BY DEF P!NoWedgedNonce, KeptBy, P!HoldsNonce, P!KeyOf
    <3>1. KeptBy(k) \/ \E r \in Submits : P!HoldsNonce(r) /\ P!KeyOf(r) = k
      BY <1>2, <2>1, WedgeMeans DEF P!IndInv, P!NonceDiscipline
    <3>2. KeptBy(k) => KeptBy(k)'
      BY <1>0 DEF KeptBy
    <3> QED BY <2>6, <3>1, <3>2
  <2>12. P!SignalsInv'
    BY <1>0 DEF P!IndInv, P!SignalsInv
  <2> QED BY <2>5, <2>7, <2>8, <2>9, <2>10, <2>11, <2>12 DEF P!IndInv, P!NonceDiscipline
<1> QED BY <1>3, <1>4

(* Steps that leave the submits, the nonces and the transactions alone.    *)
LEMMA AroundStep ==
  ASSUME P!IndInv, UNCHANGED << x5, x6, x7, x8, x9 >>, P!PatchTypes', P!SignalsInv'
  PROVE  P!IndInv'
<1>1. P!NonceInv'
  BY DEF P!IndInv, P!NonceInv, P!HolderInv, P!LiveInv, P!HoldsNonce, P!Answered, P!KeyOf, P!Live
<1>2. P!NonceDiscipline'
  BY DEF P!IndInv, P!NonceDiscipline, P!OneTransactionPerNonce, P!HashRecorded, P!NoWedgedNonce
<1>3. ASSUME NEW r \in Submits PROVE P!AnswerInv(r)'
  BY DEF P!IndInv, P!AnswerInv, P!Answered, P!KeyOf
<1> QED BY <1>1, <1>2, <1>3 DEF P!IndInv

LEMMA PrepareStep ==
  ASSUME P!IndInv, NEW p \in Prepares, NEW m \in Modes \cup {"resource"}, NEW w \in Executors \cup {Nobody},
         P!Prepare(p, m, w)
  PROVE  P!IndInv'
<1>j. PICK k : k = P!nextStageExecutorPatchNonce(x3, m)
  OBVIOUS
<1>0. /\ P!PatchTypes /\ UNCHANGED << x1, x2, x3, x5, x6, x7, x8, x9 >> /\ k <= 2
      /\ x4' = [ q \in Prepares |->
           IF q = p THEN [ state |-> "prepared", mode |-> m, previous |-> w, nonce |-> k, deadline |-> x1 + Ttl ]
           ELSE IF x4[q] # P!Absent /\ x4[q].state = "prepared" /\ x4[q].deadline < x1
           THEN P!Absent ELSE x4[q] ]
  BY <1>j DEF P!IndInv, P!Prepare
<1>1. k \in 1..2
  <2>1. P!KindOf(m) \in P!Kinds
    BY DEF P!KindOf, P!Kinds
  <2>2. x3.nonce[P!KindOf(m)] \in 0..2
    BY <1>0, <2>1 DEF P!PatchTypes
  <2> QED BY <1>j, <1>0, <2>2 DEF P!nextStageExecutorPatchNonce
<1>2. [ state |-> "prepared", mode |-> m, previous |-> w, nonce |-> k, deadline |-> x1 + Ttl ] \in P!Patch
  BY <1>0, <1>1, ParticipantsConstants DEF P!Patch, P!PatchTypes
<1>3. x4 \in [ Prepares -> {P!Absent} \cup P!Patch ]
  BY <1>0 DEF P!PatchTypes
<1>4. x4' \in [ Prepares -> {P!Absent} \cup P!Patch ]
  BY <1>0, <1>2, <1>3
<1>5. P!PatchTypes' /\ P!SignalsInv'
  BY <1>0, <1>4 DEF P!PatchTypes, P!IndInv, P!SignalsInv
<1> QED BY <1>0, <1>5, AroundStep

LEMMA TickStep ==
  ASSUME P!IndInv, P!Tick \/ UNCHANGED P!patchVars
  PROVE  P!IndInv'
<1>1. /\ x1' = x1 \/ x1' = x1 + 1
      /\ UNCHANGED << x2, x3, x4, x5, x6, x7, x8, x9 >>
  BY DEF P!Tick, P!patchVars
<1>2. P!PatchTypes' /\ P!SignalsInv'
  BY <1>1 DEF P!IndInv, P!PatchTypes, P!SignalsInv
<1> QED BY <1>1, <1>2, AroundStep

(* The chain's next signal is the last of its flow.                        *)
LEMMA SignalStep ==
  ASSUME P!IndInv, P!StageSignal
  PROVE  P!IndInv'
<1>j. PICK c : c = P!Cardinality(x2)
  OBVIOUS
<1>0. P!PatchTypes /\ P!SignalsInv /\ UNCHANGED << x1, x3, x4, x5, x6, x7, x8, x9 >>
  BY DEF P!IndInv, P!StageSignal
<1>1. PICK f \in P!Flows, w \in Executors, b \in 0..1 :
        /\ \A t \in x2 : t.block <= b
        /\ x2' = x2 \cup { [ flow |-> f, who |-> w, block |-> b, at |-> c ] }
  BY <1>j DEF P!StageSignal
<1> DEFINE g == [ flow |-> f, who |-> w, block |-> b, at |-> c ]
<1>2. IsFiniteSet(x2) /\ c = Cardinality(x2) /\ c \in Nat
  BY <1>j, <1>0, SameCardinality, FS_CardinalityType DEF P!SignalsInv
<1>3. g \in P!Signal /\ g.at = c /\ g.flow = f /\ g.block = b
  BY <1>2 DEF P!Signal
<1>4. x2' = x2 \cup {g}
  BY <1>1
<1> HIDE DEF g
<1>5. x2 \subseteq P!Signal /\ \A s \in x2 : s.at < c /\ s.at \in Nat /\ s.block \in 0..1
  BY <1>j, <1>0 DEF P!SignalsInv, P!Signal
<1>6. g \notin x2
  BY <1>2, <1>3, <1>5
<1>7. IsFiniteSet(x2') /\ Cardinality(x2') = c + 1
  BY <1>2, <1>4, <1>6, FS_AddElement
<1>8. P!IsFiniteSet(x2') /\ P!Cardinality(x2') = c + 1
  BY <1>7, SameCardinality
<1>9. \A s \in x2' : s.at < c + 1
  BY <1>2, <1>3, <1>4, <1>5
<1>10. \A s, t \in x2' : (s.at <= t.at => s.block <= t.block) /\ (s.at = t.at => s = t)
  <2> SUFFICES ASSUME NEW s \in x2', NEW t \in x2'
               PROVE  (s.at <= t.at => s.block <= t.block) /\ (s.at = t.at => s = t)
    OBVIOUS
  <2>1. CASE s \in x2 /\ t \in x2
    BY <1>0, <2>1 DEF P!SignalsInv
  <2>2. CASE s \in x2 /\ t = g
    BY <1>1, <1>2, <1>3, <1>5, <2>2
  <2>3. CASE s = g /\ t \in x2
    BY <1>2, <1>3, <1>5, <2>3
  <2>4. CASE s = g /\ t = g
    BY <1>3, <2>4
  <2> QED BY <1>4, <2>1, <2>2, <2>3, <2>4
<1>11. ASSUME NEW h \in P!Flows, \E s \in x2' : s.flow = h
       PROVE  \E s \in x2' : s.flow = h /\ \A t \in x2' : t.flow = h => t.at <= s.at
  <2>1. CASE h = f
    <3>1. \A t \in x2' : t.at <= g.at
      BY <1>2, <1>3, <1>4, <1>5
    <3> QED BY <1>3, <1>4, <2>1, <3>1
  <2>2. CASE h # f
    <3>1. \E s \in x2 : s.flow = h
      BY <1>3, <1>4, <1>11, <2>2
    <3>2. PICK s \in x2 : s.flow = h /\ \A t \in x2 : t.flow = h => t.at <= s.at
      BY <1>0, <3>1 DEF P!SignalsInv
    <3> QED BY <1>3, <1>4, <2>2, <3>2
  <2> QED BY <2>1, <2>2
<1>12. P!SignalsInv'
  <2>1. x2' \subseteq P!Signal
    BY <1>3, <1>4, <1>5
  <2>2. \A s \in x2' : s.at < P!Cardinality(x2')
    BY <1>8, <1>9
  <2> QED BY <1>8, <1>10, <1>11, <2>1, <2>2 DEF P!SignalsInv
<1>13. P!PatchTypes'
  BY <1>0 DEF P!PatchTypes
<1> QED BY <1>0, <1>12, <1>13, AroundStep

(* A transaction is applied or fails: the others, and what it carries,     *)
(* stay.                                                                   *)
LEMMA MineStep ==
  ASSUME P!IndInv, P!Mine
  PROVE  P!IndInv'
<1>0. P!PatchTypes /\ UNCHANGED << x1, x2, x4, x5, x6, x8, x9 >>
  BY DEF P!IndInv, P!Mine
<1>1. PICK t \in x7 :
        /\ t.fate = "open"
        /\ \/ /\ t.key[2] > x3.nonce[t.key[1]]
              /\ x7' = (x7 \ { t }) \cup { [ t EXCEPT !.fate = "applied" ] }
              /\ \E e \in Executors : x3' =
                   [ nonce |-> [ x3.nonce EXCEPT ![t.key[1]] = t.key[2] ],
                     executor |-> IF t.key[1] = "executor" THEN e ELSE x3.executor ]
           \/ /\ x7' = (x7 \ { t }) \cup { [ t EXCEPT !.fate = "failed" ] }
              /\ x3' = x3
  BY DEF P!Mine
<1> DEFINE Transaction == [ id : Nat \ {0}, key : P!NonceKeys, prepare : Prepares, fate : { "open", "applied", "failed" } ]
<1>2. x7 \subseteq Transaction /\ t \in Transaction /\ P!Live(t)
  BY <1>0, <1>1 DEF P!PatchTypes, P!Live
<1>3. PICK u \in Transaction : x7' = (x7 \ {t}) \cup {u} /\ u.id = t.id /\ u.key = t.key
  <2>1. ASSUME NEW v \in { "applied", "failed" }
        PROVE  [ t EXCEPT !.fate = v ] \in Transaction /\ [ t EXCEPT !.fate = v ].id = t.id
               /\ [ t EXCEPT !.fate = v ].key = t.key
    BY <1>2
  <2> HIDE DEF Transaction
  <2> QED BY <1>1, <2>1
<1>4. x3' \in [ nonce : [ P!Kinds -> 0..2 ], executor : Executors \cup {Nobody} ]
  <2>1. x3 \in [ nonce : [ P!Kinds -> 0..2 ], executor : Executors \cup {Nobody} ]
    BY <1>0 DEF P!PatchTypes
  <2>2. t.key[1] \in P!Kinds /\ t.key[2] \in 0..2
    BY <1>2 DEF P!NonceKeys
  <2>3. [ x3.nonce EXCEPT ![t.key[1]] = t.key[2] ] \in [ P!Kinds -> 0..2 ]
    BY <2>1, <2>2
  <2>4. ASSUME NEW e \in Executors
        PROVE  [ nonce |-> [ x3.nonce EXCEPT ![t.key[1]] = t.key[2] ],
                 executor |-> IF t.key[1] = "executor" THEN e ELSE x3.executor ]
               \in [ nonce : [ P!Kinds -> 0..2 ], executor : Executors \cup {Nobody} ]
    BY <2>1, <2>3
  <2> QED BY <1>1, <2>1, <2>4
<1>5. P!IsFiniteSet(x7')
  <2>1. IsFiniteSet(x7)
    BY <1>0, SameCardinality DEF P!PatchTypes
  <2>2. IsFiniteSet(x7')
    BY <1>3, <2>1, FS_RemoveElement, FS_AddElement
  <2> QED BY <2>2, SameCardinality
<1>6. x7' \subseteq Transaction
  BY <1>2, <1>3
<1>7. P!PatchTypes'
  BY <1>0, <1>4, <1>5, <1>6 DEF P!PatchTypes
<1> HIDE DEF Transaction
<1>8. /\ \A r \in Submits : P!HoldsNonce(r)' = P!HoldsNonce(r) /\ P!Answered(r)' = P!Answered(r) /\ P!KeyOf(r)' = P!KeyOf(r)
      /\ \A v : P!Live(v)' = P!Live(v)
  BY <1>0 DEF P!HoldsNonce, P!Answered, P!KeyOf, P!Live
<1>9. \A v \in x7 : \E y \in x7' : y.key = v.key /\ y.id = v.id
  BY <1>3
<1>10. \A v \in x7' : \E y \in x7 : y.key = v.key /\ y.id = v.id /\ (P!Live(v) => P!Live(y))
  BY <1>1, <1>2, <1>3
<1>11. P!NonceInv'
  <2> SUFFICES ASSUME ~x9.takeovers
               PROVE  (\A r \in Submits : P!HolderInv(r)') /\ (\A v \in x7' : P!LiveInv(v)')
    BY <1>0 DEF P!NonceInv
  <2>1. (\A r \in Submits : P!HolderInv(r)) /\ (\A v \in x7 : P!LiveInv(v))
    BY DEF P!IndInv, P!NonceInv
  <2>2. ASSUME NEW r \in Submits PROVE P!HolderInv(r)'
    BY <1>0, <1>8, <2>1 DEF P!HolderInv
  <2>3. ASSUME NEW v \in x7' PROVE P!LiveInv(v)'
    <3>1. PICK y \in x7 : y.key = v.key /\ (P!Live(v) => P!Live(y))
      BY <1>10
    <3> QED BY <1>0, <1>8, <2>1, <3>1 DEF P!LiveInv
  <2> QED BY <2>2, <2>3
<1>12. ASSUME NEW r \in Submits PROVE P!AnswerInv(r)'
  BY <1>0, <1>8, <1>9 DEF P!IndInv, P!AnswerInv
<1>13. P!OneTransactionPerNonce'
  <2> SUFFICES ASSUME ~x9.takeovers, NEW v \in x7', NEW y \in x7', v.key = y.key, P!Live(v), P!Live(y)
               PROVE  v = y
    BY <1>0 DEF P!OneTransactionPerNonce, P!Live
  <2>1. \A a, b \in x7 : a.key = b.key /\ P!Live(a) /\ P!Live(b) => a = b
    BY DEF P!IndInv, P!NonceDiscipline, P!OneTransactionPerNonce, P!Live
  <2> QED BY <1>1, <1>2, <1>3, <2>1
<1>14. P!HashRecorded'
  <2> SUFFICES ASSUME ~(x9.kills > 0), ~(x9.storeFailures > 1), NEW v \in x7'
               PROVE  \/ \E r \in x6 : r.sent = v.id
                      \/ \E r \in Submits : x8[r].at \in { "answered", "fallback" } /\ x8[r].result.sent = v.id
    BY <1>0 DEF P!HashRecorded
  <2>1. PICK y \in x7 : y.id = v.id
    BY <1>10
  <2> QED BY <2>1 DEF P!IndInv, P!NonceDiscipline, P!HashRecorded
<1>15. P!NoWedgedNonce'
  <2> SUFFICES ASSUME x9.kills = 0, ~x9.takeovers, NEW k \in P!NonceKeys, x5[k] # -1
               PROVE  KeptBy(k)' \/ \E r \in Submits : P!HoldsNonce(r)' /\ P!KeyOf(r)' = k
    BY <1>0 DEF P!NoWedgedNonce, KeptBy, P!HoldsNonce, P!KeyOf
  <2>1. KeptBy(k) \/ \E r \in Submits : P!HoldsNonce(r) /\ P!KeyOf(r) = k
    BY WedgeMeans DEF P!IndInv, P!NonceDiscipline
  <2>2. KeptBy(k) => KeptBy(k)'
    BY <1>0, <1>9 DEF KeptBy
  <2> QED BY <1>8, <2>1, <2>2
<1>16. P!SignalsInv'
  BY <1>0 DEF P!IndInv, P!SignalsInv
<1> QED BY <1>7, <1>11, <1>12, <1>13, <1>14, <1>15, <1>16 DEF P!IndInv, P!NonceDiscipline

LEMMA PatchesStep == P!IndInv /\ [P!Next]_(P!patchVars) => P!IndInv'
<1> SUFFICES ASSUME P!IndInv, [P!Next]_(P!patchVars) PROVE P!IndInv'
  OBVIOUS
<1>1. ASSUME NEW p \in Prepares, NEW m \in Modes, NEW w \in Executors \cup {Nobody},
             P!prepareStageExecutorPatch(p, m, w)
      PROVE  P!IndInv'
  BY <1>1, PrepareStep DEF P!prepareStageExecutorPatch
<1>2. ASSUME NEW p \in Prepares, P!prepareStageResourcePatch(p) PROVE P!IndInv'
  BY <1>2, PrepareStep DEF P!prepareStageResourcePatch
<1>3. ASSUME NEW s \in Submits, P!SubmitSteps(s) PROVE P!IndInv'
  BY <1>3, EarlyStep, ReserveStep, BroadcastStep, PersistStep, PersistFailsStep, FallbackStep DEF P!SubmitSteps
<1>4. ASSUME NEW s \in Submits, P!submitStageExecutorPatch(s) \/ P!submitStageResourcePatch(s) PROVE P!IndInv'
  BY <1>3, <1>4 DEF P!submitStageExecutorPatch, P!submitStageResourcePatch
<1>5. ASSUME NEW s \in Submits, P!Kill(s) \/ \E p \in Prepares : P!SubmitBegin(s, p) PROVE P!IndInv'
  BY <1>5, EarlyStep
<1>6. CASE P!Mine
  BY <1>6, MineStep
<1>7. CASE P!StageSignal
  BY <1>7, SignalStep
<1>8. CASE P!Tick \/ UNCHANGED P!patchVars
  BY <1>8, TickStep
<1> QED BY <1>1, <1>2, <1>4, <1>5, <1>6, <1>7, <1>8 DEF P!Next

(* A stage nonce carries one transaction, which is on record, or is free   *)
(* again: whatever submits, store failures and dead processes there were.  *)
THEOREM OneNonceOneTransaction == Spec => []NonceDiscipline
<1> DEFINE Inv == focus = "patches" => P!IndInv
<1>1. Init => Inv
  BY PatchesInit DEF Init
<1>2. Inv /\ [Next]_allVars => Inv'
  BY FocusStep, PatchesStep
<1>3. Inv => NonceDiscipline
  BY DEF NonceDiscipline, P!IndInv
<1> QED BY <1>1, <1>2, <1>3, PTL DEF Spec, allVars

(* The last signal of a set, when its elements are ordered by the chain.   *)
LEMMA LastSignal ==
  ASSUME P!SignalsInv, NEW f \in P!Flows, NEW S, S = { s \in x2 : s.flow = f }, S # {}
  PROVE  \E last \in S :
           /\ \A t \in S : t.at <= last.at /\ t.block <= last.block
           /\ P!latestSubmitterByChainOrder(S) =
                [ submitter |-> last.who, ambiguous |-> \E s \in S : s.block = last.block /\ s.who # last.who ]
<1>1. PICK s \in S : \A t \in S : t.at <= s.at
  BY DEF P!SignalsInv
<1> DEFINE last == CHOOSE u \in S : \A t \in S : t.at <= u.at
<1>2. last \in S /\ \A t \in S : t.at <= last.at
  BY <1>1
<1>3. \A t \in S : t.block <= last.block
  BY <1>2 DEF P!SignalsInv
<1>4. P!latestSubmitterByChainOrder(S) =
        [ submitter |-> last.who, ambiguous |-> \E u \in S : u.block = last.block /\ u.who # last.who ]
  BY DEF P!latestSubmitterByChainOrder
<1> QED BY <1>2, <1>3, <1>4

(* A handoff that is prepared names the wallet all the evidence agrees on. *)
THEOREM HandoffNamesTheExecutor == Spec => []PreviousExecutorUnique
<1> DEFINE Inv == focus = "patches" => P!IndInv
<1>1. Init => Inv
  BY PatchesInit DEF Init
<1>2. Inv /\ [Next]_allVars => Inv'
  BY FocusStep, PatchesStep
<1>3. Inv => PreviousExecutorUnique
  <2> SUFFICES ASSUME P!IndInv PROVE P!PreviousExecutorUnique
    BY DEF PreviousExecutorUnique
  <2> SUFFICES ASSUME NEW m \in { "handoff", "replacement" }, NEW w \in Executors,
                      P!resolveExecutorPatchGovernance(x2, x3, m, w), x3.executor # w
               PROVE  /\ x3.executor = Nobody
                      /\ \A s \in x2 :
                           /\ s.flow = "capability" /\ (\A t \in x2 : t.flow = "capability" => t.block <= s.block)
                                => s.who = w
                           /\ s.flow = "fallback" /\ (\A t \in x2 : t.flow = "fallback" => t.at <= s.at)
                                => s.who = w
    BY DEF P!PreviousExecutorUnique
  <2> DEFINE C == { s \in x2 : s.flow = "capability" }
             F == { s \in x2 : s.flow = "fallback" }
             c == P!latestSubmitterByChainOrder(C)
             f == P!latestSubmitterByChainOrder(F)
  <2>1. P!SignalsInv /\ "capability" \in P!Flows /\ "fallback" \in P!Flows
    BY DEF P!IndInv, P!Flows
  <2>2. x3.executor = Nobody /\ ~P!targetStageProgress(x2).ambiguous /\ w = P!targetStageProgress(x2).submitter
    BY DEF P!resolveExecutorPatchGovernance, P!expectedPreviousExecutorForPatch
  <2>3. C # {} => c.submitter = w /\ ~c.ambiguous
    BY <2>2 DEF P!targetStageProgress
  <2>4. F # {} => f.submitter = w
    BY <2>2 DEF P!targetStageProgress
  <2>5. ASSUME NEW s \in x2, s.flow = "capability", \A t \in x2 : t.flow = "capability" => t.block <= s.block
        PROVE  s.who = w
    <3>1. s \in C /\ C # {}
      BY <2>5
    <3>2. PICK last \in C :
            /\ \A t \in C : t.at <= last.at /\ t.block <= last.block
            /\ c = [ submitter |-> last.who, ambiguous |-> \E u \in C : u.block = last.block /\ u.who # last.who ]
      BY <2>1, <3>1, LastSignal
    <3>3. s.block = last.block
      BY <2>1, <2>5, <3>1, <3>2 DEF P!SignalsInv, P!Signal
    <3> QED BY <2>3, <3>1, <3>2, <3>3
  <2>6. ASSUME NEW s \in x2, s.flow = "fallback", \A t \in x2 : t.flow = "fallback" => t.at <= s.at
        PROVE  s.who = w
    <3>1. s \in F /\ F # {}
      BY <2>6
    <3>2. PICK last \in F :
            /\ \A t \in F : t.at <= last.at /\ t.block <= last.block
            /\ f = [ submitter |-> last.who, ambiguous |-> \E u \in F : u.block = last.block /\ u.who # last.who ]
      BY <2>1, <3>1, LastSignal
    <3>3. s.at = last.at
      BY <2>1, <2>6, <3>1, <3>2 DEF P!SignalsInv, P!Signal
    <3> QED BY <2>1, <2>4, <3>1, <3>2, <3>3 DEF P!SignalsInv
  <2> QED BY <2>2, <2>5, <2>6
<1> QED BY <1>1, <1>2, <1>3, PTL DEF Spec, allVars

-----------------------------------------------------------------------------
(* Deliveries: x1 is rows, x2 directory, x3 onChain, x4 owedInvalidation,  *)
(* x5 dispatcher, x6 op, x7 readStates, x8 budget and x9 hist.             *)

(* A set of naturals that is not empty has a least element.                *)
LEMMA LeastOf ==
  ASSUME NEW S, S \subseteq Nat, S # {}
  PROVE  \E x \in S : \A y \in S : x <= y
<1> DEFINE Segments == { 0..x : x \in S }
           Less == StrictSubsetOrdering(Nat)
<1>1. Segments \subseteq FiniteSubsetsOf(Nat) /\ Segments # {}
  <2>1. ASSUME NEW x \in S PROVE 0..x \in FiniteSubsetsOf(Nat)
    <3>1. x \in Int /\ 0 \in Int /\ 0..x \subseteq Nat
      OBVIOUS
    <3>2. IsFiniteSet(0..x)
      BY <3>1, FS_Interval
    <3> QED BY <3>1, <3>2 DEF FiniteSubsetsOf
  <2> QED BY <2>1
<1>2. PICK U \in Segments : \A V \in Segments : << V, U >> \notin Less
  <2> HIDE DEF Segments, Less
  <2>1. IsWellFoundedOn(Less, FiniteSubsetsOf(Nat))
    BY FS_StrictSubsetOrderingWellFounded DEF Less
  <2> QED BY <1>1, <2>1, WFMin
<1>3. PICK x \in S : U = 0..x
  OBVIOUS
<1>4. ASSUME NEW y \in S, y < x PROVE FALSE
  <2>1. 0..y \subseteq 0..x /\ 0..y # 0..x /\ 0..y \in SUBSET Nat /\ 0..x \in SUBSET Nat
    BY <1>4
  <2>2. << 0..y, 0..x >> \in Less
    BY <2>1 DEF StrictSubsetOrdering
  <2> QED BY <1>2, <1>3, <2>2
<1> QED BY <1>4

LEMMA ProfileShape ==
  ASSUME NEW p \in Profiles \ {NoProfile}
  PROVE  \A i \in 1..Len(p) : i \in Nat /\ p[i].priority \in Nat /\ p[i].type \in N!Transports
<1> DEFINE Entry == [ type : N!Transports, enabled : BOOLEAN, priority : Nat ]
<1>1. p \in Seq(Entry)
  BY ParticipantsConstants
<1>2. \A i \in 1..Len(p) : p[i] \in Entry
  BY <1>1, ElementOfSeq
<1> QED BY <1>2

(* The transport of a profile is one of its own, or none.                  *)
LEMMA FirstTransport ==
  ASSUME NEW p \in Profiles \ {NoProfile}, NEW is, is \subseteq 1..Len(p), is # {}
  PROVE  N!First(p, is) \in is
<1>1. \A i \in is : i \in Nat /\ p[i].priority \in Nat
  BY ProfileShape
<1> DEFINE levels == { p[i].priority : i \in is }
<1>2. PICK least \in levels : \A n \in levels : least <= n
  <2>1. levels \subseteq Nat /\ levels # {}
    BY <1>1
  <2> HIDE DEF levels
  <2> QED BY <2>1, LeastOf
<1> DEFINE best == { i \in is : p[i].priority = least }
<1>3. PICK i \in best : \A j \in best : i <= j
  <2>1. best \subseteq Nat /\ best # {}
    BY <1>1, <1>2
  <2> HIDE DEF best
  <2> QED BY <2>1, LeastOf
<1>4. ASSUME NEW j \in is
      PROVE  p[i].priority < p[j].priority \/ (p[i].priority = p[j].priority /\ i <= j)
  <2>1. least <= p[j].priority /\ p[i].priority = least
    BY <1>2, <1>3
  <2>2. j \in best => i <= j
    BY <1>3
  <2> QED BY <1>1, <1>3, <2>1, <2>2
<1>5. i \in is
  BY <1>3
<1> QED BY <1>4, <1>5 DEF N!First

LEMMA TransportTypes ==
  ASSUME NEW p \in Profiles \ {NoProfile}
  PROVE  /\ N!chooseTransport(p) \in N!Transports
         /\ \A type \in N!Transports : N!chooseTransportForRetry(p, type) \in N!Transports
<1>1. N!EnabledAt(p) \subseteq 1..Len(p) /\ \A i \in 1..Len(p) : p[i].type \in N!Transports
  BY ProfileShape DEF N!EnabledAt
<1> DEFINE usable == { i \in N!EnabledAt(p) : N!isPushTransport(p[i]) \/ p[i].type = "executor-watch" }
<1>2. N!chooseTransport(p) \in N!Transports
  <2>1. CASE usable # {}
    <3>1. N!First(p, usable) \in usable
      BY <1>1, <2>1, FirstTransport
    <3> QED BY <1>1, <2>1, <3>1 DEF N!chooseTransport
  <2>2. CASE usable = {} /\ N!EnabledAt(p) # {}
    <3>1. N!First(p, N!EnabledAt(p)) \in N!EnabledAt(p)
      BY <1>1, <2>2, FirstTransport
    <3> QED BY <1>1, <2>2, <3>1 DEF N!chooseTransport
  <2>3. CASE usable = {} /\ N!EnabledAt(p) = {}
    BY <2>3 DEF N!chooseTransport, N!Transports
  <2> QED BY <2>1, <2>2, <2>3
<1> QED BY <1>2 DEF N!chooseTransportForRetry

-----------------------------------------------------------------------------
(* The three kinds of work in flight are told apart.                       *)
LEMMA OperationKinds ==
  /\ N!Idle \notin N!Work /\ N!Idle \notin N!Sweep
  /\ \A o \in N!Work : o \notin N!Sweep /\ o # N!Idle /\ o.kind \notin { "idle", "invalidate" }
  /\ \A o \in N!Sweep : o \notin N!Work /\ o # N!Idle /\ o.kind = "invalidate"
  /\ N!Idle.kind = "idle"
BY DEF N!Idle, N!Work, N!Sweep

LEMMA WorkShape ==
  ASSUME NEW o \in N!Work
  PROVE  /\ o.kind \in { "dispatch", "skip", "retry", "reopen", "bury" } /\ o.id \in N!Ids
         /\ o.row \in N!Row \cup {Nil} /\ o.type \in N!Transports
         /\ o.at \in { "read", "send", "accepted", "refused" } /\ o.to \in N!Subjects /\ o.void \in BOOLEAN
         /\ o.id[1] \in Events /\ o.id[2] \in N!Subjects /\ o.id = << o.id[1], o.id[2] >>
BY DEF N!Work, N!Ids

LEMMA RowShape ==
  ASSUME NEW r \in N!Row
  PROVE  r.status \in N!Statuses /\ r.attempts \in Nat /\ r.transport \in N!Transports /\ r # Nil
BY ParticipantsConstants DEF N!Row

LEMMA RowSet ==
  ASSUME NEW r \in N!Row, NEW status \in N!Statuses, NEW new, new = [ r EXCEPT !.status = status ]
  PROVE  new \in N!Row /\ new.status = status /\ new.attempts = r.attempts /\ new # Nil
BY ParticipantsConstants DEF N!Row

LEMMA NewRow ==
  ASSUME NEW type \in N!Transports
  PROVE  N!New(type) \in N!Row /\ N!New(type).status = "pending" /\ N!New(type).attempts = 0
BY DEF N!New, N!Row, N!Statuses

(* A step sets the work of one actor.                                      *)
LEMMA ActorSet ==
  ASSUME N!NotifyTypes, NEW a \in N!Actors, NEW o \in {N!Idle} \cup N!Work \cup N!Sweep,
         x6' = [ x6 EXCEPT ![a] = o ]
  PROVE  /\ x6' \in [ N!Actors -> {N!Idle} \cup N!Work \cup N!Sweep ] /\ x6'[a] = o
         /\ \A b \in N!Actors : b # a => x6'[b] = x6[b]
BY DEF N!NotifyTypes

(* A step is about one delivery: what is on record of others stays.        *)
HistoryOf(id) ==
  /\ x9' \in N!Histories /\ x9.raced \subseteq x9'.raced /\ x9.reopened \subseteq x9'.reopened
  /\ x9.revived \subseteq x9'.revived
  /\ \A j \in N!Ids \ {id} :
       /\ x9'.autoSends[j] = x9.autoSends[j] /\ x9'.receipts[j] = x9.receipts[j]
       /\ j \in x9'.raced => j \in x9.raced
       /\ j \in x9'.revived => j \in x9.revived

SameHistory ==
  /\ x9'.autoSends = x9.autoSends /\ x9'.receipts = x9.receipts /\ x9'.delivered = x9.delivered
  /\ x9'.ghosts = x9.ghosts /\ x9'.raced = x9.raced /\ x9'.reopened = x9.reopened
  /\ x9'.acknowledged = x9.acknowledged /\ x9'.takenUp = x9.takenUp

(* A save sets one row; overwriting an invalidated row is on record.       *)
LEMMA Saving ==
  ASSUME N!NotifyTypes, NEW id \in N!Ids, NEW row \in N!Row, N!saveDelivery(id, row)
  PROVE  /\ x1' \in [ N!Ids -> N!Row \cup {Nil} ] /\ x1'[id] = row
         /\ \A j \in N!Ids : j # id => x1'[j] = x1[j]
         /\ \A j \in N!Ids : N!Stored(j) => N!Stored(j)'
         /\ N!Stored(id)'
         /\ HistoryOf(id) /\ SameHistory
         /\ row.status = "invalidated" => x9' = x9
         /\ N!Fresh(id)' => N!Fresh(id)
         /\ N!Stored(id) /\ x1[id].status = "invalidated" /\ row.status # "invalidated" => ~N!Fresh(id)'
<1>1. x1' = [ x1 EXCEPT ![id] = row ] /\ x1 \in [ N!Ids -> N!Row \cup {Nil} ] /\ x9 \in N!Histories
  BY DEF N!saveDelivery, N!NotifyTypes
<1>2. /\ x1' \in [ N!Ids -> N!Row \cup {Nil} ] /\ x1'[id] = row
      /\ \A j \in N!Ids : j # id => x1'[j] = x1[j]
  BY <1>1
<1>3. \A j \in N!Ids : N!Stored(j) => N!Stored(j)'
  BY <1>2, RowShape DEF N!Stored
<1>4. N!Stored(id)'
  BY <1>2, RowShape DEF N!Stored
<1> DEFINE revived == [ x9 EXCEPT !.revived = @ \cup {id} ]
<1>5. /\ revived \in N!Histories /\ revived.revived = x9.revived \cup {id}
      /\ revived.autoSends = x9.autoSends /\ revived.receipts = x9.receipts /\ revived.delivered = x9.delivered
      /\ revived.ghosts = x9.ghosts /\ revived.raced = x9.raced /\ revived.reopened = x9.reopened
      /\ revived.acknowledged = x9.acknowledged /\ revived.takenUp = x9.takenUp
  BY <1>1 DEF N!Histories
<1>6. x9' = IF N!Stored(id) /\ x1[id].status = "invalidated" /\ row.status # "invalidated" THEN revived ELSE x9
  BY DEF N!saveDelivery
<1> HIDE DEF revived
<1>7. HistoryOf(id) /\ SameHistory
  BY <1>1, <1>5, <1>6 DEF HistoryOf, SameHistory
<1>8. /\ N!Fresh(id)' => N!Fresh(id)
      /\ x9' = revived => ~N!Fresh(id)'
  BY <1>5, <1>6 DEF N!Fresh
<1> QED BY <1>2, <1>3, <1>4, <1>6, <1>7, <1>8

(* What is known of a delivery stays known while others are acted on.      *)
LEMMA OtherDelivery ==
  ASSUME NEW id \in N!Ids, N!DeliveryInv(id), x1'[id] = x1[id],
         x9'.autoSends[id] = x9.autoSends[id], x9'.receipts[id] = x9.receipts[id], N!Fresh(id)' => N!Fresh(id),
         id \in x9.raced => id \in x9'.raced, id \in x9.reopened => id \in x9'.reopened,
         x8'.crashes = x8.crashes,
         \A a \in N!Actors : x6'[a] = x6[a] \/ (~N!Works(a, id) /\ ~N!Works(a, id)'),
         N!Swept(id)' => N!Swept(id) /\ x6'["indexer"].listing[id] = x6["indexer"].listing[id]
  PROVE  N!DeliveryInv(id)'
<1>1. /\ \A a \in N!Actors : N!Works(a, id)' => N!Works(a, id) /\ x6'[a] = x6[a]
      /\ \A a \in N!Actors : N!Works(a, id) => N!Works(a, id)' /\ x6'[a] = x6[a]
      /\ N!Stored(id)' <=> N!Stored(id)
      /\ "indexer" \in N!Actors
  BY DEF N!Works, N!Stored, N!Actors
<1>2. N!AloneInv(id)'
  BY <1>1 DEF N!DeliveryInv, N!AloneInv
<1>3. N!CopyInv(id)'
  BY <1>1 DEF N!DeliveryInv, N!CopyInv
<1>4. N!BudgetInv(id)'
  <2>1. /\ N!Answering(id)' <=> N!Answering(id)
        /\ N!Reading(id)' <=> N!Reading(id)
        /\ N!Recorded(id)' = N!Recorded(id) /\ N!Spare' = N!Spare
    BY <1>1 DEF N!Answering, N!Reading, N!Recorded, N!Spare
  <2>2. /\ N!Capped(N!Recorded(id))' = N!Capped(N!Recorded(id))
        /\ N!Works("indexer", id)' => /\ N!Works("indexer", id) /\ x6'["indexer"] = x6["indexer"]
                                      /\ N!Capped(x6["indexer"].row.attempts + 1)' = N!Capped(x6["indexer"].row.attempts + 1)
        /\ N!Swept(id)' => N!Capped(x6["indexer"].listing[id].attempts)' = N!Capped(x6["indexer"].listing[id].attempts)
    BY <1>1, <2>1 DEF N!Capped
  <2>3. N!Answering(id) => N!Works("indexer", id)
    BY DEF N!Answering
  <2> QED BY <1>1, <2>1, <2>2, <2>3 DEF N!DeliveryInv, N!BudgetInv
<1>5. N!ReceiptInv(id)'
  BY <1>1 DEF N!DeliveryInv, N!ReceiptInv
<1> QED BY <1>2, <1>3, <1>4, <1>5 DEF N!DeliveryInv

LEMMA OtherActor ==
  ASSUME NEW a \in N!Actors, N!ActorInv(a), x6'[a] = x6[a], x3' = x3, x9.reopened \subseteq x9'.reopened,
         \A id \in N!Ids : N!Stored(id) => N!Stored(id)', x8.manual > 0 => x8'.manual > 0
  PROVE  N!ActorInv(a)'
<1>1. x6[a] \in N!Work => x6[a].id \in N!Ids
  BY WorkShape
<1>2. \A listing : N!Invalidated(listing)' = N!Invalidated(listing)
  BY DEF N!Invalidated
<1> QED BY <1>1, <1>2 DEF N!ActorInv

(* A step of one actor about one delivery.                                 *)
LEMMA Elsewhere ==
  ASSUME N!IndInv, NEW a \in N!Actors, NEW id \in N!Ids, HistoryOf(id),
         \A b \in N!Actors : b # a => x6'[b] = x6[b],
         x6[a] = N!Idle \/ N!Works(a, id), x6'[a] = N!Idle \/ N!Works(a, id)',
         \A j \in N!Ids : j # id => x1'[j] = x1[j], \A j \in N!Ids : N!Stored(j) => N!Stored(j)',
         x3' = x3, x8'.crashes = x8.crashes, x8.manual > 0 => x8'.manual > 0
  PROVE  /\ \A j \in N!Ids : j # id => N!DeliveryInv(j)'
         /\ \A b \in N!Actors : b # a => N!ActorInv(b)'
<1>1. ASSUME NEW j \in N!Ids, j # id PROVE N!DeliveryInv(j)'
  <2>1. \A b \in N!Actors : x6'[b] = x6[b] \/ (~N!Works(b, j) /\ ~N!Works(b, j)')
    BY <1>1, OperationKinds DEF N!Works
  <2>2. N!Swept(j)' => N!Swept(j) /\ x6'["indexer"].listing[j] = x6["indexer"].listing[j]
    BY OperationKinds DEF N!Works, N!Swept, N!Actors
  <2>3. N!Fresh(j)' => N!Fresh(j)
    BY DEF HistoryOf, N!Fresh
  <2> QED BY <1>1, <2>1, <2>2, <2>3, OtherDelivery DEF N!IndInv, HistoryOf
<1>2. ASSUME NEW b \in N!Actors, b # a PROVE N!ActorInv(b)'
  BY <1>2, OtherActor DEF N!IndInv, HistoryOf
<1> QED BY <1>1, <1>2

(* An operation begins: nobody else is at work on its delivery, or that is *)
(* on record.                                                              *)
LEMMA Beginning ==
  ASSUME N!NotifyTypes, NEW a \in N!Actors, NEW o \in N!Work, NEW h \in N!Histories, N!Begin(a, o, h)
  PROVE  /\ x6' \in [ N!Actors -> {N!Idle} \cup N!Work \cup N!Sweep ] /\ x6'[a] = o
         /\ \A b \in N!Actors : b # a => x6'[b] = x6[b]
         /\ x9' \in N!Histories /\ h.raced \subseteq x9'.raced
         /\ x9'.raced \subseteq h.raced \cup {o.id}
         /\ x9'.autoSends = h.autoSends /\ x9'.receipts = h.receipts /\ x9'.delivered = h.delivered
         /\ x9'.ghosts = h.ghosts /\ x9'.revived = h.revived /\ x9'.reopened = h.reopened
         /\ x9'.acknowledged = h.acknowledged /\ x9'.takenUp = h.takenUp
         /\ o.id \notin x9'.raced => \A b \in N!Actors : b # a => ~N!Works(b, o.id)
<1>1. /\ x6' \in [ N!Actors -> {N!Idle} \cup N!Work \cup N!Sweep ] /\ x6'[a] = o
      /\ \A b \in N!Actors : b # a => x6'[b] = x6[b]
  BY ActorSet DEF N!Begin
<1> DEFINE busy == \E b \in N!Actors \ {a} : x6[b].kind \notin { "idle", "invalidate" } /\ x6[b].id = o.id
           raced == [ h EXCEPT !.raced = @ \cup {o.id} ]
<1>2. o.id \in N!Ids
  BY WorkShape
<1>3. /\ raced \in N!Histories /\ raced.raced = h.raced \cup {o.id}
      /\ raced.autoSends = h.autoSends /\ raced.receipts = h.receipts /\ raced.delivered = h.delivered
      /\ raced.ghosts = h.ghosts /\ raced.revived = h.revived /\ raced.reopened = h.reopened
      /\ raced.acknowledged = h.acknowledged /\ raced.takenUp = h.takenUp
  BY <1>2 DEF N!Histories
<1>4. x9' = IF busy THEN raced ELSE h
  BY DEF N!Begin
<1>5. \A b \in N!Actors : b # a /\ N!Works(b, o.id) => busy
  BY OperationKinds DEF N!Works
<1> HIDE DEF busy, raced
<1> QED BY <1>1, <1>3, <1>4, <1>5

LEMMA BeginDelivery ==
  ASSUME N!IndInv, NEW a \in N!Actors, NEW o \in N!Work, x6[a] = N!Idle, o.row = x1[o.id], o.at = "read",
         o.kind = "retry" => x1[o.id] # Nil /\ N!Retriable(x1[o.id].status), o.kind = "reopen" => o.id \in x9'.reopened,
         x1' = x1, x6'[a] = o, \A b \in N!Actors : b # a => x6'[b] = x6[b],
         x9'.autoSends = x9.autoSends, x9'.receipts = x9.receipts, x9.raced \subseteq x9'.raced,
         x9'.revived = x9.revived, x9.reopened \subseteq x9'.reopened, x8'.crashes = x8.crashes,
         o.id \notin x9'.raced => \A b \in N!Actors : b # a => ~N!Works(b, o.id)
  PROVE  N!DeliveryInv(o.id)'
<1> DEFINE id == o.id
<1>1. id \in N!Ids /\ N!DeliveryInv(id) /\ "indexer" \in N!Actors
  BY WorkShape DEF N!IndInv, N!Actors
<1>2. N!Works(a, id)' /\ ~N!Works(a, id)
  BY OperationKinds DEF N!Works
<1>3. id \notin x9'.raced => \A b \in N!Actors : ~N!Works(b, id) /\ (N!Works(b, id)' <=> b = a)
  BY <1>2 DEF N!Works
<1>4. N!Fresh(id)' => N!Fresh(id) /\ id \notin x9'.raced
  BY DEF N!Fresh
<1>5. N!AloneInv(id)'
  BY <1>3 DEF N!AloneInv
<1>6. N!CopyInv(id)'
  BY <1>3, <1>4 DEF N!CopyInv
<1>7. N!BudgetInv(id)'
  <2> SUFFICES ASSUME N!Fresh(id)' PROVE N!BudgetInv(id)'
    BY DEF N!BudgetInv
  <2>1. ~N!Answering(id) /\ ~N!Answering(id)' /\ N!Reading(id)
    BY <1>1, <1>2, <1>3, <1>4 DEF N!Answering, N!Reading, N!Works
  <2>2. ~(N!Works("indexer", id)' /\ x6'["indexer"].at = "send")
    BY <1>1, <1>3, <1>4 DEF N!Works
  <2>3. N!Recorded(id)' = N!Recorded(id) /\ N!Spare' = N!Spare /\ (N!Stored(id)' <=> N!Stored(id))
    BY DEF N!Recorded, N!Spare, N!Stored
  <2>4. N!Swept(id)' => N!Swept(id) /\ x6'["indexer"] = x6["indexer"]
    BY <1>1, OperationKinds DEF N!Swept
  <2>5. /\ N!Capped(N!Recorded(id))' = N!Capped(N!Recorded(id))
        /\ N!Swept(id)' => N!Capped(x6["indexer"].listing[id].attempts)' = N!Capped(x6["indexer"].listing[id].attempts)
    BY <2>3, <2>4 DEF N!Capped
  <2> QED BY <1>1, <1>4, <2>1, <2>2, <2>3, <2>4, <2>5 DEF N!DeliveryInv, N!BudgetInv
<1>8. N!ReceiptInv(id)'
  <2> SUFFICES ASSUME x8.crashes = 0, N!Fresh(id)', id \notin x9'.reopened PROVE N!ReceiptInv(id)'
    BY DEF N!ReceiptInv
  <2>1. \/ x9.receipts[id] = 0
        \/ x9.receipts[id] = 1 /\ N!Stored(id) /\ x1[id].status \in { "sent", "dead_letter", "invalidated" }
    BY <1>1, <1>3, <1>4 DEF N!DeliveryInv, N!ReceiptInv
  <2>2. o.kind = "retry" => x9.receipts[id] = 0
    BY <2>1 DEF N!Retriable
  <2>3. N!Stored(id)' <=> N!Stored(id)
    BY DEF N!Stored
  <2> QED BY <1>3, <1>4, <2>1, <2>2, <2>3 DEF N!ReceiptInv
<1> QED BY <1>5, <1>6, <1>7, <1>8 DEF N!DeliveryInv
-----------------------------------------------------------------------------
(* One lemma for each action.                                              *)
LEMMA Spending ==
  ASSUME x8 \in N!Budgets
  PROVE  /\ N!Spends("rounds", MaxRounds) => x8' \in N!Budgets /\ x8'.crashes = x8.crashes /\ x8'.manual = x8.manual
         /\ N!Spends("edits", MaxEdits) => x8' \in N!Budgets /\ x8'.crashes = x8.crashes /\ x8'.manual = x8.manual
         /\ N!Spends("reorgs", MaxReorgs) => x8' \in N!Budgets /\ x8'.crashes = x8.crashes /\ x8'.manual = x8.manual
         /\ N!Spends("manual", MaxManual) => x8' \in N!Budgets /\ x8'.crashes = x8.crashes /\ x8'.manual > 0
         /\ N!Spends("crashes", MaxCrashes) => x8' \in N!Budgets /\ x8'.crashes = x8.crashes + 1
BY DEF N!Budgets, N!Spends

LEMMA Resolution ==
  ASSUME N!NotifyTypes, NEW e \in Events, NEW gap
  PROVE  N!Resolve(e, gap).id \in N!Ids /\ N!Resolve(e, gap).id[1] = e /\ N!Resolve(e, gap).type \in N!Transports
<1> DEFINE s == N!resolveReceiverSupplier
           profile == IF s = Unresolved THEN NoProfile ELSE x2[s].profile
           type == IF profile = NoProfile THEN "none" ELSE N!chooseTransport(profile)
<1>1. s = Unresolved \/ s \in N!Matches
  <2>1. CASE N!Cardinality(N!Matches) = 1
    <3>1. N!Cardinality({}) = 0
      BY FS_EmptySet DEF Cardinality, N!Cardinality
    <3>2. N!Matches # {}
      BY <2>1, <3>1
    <3> QED BY <2>1, <3>2 DEF N!resolveReceiverSupplier
  <2>2. CASE N!Cardinality(N!Matches) # 1
    BY <2>2 DEF N!resolveReceiverSupplier
  <2> QED BY <2>1, <2>2
<1>2. s \in N!Subjects /\ (profile = NoProfile \/ profile \in Profiles)
  BY <1>1 DEF N!Subjects, N!Matches, N!NotifyTypes
<1> HIDE DEF s
<1>3. type \in N!Transports
  BY <1>2, TransportTypes DEF N!Transports
<1> HIDE DEF profile, type
<1>4. N!Resolve(e, gap) = IF gap # Nil THEN [ id |-> << e, NoReceiver >>, type |-> "none" ]
                          ELSE [ id |-> << e, s >>, type |-> type ]
  BY DEF N!Resolve, N!SkipFor, s, profile, type
<1> QED BY <1>2, <1>3, <1>4 DEF N!Ids, N!Subjects, N!Transports

LEMMA IntakeStep ==
  ASSUME N!IndInv, NEW e \in Events, NEW gap \in N!Missing \cup {Nil}, N!processSignalSubmittedEvents(e, gap)
  PROVE  N!IndInv'
<1>r. PICK r : r = N!Resolve(e, gap)
  OBVIOUS
<1>o. PICK o : o = [ kind |-> IF N!Pushes(r.type) THEN "dispatch" ELSE "skip", id |-> r.id, row |-> x1[r.id],
                     type |-> r.type, at |-> "read", to |-> r.id[2], void |-> FALSE ]
  OBVIOUS
<1>h. PICK h : h = [ x9 EXCEPT !.takenUp = @ \cup {e} ]
  OBVIOUS
<1>0. /\ N!NotifyTypes /\ "indexer" \in N!Actors
      /\ x6["indexer"] = N!Idle /\ ~x4 /\ e \in x3 /\ N!Begin("indexer", o, h)
      /\ x1' = x1 /\ x2' = x2 /\ x3' = x3 /\ x4' = x4 /\ x5' = x5 /\ x7' = x7 /\ N!Spends("rounds", MaxRounds)
  BY <1>r, <1>o, <1>h DEF N!IndInv, N!processSignalSubmittedEvents, N!Actors
<1>1. r.id \in N!Ids /\ r.id[1] = e /\ r.type \in N!Transports /\ r.id[2] \in N!Subjects
  BY <1>0, <1>r, Resolution DEF N!Ids
<1>2. x8' \in N!Budgets /\ x8'.crashes = x8.crashes /\ x8'.manual = x8.manual
  BY <1>0, Spending DEF N!NotifyTypes
<1>3. /\ o \in N!Work /\ o.id = r.id /\ o.row = x1[o.id] /\ o.at = "read" /\ o.to = o.id[2] /\ ~o.void
      /\ o.kind \in { "dispatch", "skip" } /\ o.id[1] = e
  BY <1>0, <1>1, <1>o DEF N!Work, N!NotifyTypes
<1>4. /\ h \in N!Histories /\ h.takenUp = x9.takenUp \cup {e}
      /\ h.autoSends = x9.autoSends /\ h.receipts = x9.receipts /\ h.delivered = x9.delivered
      /\ h.ghosts = x9.ghosts /\ h.revived = x9.revived /\ h.reopened = x9.reopened
      /\ h.acknowledged = x9.acknowledged /\ h.raced = x9.raced
  BY <1>0, <1>h DEF N!NotifyTypes, N!Histories
<1>5. /\ x6' \in [ N!Actors -> {N!Idle} \cup N!Work \cup N!Sweep ] /\ x6'["indexer"] = o
      /\ \A b \in N!Actors : b # "indexer" => x6'[b] = x6[b]
      /\ x9' \in N!Histories /\ h.raced \subseteq x9'.raced
      /\ x9'.raced \subseteq h.raced \cup {o.id}
      /\ x9'.autoSends = h.autoSends /\ x9'.receipts = h.receipts /\ x9'.delivered = h.delivered
      /\ x9'.ghosts = h.ghosts /\ x9'.revived = h.revived /\ x9'.reopened = h.reopened
      /\ x9'.acknowledged = h.acknowledged /\ x9'.takenUp = h.takenUp
      /\ o.id \notin x9'.raced => \A b \in N!Actors : b # "indexer" => ~N!Works(b, o.id)
  BY <1>0, <1>3, <1>4, Beginning
<1>6. N!DeliveryInv(o.id)'
  BY <1>0, <1>2, <1>3, <1>4, <1>5, BeginDelivery
<1>7. HistoryOf(o.id)
  BY <1>4, <1>5 DEF HistoryOf
<1>8. /\ \A j \in N!Ids : j # o.id => N!DeliveryInv(j)'
      /\ \A b \in N!Actors : b # "indexer" => N!ActorInv(b)'
  <2>1. N!Works("indexer", o.id)' /\ \A j \in N!Ids : N!Stored(j) => N!Stored(j)'
    BY <1>0, <1>3, <1>5 DEF N!Works, N!Stored
  <2> QED BY <1>0, <1>1, <1>2, <1>3, <1>5, <1>7, <2>1, Elsewhere
<1>9. N!ActorInv("indexer")'
  BY <1>0, <1>3, <1>5, OperationKinds DEF N!ActorInv, N!Stored
<1>10. N!NotifyTypes'
  BY <1>0, <1>2, <1>5 DEF N!NotifyTypes
<1>11. N!SweepInv'
  BY <1>0, <1>2, <1>5, OperationKinds DEF N!IndInv, N!SweepInv, N!Swept, N!Stored
<1>12. N!EventInv'
  <2> SUFFICES ASSUME x8.crashes = 0, NEW f \in x9.takenUp \cup {e}
               PROVE  (\E s \in N!Subjects : N!Stored(<< f, s >>)') \/ (x6'["indexer"] \in N!Work /\ x6'["indexer"].id[1] = f)
    BY <1>2, <1>4, <1>5 DEF N!EventInv
  <2>1. CASE f = e
    BY <1>3, <1>5, <2>1
  <2>2. CASE f \in x9.takenUp
    BY <1>0, <2>2, OperationKinds DEF N!IndInv, N!EventInv, N!Stored
  <2> QED BY <2>1, <2>2
<1>13. N!NoticeInv' /\ N!NoWrongRecipient' /\ N!NoGhostDelivery'
  BY <1>0, <1>4, <1>5 DEF N!IndInv, N!NoticeInv, N!NoWrongRecipient, N!NoGhostDelivery
<1> QED BY <1>6, <1>8, <1>9, <1>10, <1>11, <1>12, <1>13 DEF N!IndInv

LEMMA ManualStep ==
  ASSUME N!IndInv, NEW a \in Operators, NEW id \in N!Ids, NEW kind \in { "retry", "reopen", "bury" }, N!Stored(id),
         kind = "retry" => N!Retriable(x1[id].status), kind = "reopen" => x1[id].status = "dead_letter",
         N!ManualRead(a, kind, id)
  PROVE  N!IndInv'
<1>o. PICK o : o = [ kind |-> kind, id |-> id, row |-> x1[id], type |-> x1[id].transport, at |-> "read", to |-> Unresolved,
                     void |-> id[1] \notin x3 /\ x1[id].status = "invalidated" ]
  OBVIOUS
<1>h. PICK h : h = IF kind = "reopen" THEN [ x9 EXCEPT !.reopened = @ \cup {id} ] ELSE x9
  OBVIOUS
<1>0. /\ N!NotifyTypes /\ "indexer" \in N!Actors /\ a \in N!Actors /\ a # "indexer"
      /\ x6[a] = N!Idle /\ N!Begin(a, o, h)
      /\ x1' = x1 /\ x2' = x2 /\ x3' = x3 /\ x4' = x4 /\ x5' = x5 /\ x7' = x7 /\ N!Spends("manual", MaxManual)
  BY <1>o, <1>h, ParticipantsConstants DEF N!IndInv, N!ManualRead, N!Actors
<1>1. x1[id] \in N!Row /\ x1[id].transport \in N!Transports /\ id[1] \in Events
  BY <1>0, RowShape DEF N!NotifyTypes, N!Stored, N!Ids
<1>2. x8' \in N!Budgets /\ x8'.crashes = x8.crashes /\ x8'.manual > 0
  BY <1>0, Spending DEF N!NotifyTypes
<1>3. /\ o \in N!Work /\ o.id = id /\ o.row = x1[o.id] /\ o.row # Nil /\ o.at = "read" /\ o.kind = kind
      /\ o.void => x1[id].status = "invalidated"
  BY <1>1, <1>o, RowShape DEF N!Work, N!Subjects
<1>4. /\ h \in N!Histories /\ x9.reopened \subseteq h.reopened /\ h.reopened \subseteq x9.reopened \cup {id}
      /\ kind = "reopen" => id \in h.reopened
      /\ h.autoSends = x9.autoSends /\ h.receipts = x9.receipts /\ h.delivered = x9.delivered
      /\ h.ghosts = x9.ghosts /\ h.revived = x9.revived /\ h.takenUp = x9.takenUp
      /\ h.acknowledged = x9.acknowledged /\ h.raced = x9.raced
  BY <1>0, <1>h DEF N!NotifyTypes, N!Histories
<1>5. /\ x6' \in [ N!Actors -> {N!Idle} \cup N!Work \cup N!Sweep ] /\ x6'[a] = o
      /\ \A b \in N!Actors : b # a => x6'[b] = x6[b]
      /\ x9' \in N!Histories /\ h.raced \subseteq x9'.raced
      /\ x9'.raced \subseteq h.raced \cup {o.id}
      /\ x9'.autoSends = h.autoSends /\ x9'.receipts = h.receipts /\ x9'.delivered = h.delivered
      /\ x9'.ghosts = h.ghosts /\ x9'.revived = h.revived /\ x9'.reopened = h.reopened
      /\ x9'.acknowledged = h.acknowledged /\ x9'.takenUp = h.takenUp
      /\ o.id \notin x9'.raced => \A b \in N!Actors : b # a => ~N!Works(b, o.id)
  BY <1>0, <1>3, <1>4, Beginning
<1>6. N!DeliveryInv(o.id)'
  <2>1. /\ o.kind = "retry" => x1[o.id] # Nil /\ N!Retriable(x1[o.id].status)
        /\ o.kind = "reopen" => o.id \in x9'.reopened
        /\ x9.reopened \subseteq x9'.reopened /\ x9.raced \subseteq x9'.raced
    BY <1>3, <1>4, <1>5
  <2> QED BY <1>0, <1>2, <1>3, <1>4, <1>5, <2>1, BeginDelivery
<1>7. HistoryOf(o.id)
  BY <1>4, <1>5 DEF HistoryOf
<1>8. /\ \A j \in N!Ids : j # o.id => N!DeliveryInv(j)'
      /\ \A b \in N!Actors : b # a => N!ActorInv(b)'
  <2>1. N!Works(a, o.id)' /\ \A j \in N!Ids : N!Stored(j) => N!Stored(j)'
    BY <1>0, <1>3, <1>5 DEF N!Works, N!Stored
  <2> QED BY <1>0, <1>1, <1>2, <1>3, <1>5, <1>7, <2>1, Elsewhere
<1>9. N!ActorInv(a)'
  <2>1. o.void => kind = "bury"
    BY <1>3 DEF N!Retriable
  <2> QED BY <1>0, <1>2, <1>3, <1>4, <1>5, <2>1, OperationKinds DEF N!ActorInv, N!Stored
<1>10. N!NotifyTypes'
  BY <1>0, <1>2, <1>5 DEF N!NotifyTypes
<1>11. N!SweepInv' /\ N!EventInv'
  BY <1>0, <1>2, <1>4, <1>5 DEF N!IndInv, N!SweepInv, N!EventInv, N!Stored
<1>12. N!NoticeInv' /\ N!NoWrongRecipient' /\ N!NoGhostDelivery'
  BY <1>0, <1>4, <1>5 DEF N!IndInv, N!NoticeInv, N!NoWrongRecipient, N!NoGhostDelivery
<1> QED BY <1>3, <1>6, <1>8, <1>9, <1>10, <1>11, <1>12 DEF N!IndInv

(* What an operation at work on a delivery may rely on.                    *)
LEMMA AtWork ==
  ASSUME N!IndInv, NEW a \in N!Actors, NEW id \in N!Ids, N!Works(a, id), N!Fresh(id)
  PROVE  /\ \A b \in N!Actors : N!Works(b, id) => b = a
         /\ \/ x1[id] = x6[a].row
            \/ N!Stored(id) /\ x1[id].status = "invalidated"
         /\ a = "indexer" => x1[id] = x6[a].row
         /\ N!DeliveryInv(id)
<1>1. N!AloneInv(id) /\ N!CopyInv(id) /\ N!DeliveryInv(id)
  BY DEF N!IndInv, N!DeliveryInv
<1> QED BY <1>1 DEF N!AloneInv, N!CopyInv, N!Fresh

(* It saves the row, and ends or goes on.                                  *)
LEMMA SaveFrame ==
  ASSUME N!IndInv, NEW a \in N!Actors, NEW id \in N!Ids, N!Works(a, id), NEW row \in N!Row, N!saveDelivery(id, row),
         NEW o, o = N!Idle \/ (o \in N!Work /\ o.id = id), x6' = [ x6 EXCEPT ![a] = o ],
         UNCHANGED << x2, x3, x4, x5, x7, x8 >>
  PROVE  /\ N!NotifyTypes' /\ N!SweepInv' /\ N!NoticeInv' /\ N!EventInv' /\ N!NoWrongRecipient' /\ N!NoGhostDelivery'
         /\ \A j \in N!Ids : j # id => N!DeliveryInv(j)'
         /\ \A b \in N!Actors : b # a => N!ActorInv(b)'
         /\ x6'[a] = o /\ \A b \in N!Actors : b # a => x6'[b] = x6[b]
<1>0. N!NotifyTypes /\ N!ActorInv(a) /\ "indexer" \in N!Actors /\ id = << id[1], id[2] >> /\ id[2] \in N!Subjects
  BY DEF N!IndInv, N!Actors, N!Ids
<1>1. /\ x6' \in [ N!Actors -> {N!Idle} \cup N!Work \cup N!Sweep ] /\ x6'[a] = o
      /\ \A b \in N!Actors : b # a => x6'[b] = x6[b]
  BY <1>0, ActorSet
<1>2. /\ x1' \in [ N!Ids -> N!Row \cup {Nil} ] /\ x1'[id] = row
      /\ \A j \in N!Ids : j # id => x1'[j] = x1[j]
      /\ \A j \in N!Ids : N!Stored(j) => N!Stored(j)'
      /\ N!Stored(id)'
      /\ HistoryOf(id) /\ SameHistory
  BY <1>0, Saving
<1>3. /\ \A j \in N!Ids : j # id => N!DeliveryInv(j)'
      /\ \A b \in N!Actors : b # a => N!ActorInv(b)'
  <2>1. x6'[a] = N!Idle \/ N!Works(a, id)'
    BY <1>1 DEF N!Works
  <2> QED BY <1>1, <1>2, <2>1, Elsewhere
<1>4. N!NotifyTypes'
  BY <1>0, <1>1, <1>2 DEF N!NotifyTypes, HistoryOf
<1>5. N!SweepInv'
  <2>1. CASE a = "indexer"
    <3>1. x6["indexer"] # N!Idle /\ ~x4 /\ id[1] \in x3 /\ \A j \in N!Ids : ~N!Swept(j)
      BY <1>0, <2>1, OperationKinds DEF N!IndInv, N!SweepInv, N!Swept, N!ActorInv, N!Works
    <3> QED BY <1>2, <3>1 DEF N!IndInv, N!SweepInv, N!Stored
  <2>2. CASE a # "indexer"
    <3>1. x6'["indexer"] = x6["indexer"] /\ x8.manual > 0
      BY <1>0, <1>1, <2>2 DEF N!ActorInv, N!Works
    <3>2. x8.manual # 0
      BY <1>0, <3>1 DEF N!NotifyTypes, N!Budgets
    <3> QED BY <3>1, <3>2 DEF N!IndInv, N!SweepInv
  <2> QED BY <2>1, <2>2
<1>6. N!EventInv'
  <2> SUFFICES ASSUME x8.crashes = 0, NEW e \in x9.takenUp
               PROVE  \/ \E s \in N!Subjects : N!Stored(<< e, s >>)'
                      \/ x6'["indexer"] \in N!Work /\ x6'["indexer"].id[1] = e
    BY <1>2 DEF N!EventInv, SameHistory
  <2>0. e \in Events
    BY <1>0 DEF N!NotifyTypes, N!Histories
  <2>1. CASE \E s \in N!Subjects : N!Stored(<< e, s >>)
    BY <1>2, <2>0, <2>1 DEF N!Ids
  <2>2. CASE x6["indexer"] \in N!Work /\ x6["indexer"].id[1] = e
    <3>1. CASE a = "indexer"
      BY <1>0, <1>2, <2>2, <3>1 DEF N!Works
    <3>2. CASE a # "indexer"
      BY <1>0, <1>1, <2>2, <3>2
    <3> QED BY <3>1, <3>2
  <2> QED BY <2>1, <2>2 DEF N!IndInv, N!EventInv
<1>7. N!NoticeInv' /\ N!NoWrongRecipient' /\ N!NoGhostDelivery'
  BY <1>2 DEF N!IndInv, N!NoticeInv, N!NoWrongRecipient, N!NoGhostDelivery, SameHistory
<1> QED BY <1>1, <1>3, <1>4, <1>5, <1>6, <1>7

LEMMA SavedDelivery ==
  ASSUME N!IndInv, NEW a \in N!Actors, NEW id \in N!Ids, N!Works(a, id), NEW row \in N!Row, N!saveDelivery(id, row),
         NEW o, o = N!Idle \/ (o \in N!Work /\ o.id = id), x6' = [ x6 EXCEPT ![a] = o ],
         UNCHANGED << x2, x3, x4, x5, x7, x8 >>,
         row.status # "invalidated", o = N!Idle => row.status # "pending",
         o # N!Idle => o.row = row /\ o.at = "send",
         N!Fresh(id) /\ x1[id] = x6[a].row =>
           /\ x9.autoSends[id] <= N!Capped(row.attempts) + N!Spare
           /\ o # N!Idle /\ a = "indexer" => x9.autoSends[id] + 1 <= N!Capped(row.attempts + 1) + N!Spare
           /\ x8.crashes = 0 /\ id \notin x9.reopened =>
                \/ x9.receipts[id] = 0
                \/ x9.receipts[id] = 1 /\ o = N!Idle /\ row.status \in { "sent", "dead_letter" }
  PROVE  N!DeliveryInv(id)'
<1>0. N!NotifyTypes /\ "indexer" \in N!Actors /\ N!Idle \notin N!Work /\ N!AloneInv(id)
  BY OperationKinds DEF N!IndInv, N!DeliveryInv, N!Actors
<1>1. /\ x6' \in [ N!Actors -> {N!Idle} \cup N!Work \cup N!Sweep ] /\ x6'[a] = o
      /\ \A b \in N!Actors : b # a => x6'[b] = x6[b]
  BY <1>0, OperationKinds, ActorSet
<1>2. /\ x1'[id] = row /\ N!Stored(id)' /\ SameHistory
      /\ N!Fresh(id)' => N!Fresh(id)
      /\ N!Stored(id) /\ x1[id].status = "invalidated" /\ row.status # "invalidated" => ~N!Fresh(id)'
  BY <1>0, Saving
<1>3. N!Fresh(id)' => N!Fresh(id) /\ x1[id] = x6[a].row /\ id \notin x9.raced
  BY <1>2, AtWork DEF N!Fresh
<1>4. id \notin x9.raced => \A b \in N!Actors : N!Works(b, id)' => b = a /\ o \in N!Work
  BY <1>0, <1>1 DEF N!AloneInv, N!Works
<1>5. N!AloneInv(id)'
  BY <1>2, <1>4 DEF N!AloneInv, SameHistory
<1>6. N!CopyInv(id)'
  BY <1>0, <1>1, <1>2, <1>3, <1>4 DEF N!CopyInv
<1>7. N!BudgetInv(id)'
  <2> SUFFICES ASSUME N!Fresh(id)' PROVE N!BudgetInv(id)'
    BY DEF N!BudgetInv
  <2>1. ~N!Answering(id)'
    BY <1>0, <1>1, <1>3, <1>4 DEF N!Answering, N!Works
  <2>2. N!Works("indexer", id)' => o # N!Idle /\ a = "indexer"
    BY <1>0, <1>3, <1>4
  <2>3. N!Reading(id)' => o = N!Idle
    BY <1>0, <1>1 DEF N!Reading, N!Works
  <2>4. N!Swept(id)' => N!Swept(id) /\ x6'["indexer"] = x6["indexer"]
    BY <1>0, <1>1, OperationKinds DEF N!Swept
  <2>5. N!Recorded(id)' = row.attempts /\ N!Spare' = N!Spare /\ x9'.autoSends = x9.autoSends
    BY <1>2 DEF N!Recorded, N!Spare, SameHistory
  <2>6. /\ N!Capped(N!Recorded(id))' = N!Capped(row.attempts)
        /\ N!Swept(id)' => N!Capped(x6["indexer"].listing[id].attempts)' = N!Capped(x6["indexer"].listing[id].attempts)
        /\ N!Works("indexer", id)' => N!Capped(x6["indexer"].row.attempts + 1)' = N!Capped(row.attempts + 1)
    BY <1>0, <1>1, <2>2, <2>4, <2>5 DEF N!Capped
  <2>7. N!Swept(id) => x9.autoSends[id] <= N!Capped(x6["indexer"].listing[id].attempts) + N!Spare
    BY <1>3 DEF N!IndInv, N!DeliveryInv, N!BudgetInv
  <2> QED BY <1>1, <1>2, <1>3, <2>1, <2>2, <2>3, <2>4, <2>5, <2>6, <2>7 DEF N!BudgetInv
<1>8. N!ReceiptInv(id)'
  <2> SUFFICES ASSUME x8.crashes = 0, N!Fresh(id)', id \notin x9.reopened PROVE N!ReceiptInv(id)'
    BY <1>2 DEF N!ReceiptInv, SameHistory
  <2>1. \/ x9.receipts[id] = 0
        \/ x9.receipts[id] = 1 /\ o = N!Idle /\ row.status \in { "sent", "dead_letter" }
    BY <1>3
  <2>2. \A b \in N!Actors : N!Works(b, id)' => o # N!Idle
    BY <1>0, <1>3, <1>4
  <2>3. x9'.receipts = x9.receipts /\ x1'[id] = row /\ N!Stored(id)'
    BY <1>2 DEF SameHistory
  <2> QED BY <2>1, <2>2, <2>3 DEF N!ReceiptInv
<1> QED BY <1>5, <1>6, <1>7, <1>8 DEF N!DeliveryInv

(* The numbers of an attempt.                                              *)
LEMMA Attempts ==
  ASSUME N!NotifyTypes
  PROVE  /\ N!Spare \in Nat /\ \A id \in N!Ids : x9.autoSends[id] \in Nat /\ x9.receipts[id] \in Nat
         /\ N!Capped(0) = 0
         /\ \A n \in Nat : /\ N!Capped(n) \in Nat /\ N!Capped(n + 1) \in Nat /\ N!Capped(n) <= MaxAutomatic
                           /\ N!Capped(n + 1) <= MaxAutomatic
                           /\ N!Capped(n) <= N!Capped(n + 1) /\ N!Capped(n + 1) >= 1
                           /\ n < MaxAutomatic => N!Capped(n + 1) = N!Capped(n) + 1
<1>1. MaxAutomatic \in Nat /\ MaxAutomatic > 0 /\ x8.crashes \in Nat
  BY ParticipantsConstants DEF N!NotifyTypes, N!Budgets
<1>2. N!Spare \in Nat
  BY <1>1 DEF N!Spare
<1>3. \A id \in N!Ids : x9.autoSends[id] \in Nat /\ x9.receipts[id] \in Nat
  BY DEF N!NotifyTypes, N!Histories
<1> QED BY <1>1, <1>2, <1>3 DEF N!Capped

LEMMA WorkKinds ==
  ASSUME N!NotifyTypes, NEW a \in N!Actors, x6[a].kind \in { "dispatch", "skip", "retry", "reopen", "bury" }
  PROVE  x6[a] \in N!Work /\ x6[a].id \in N!Ids
<1>1. x6[a] \in {N!Idle} \cup N!Work \cup N!Sweep
  BY DEF N!NotifyTypes
<1> QED BY <1>1, OperationKinds, WorkShape

(* An operation that has only read the row finds what was accounted for.   *)
LEMMA Readings ==
  ASSUME N!IndInv, NEW a \in N!Actors, NEW id \in N!Ids, N!Works(a, id), x6[a].at = "read", N!Fresh(id)
  PROVE  /\ x9.autoSends[id] <= N!Capped(N!Recorded(id)) + N!Spare
         /\ N!Stored(id) /\ x1[id].status = "pending" => x9.autoSends[id] <= N!Spare
         /\ x8.crashes = 0 /\ id \notin x9.reopened =>
              /\ \/ x9.receipts[id] = 0
                 \/ x9.receipts[id] = 1 /\ N!Stored(id) /\ x1[id].status \in { "sent", "dead_letter", "invalidated" }
              /\ x6[a].kind = "retry" => x9.receipts[id] = 0
<1>1. N!DeliveryInv(id) /\ \A b \in N!Actors : N!Works(b, id) => b = a
  BY AtWork
<1>2. ~N!Answering(id) /\ N!Reading(id) /\ "indexer" \in N!Actors
  BY <1>1 DEF N!Answering, N!Reading, N!Actors
<1> QED BY <1>1, <1>2 DEF N!DeliveryInv, N!BudgetInv, N!ReceiptInv

(* The indexer leaves a row as it found it.                                *)
LEMMA PassStep ==
  ASSUME N!IndInv, NEW id \in N!Ids, N!Works("indexer", id), x6["indexer"].at = "read", x6["indexer"].row # Nil,
         x6' = [ x6 EXCEPT !["indexer"] = N!Idle ], UNCHANGED << x1, x2, x3, x4, x5, x7, x8, x9 >>
  PROVE  N!IndInv'
<1>0. /\ N!NotifyTypes /\ "indexer" \in N!Actors /\ N!ActorInv("indexer") /\ N!Stored(id) /\ N!DeliveryInv(id)
      /\ id = << id[1], id[2] >> /\ id[2] \in N!Subjects /\ x6["indexer"] \in N!Work
  BY DEF N!IndInv, N!Actors, N!ActorInv, N!Works, N!Ids
<1>1. /\ x6' \in [ N!Actors -> {N!Idle} \cup N!Work \cup N!Sweep ] /\ x6'["indexer"] = N!Idle
      /\ \A b \in N!Actors : b # "indexer" => x6'[b] = x6[b]
  BY <1>0, ActorSet
<1>2. /\ \A j \in N!Ids : j # id => N!DeliveryInv(j)'
      /\ \A b \in N!Actors : b # "indexer" => N!ActorInv(b)'
  <2>1. HistoryOf(id) /\ \A j \in N!Ids : N!Stored(j) => N!Stored(j)'
    BY <1>0 DEF HistoryOf, N!NotifyTypes, N!Stored
  <2> QED BY <1>0, <1>1, <2>1, Elsewhere
<1>3. N!ActorInv("indexer")'
  BY <1>1, OperationKinds DEF N!ActorInv
<1>4. N!DeliveryInv(id)'
  <2>1. N!Fresh(id)' <=> N!Fresh(id)
    BY DEF N!Fresh
  <2>2. \A b \in N!Actors : N!Works(b, id)' => N!Works(b, id) /\ x6'[b] = x6[b] /\ b # "indexer"
    BY <1>1, OperationKinds DEF N!Works
  <2>3. N!AloneInv(id)'
    BY <1>0, <2>2 DEF N!DeliveryInv, N!AloneInv
  <2>4. N!Fresh(id) => \A b \in N!Actors : ~N!Works(b, id)'
    BY <1>0, <2>2, AtWork
  <2>5. N!CopyInv(id)'
    BY <2>1, <2>4 DEF N!CopyInv
  <2>6. N!BudgetInv(id)'
    <3> SUFFICES ASSUME N!Fresh(id) PROVE N!BudgetInv(id)'
      BY <2>1 DEF N!BudgetInv
    <3>1. ~N!Answering(id)' /\ ~N!Works("indexer", id)' /\ ~N!Swept(id)'
      BY <1>0, <1>1, <2>4, OperationKinds DEF N!Answering, N!Swept
    <3>2. N!Recorded(id)' = N!Recorded(id) /\ N!Spare' = N!Spare /\ (N!Stored(id)' <=> N!Stored(id))
      BY DEF N!Recorded, N!Spare, N!Stored
    <3>3. N!Capped(N!Recorded(id))' = N!Capped(N!Recorded(id))
      BY <3>2 DEF N!Capped
    <3>4. /\ x9.autoSends[id] <= N!Capped(N!Recorded(id)) + N!Spare
          /\ N!Stored(id) /\ x1[id].status = "pending" => x9.autoSends[id] <= N!Spare
      BY <1>0, Readings
    <3> QED BY <3>1, <3>2, <3>3, <3>4 DEF N!BudgetInv
  <2>7. N!ReceiptInv(id)'
    <3> SUFFICES ASSUME x8.crashes = 0, N!Fresh(id), id \notin x9.reopened PROVE N!ReceiptInv(id)'
      BY <2>1 DEF N!ReceiptInv
    <3>1. \/ x9.receipts[id] = 0
          \/ x9.receipts[id] = 1 /\ N!Stored(id) /\ x1[id].status \in { "sent", "dead_letter", "invalidated" }
      BY <1>0, Readings
    <3> QED BY <2>4, <3>1 DEF N!ReceiptInv, N!Stored
  <2> QED BY <2>3, <2>5, <2>6, <2>7 DEF N!DeliveryInv
<1>5. N!NotifyTypes'
  BY <1>0, <1>1 DEF N!NotifyTypes
<1>6. N!SweepInv'
  BY <1>0, <1>1, OperationKinds DEF N!IndInv, N!SweepInv, N!Swept, N!Stored
<1>7. N!EventInv'
  <2> SUFFICES ASSUME x8.crashes = 0, NEW e \in x9.takenUp
               PROVE  \E s \in N!Subjects : N!Stored(<< e, s >>)'
    BY DEF N!EventInv
  <2>1. CASE \E s \in N!Subjects : N!Stored(<< e, s >>)
    BY <2>1 DEF N!Stored
  <2>2. CASE x6["indexer"].id[1] = e
    BY <1>0, <2>2 DEF N!Works, N!Stored
  <2> QED BY <2>1, <2>2 DEF N!IndInv, N!EventInv
<1>8. N!NoticeInv' /\ N!NoWrongRecipient' /\ N!NoGhostDelivery'
  BY DEF N!IndInv, N!NoticeInv, N!NoWrongRecipient, N!NoGhostDelivery
<1> QED BY <1>2, <1>3, <1>4, <1>5, <1>6, <1>7, <1>8 DEF N!IndInv

LEMMA SaveStep ==
  ASSUME N!IndInv, NEW a \in N!Actors, NEW id \in N!Ids, N!Works(a, id), NEW row \in N!Row, N!saveDelivery(id, row),
         NEW o, o = N!Idle \/ (o \in N!Work /\ o.id = id), x6' = [ x6 EXCEPT ![a] = o ],
         UNCHANGED << x2, x3, x4, x5, x7, x8 >>,
         row.status # "invalidated", o = N!Idle => row.status # "pending",
         o # N!Idle => /\ o.row = row /\ row.status = "pending" /\ o.at = "send" /\ o.to = id[2]
                       /\ o.kind = x6[a].kind /\ o.kind \notin { "skip", "bury" } /\ o.void = x6[a].void,
         N!Fresh(id) /\ x1[id] = x6[a].row =>
           /\ x9.autoSends[id] <= N!Capped(row.attempts) + N!Spare
           /\ o # N!Idle /\ a = "indexer" => x9.autoSends[id] + 1 <= N!Capped(row.attempts + 1) + N!Spare
           /\ x8.crashes = 0 /\ id \notin x9.reopened =>
                \/ x9.receipts[id] = 0
                \/ x9.receipts[id] = 1 /\ o = N!Idle /\ row.status \in { "sent", "dead_letter" }
  PROVE  N!IndInv'
<1>1. N!DeliveryInv(id)'
  BY SavedDelivery
<1>2. /\ N!NotifyTypes' /\ N!SweepInv' /\ N!NoticeInv' /\ N!EventInv' /\ N!NoWrongRecipient' /\ N!NoGhostDelivery'
      /\ \A j \in N!Ids : j # id => N!DeliveryInv(j)'
      /\ \A b \in N!Actors : b # a => N!ActorInv(b)'
      /\ x6'[a] = o /\ \A b \in N!Actors : b # a => x6'[b] = x6[b]
  BY SaveFrame
<1>3. N!ActorInv(a)'
  <2>1. N!ActorInv(a) /\ x6[a] \in N!Work /\ x6[a].id = id
    BY DEF N!IndInv, N!Works
  <2>2. N!Stored(id)' /\ x9'.reopened = x9.reopened
    BY Saving DEF N!IndInv, SameHistory
  <2>3. CASE o = N!Idle
    BY <1>2, <2>3, OperationKinds DEF N!ActorInv
  <2>4. CASE o # N!Idle
    BY <1>2, <2>1, <2>2, <2>4, OperationKinds, RowShape DEF N!ActorInv
  <2> QED BY <2>3, <2>4
<1> QED BY <1>1, <1>2, <1>3 DEF N!IndInv

LEMMA SkippedStep ==
  ASSUME N!IndInv, N!saveSkippedSignalDelivery
  PROVE  N!IndInv'
<1>o. PICK o : o = x6["indexer"]
  OBVIOUS
<1>i. PICK id : id = o.id
  OBVIOUS
<1>0. /\ N!NotifyTypes /\ "indexer" \in N!Actors /\ N!ActorInv("indexer") /\ o.kind = "skip"
      /\ x6' = [ x6 EXCEPT !["indexer"] = N!Idle ] /\ UNCHANGED << x2, x3, x4, x5, x7, x8 >>
  BY <1>o DEF N!IndInv, N!Actors, N!saveSkippedSignalDelivery, N!End
<1>1. o \in N!Work /\ id \in N!Ids /\ N!Works("indexer", id) /\ o.at = "read" /\ o.type \in N!Transports
  BY <1>0, <1>o, <1>i, WorkKinds, WorkShape DEF N!ActorInv, N!Works
<1>2. CASE o.row = Nil \/ o.row.status = "pending"
  <2>r. PICK row : row = [ N!New(o.type) EXCEPT !.status = "skipped" ]
    OBVIOUS
  <2>1. N!saveDelivery(id, row)
    BY <1>o, <1>i, <1>2, <2>r DEF N!saveSkippedSignalDelivery
  <2>2. row \in N!Row /\ row.status = "skipped" /\ row.attempts = 0
    BY <1>1, <2>r, NewRow, RowSet DEF N!Statuses
  <2>3. ASSUME N!Fresh(id), x1[id] = o.row
        PROVE  /\ x9.autoSends[id] <= N!Capped(row.attempts) + N!Spare
               /\ x8.crashes = 0 /\ id \notin x9.reopened => x9.receipts[id] = 0
    <3>1. /\ x9.autoSends[id] <= N!Capped(N!Recorded(id)) + N!Spare
          /\ N!Stored(id) /\ x1[id].status = "pending" => x9.autoSends[id] <= N!Spare
          /\ x8.crashes = 0 /\ id \notin x9.reopened =>
               \/ x9.receipts[id] = 0
               \/ x9.receipts[id] = 1 /\ N!Stored(id) /\ x1[id].status \in { "sent", "dead_letter", "invalidated" }
      BY <1>0, <1>1, <1>o, <2>3, Readings
    <3>2. x1[id] = Nil => N!Recorded(id) = 0
      BY DEF N!Recorded, N!Stored
    <3>3. N!Capped(0) = 0 /\ N!Spare \in Nat
      BY <1>0, Attempts
    <3> QED BY <1>2, <2>2, <2>3, <3>1, <3>2, <3>3 DEF N!Stored
  <2> QED BY <1>0, <1>1, <1>o, <2>1, <2>2, <2>3, SaveStep
<1>3. CASE ~(o.row = Nil \/ o.row.status = "pending")
  <2>1. UNCHANGED << x1, x9 >>
    BY <1>o, <1>3 DEF N!saveSkippedSignalDelivery
  <2> QED BY <1>0, <1>1, <1>3, <1>o, <2>1, PassStep
<1> QED BY <1>2, <1>3

LEMMA DispatchStep ==
  ASSUME N!IndInv, N!dispatchSignalTransportDelivery
  PROVE  N!IndInv'
<1>o. PICK o : o = x6["indexer"]
  OBVIOUS
<1>i. PICK id : id = o.id
  OBVIOUS
<1>r. PICK row : row = IF o.row = Nil THEN N!New(o.type) ELSE o.row
  OBVIOUS
<1>0. /\ N!NotifyTypes /\ "indexer" \in N!Actors /\ N!ActorInv("indexer") /\ o.kind = "dispatch" /\ o.at = "read"
      /\ UNCHANGED << x2, x3, x4, x5, x7, x8 >>
  BY <1>o DEF N!IndInv, N!Actors, N!dispatchSignalTransportDelivery
<1>1. o \in N!Work /\ id \in N!Ids /\ N!Works("indexer", id) /\ o.type \in N!Transports /\ o.to = id[2] /\ ~o.void
  BY <1>0, <1>o, <1>i, WorkKinds, WorkShape DEF N!ActorInv, N!Works
<1>2. /\ row \in N!Row /\ row.status \in N!Statuses /\ row.attempts \in Nat
      /\ o.row = Nil => row.status = "pending" /\ row.attempts = 0
      /\ o.row # Nil => row = o.row
  BY <1>1, <1>r, WorkShape, NewRow, RowShape
<1>3. ASSUME N!Fresh(id), x1[id] = o.row, row.status \in { "pending", "failed" }
      PROVE  /\ x9.autoSends[id] <= N!Capped(row.attempts) + N!Spare
             /\ row.status = "pending" => x9.autoSends[id] <= N!Spare
             /\ x8.crashes = 0 /\ id \notin x9.reopened => x9.receipts[id] = 0
  <2>1. /\ x9.autoSends[id] <= N!Capped(N!Recorded(id)) + N!Spare
        /\ N!Stored(id) /\ x1[id].status = "pending" => x9.autoSends[id] <= N!Spare
        /\ x8.crashes = 0 /\ id \notin x9.reopened =>
             \/ x9.receipts[id] = 0
             \/ x9.receipts[id] = 1 /\ N!Stored(id) /\ x1[id].status \in { "sent", "dead_letter", "invalidated" }
    BY <1>0, <1>1, <1>o, <1>3, Readings
  <2>2. N!Recorded(id) = row.attempts
    BY <1>2, <1>3 DEF N!Recorded, N!Stored
  <2>3. N!Capped(0) = 0 /\ N!Spare \in Nat
    BY <1>0, Attempts
  <2> QED BY <1>2, <1>3, <2>1, <2>2, <2>3 DEF N!Stored
<1>4. CASE row.status \notin { "pending", "failed" }
  <2>1. x6' = [ x6 EXCEPT !["indexer"] = N!Idle ] /\ UNCHANGED << x1, x9 >>
    BY <1>o, <1>r, <1>4 DEF N!dispatchSignalTransportDelivery, N!End
  <2> QED BY <1>0, <1>1, <1>2, <1>4, <1>o, <2>1, PassStep
<1>5. CASE row.status \in { "pending", "failed" } /\ N!Exhausted(row)
  <2>r. PICK dead : dead = [ row EXCEPT !.status = "dead_letter" ]
    OBVIOUS
  <2>1. N!saveDelivery(id, dead) /\ x6' = [ x6 EXCEPT !["indexer"] = N!Idle ]
    BY <1>o, <1>i, <1>r, <1>5, <2>r DEF N!dispatchSignalTransportDelivery, N!End
  <2>2. dead \in N!Row /\ dead.status = "dead_letter" /\ dead.attempts = row.attempts
    BY <1>2, <2>r, RowSet DEF N!Statuses
  <2> QED BY <1>0, <1>1, <1>3, <1>5, <1>o, <2>1, <2>2, SaveStep
<1>6. CASE row.status \in { "pending", "failed" } /\ ~N!Exhausted(row)
  <2>r. PICK due : due = [ row EXCEPT !.status = "pending" ]
    OBVIOUS
  <2>n. PICK new : new = [ o EXCEPT !.row = due, !.at = "send" ]
    OBVIOUS
  <2>1. N!saveDelivery(id, due) /\ x6' = [ x6 EXCEPT !["indexer"] = new ]
    BY <1>o, <1>i, <1>r, <1>6, <2>r, <2>n DEF N!dispatchSignalTransportDelivery
  <2>2. due \in N!Row /\ due.status = "pending" /\ due.attempts = row.attempts
    BY <1>2, <2>r, RowSet DEF N!Statuses
  <2>3. /\ new \in N!Work /\ new.id = id /\ new.row = due /\ new.at = "send" /\ new.to = o.to
        /\ new.kind = o.kind /\ new.void = o.void
    BY <1>1, <1>i, <2>n, <2>2 DEF N!Work
  <2>4. N!Fresh(id) /\ x1[id] = o.row => x9.autoSends[id] + 1 <= N!Capped(row.attempts + 1) + N!Spare
    <3>1. /\ N!Spare \in Nat /\ x9.autoSends[id] \in Nat /\ N!Capped(row.attempts) \in Nat
          /\ N!Capped(row.attempts + 1) \in Nat /\ N!Capped(row.attempts + 1) >= 1
          /\ row.attempts < MaxAutomatic => N!Capped(row.attempts + 1) = N!Capped(row.attempts) + 1
      BY <1>0, <1>1, <1>2, Attempts
    <3>2. row.status = "failed" => row.attempts < MaxAutomatic
      BY <1>2, <1>6, ParticipantsConstants DEF N!Exhausted
    <3> QED BY <1>3, <1>6, <3>1, <3>2
  <2>5. new # N!Idle /\ due.status # "invalidated"
    BY <2>2, <2>3, OperationKinds
  <2>6. N!Fresh(id) /\ x1[id] = x6["indexer"].row =>
          /\ x9.autoSends[id] <= N!Capped(due.attempts) + N!Spare
          /\ x9.autoSends[id] + 1 <= N!Capped(due.attempts + 1) + N!Spare
          /\ x8.crashes = 0 /\ id \notin x9.reopened => x9.receipts[id] = 0
    BY <1>3, <1>6, <1>o, <2>2, <2>4
  <2>7. /\ new.kind = x6["indexer"].kind /\ new.kind \notin { "skip", "bury" } /\ new.void = x6["indexer"].void
        /\ new.to = id[2]
    BY <1>0, <1>1, <1>o, <2>3
  <2> QED BY <1>0, <1>1, <2>1, <2>2, <2>3, <2>5, <2>6, <2>7, SaveStep
<1> QED BY <1>4, <1>5, <1>6

LEMMA StoreAnswerStep ==
  ASSUME N!IndInv, NEW a \in N!Actors, N!dispatchPreparedDelivery(a)
  PROVE  N!IndInv'
<1>o. PICK o : o = x6[a]
  OBVIOUS
<1>i. PICK id : id = o.id
  OBVIOUS
<1>0. /\ N!NotifyTypes /\ "indexer" \in N!Actors /\ N!ActorInv(a) /\ o.kind \in { "dispatch", "retry", "reopen" }
      /\ x6' = [ x6 EXCEPT ![a] = N!Idle ] /\ UNCHANGED << x2, x3, x4, x5, x7, x8 >>
      /\ o.at \in { "accepted", "refused", "send" }
  BY <1>o DEF N!IndInv, N!Actors, N!dispatchPreparedDelivery, N!End
<1>1. /\ o \in N!Work /\ id \in N!Ids /\ N!Works(a, id)
      /\ o.row \in N!Row /\ o.row.status = "pending" /\ o.row.attempts \in Nat
  BY <1>0, <1>o, <1>i, WorkKinds, WorkShape, RowShape DEF N!ActorInv, N!Works
<1>2. ASSUME N!Fresh(id), x1[id] = o.row
      PROVE  /\ x9.autoSends[id] <= N!Capped(o.row.attempts + 1) + N!Spare
             /\ o.at = "send" => x9.autoSends[id] <= N!Capped(o.row.attempts) + N!Spare
             /\ x8.crashes = 0 /\ id \notin x9.reopened =>
                  x9.receipts[id] = 0 \/ (x9.receipts[id] = 1 /\ o.at = "accepted")
  <2>1. N!DeliveryInv(id) /\ \A b \in N!Actors : N!Works(b, id) => b = a
    BY <1>1, <1>2, AtWork
  <2>2. N!Recorded(id) = o.row.attempts /\ N!Stored(id)
    BY <1>1, <1>2, RowShape DEF N!Recorded, N!Stored
  <2>3. /\ N!Spare \in Nat /\ x9.autoSends[id] \in Nat /\ N!Capped(o.row.attempts) \in Nat
        /\ N!Capped(o.row.attempts + 1) \in Nat /\ N!Capped(o.row.attempts) <= N!Capped(o.row.attempts + 1)
    BY <1>0, <1>1, Attempts
  <2>4. N!Answering(id) => a = "indexer" /\ o.at # "send"
    BY <1>0, <1>o, <2>1 DEF N!Answering
  <2>5. /\ ~N!Answering(id) => x9.autoSends[id] <= N!Capped(o.row.attempts) + N!Spare
        /\ N!Answering(id) => x9.autoSends[id] <= N!Capped(o.row.attempts + 1) + N!Spare
    BY <1>2, <1>o, <2>1, <2>2, <2>4 DEF N!DeliveryInv, N!BudgetInv
  <2>6. x8.crashes = 0 /\ id \notin x9.reopened => x9.receipts[id] = 0 \/ (x9.receipts[id] = 1 /\ o.at = "accepted")
    BY <1>1, <1>2, <1>o, <2>1 DEF N!DeliveryInv, N!ReceiptInv
  <2> QED BY <2>3, <2>4, <2>5, <2>6
<1>3. CASE o.at # "send"
  <2>s. PICK status \in N!Statuses : status = IF o.at = "accepted" THEN "sent" ELSE "failed"
    BY DEF N!Statuses
  <2>r. PICK row : row = [ o.row EXCEPT !.status = status, !.attempts = @ + 1 ]
    OBVIOUS
  <2>1. N!saveDelivery(id, row)
    BY <1>0, <1>o, <1>i, <1>3, <2>s, <2>r DEF N!dispatchPreparedDelivery
  <2>2. /\ row \in N!Row /\ row.attempts = o.row.attempts + 1
        /\ row.status = IF o.at = "accepted" THEN "sent" ELSE "failed"
    <3>1. PICK old : old = o.row
      OBVIOUS
    <3>2. PICK n : n = old.attempts + 1
      OBVIOUS
    <3>3. old \in N!Row /\ n \in Nat /\ row = [ old EXCEPT !.status = status, !.attempts = n ]
      BY <1>1, <2>r, <3>1, <3>2
    <3>4. row \in N!Row /\ row.status = status /\ row.attempts = n
      BY <3>3 DEF N!Row
    <3> QED BY <2>s, <3>1, <3>2, <3>4
  <2> QED BY <1>0, <1>1, <1>2, <1>o, <2>1, <2>2, SaveStep
<1>4. CASE o.at = "send"
  <2>r. PICK row : row = [ o.row EXCEPT !.status = "skipped" ]
    OBVIOUS
  <2>1. N!saveDelivery(id, row)
    BY <1>o, <1>i, <1>4, <2>r DEF N!dispatchPreparedDelivery
  <2>2. row \in N!Row /\ row.attempts = o.row.attempts /\ row.status = "skipped"
    BY <1>1, <2>r, RowSet DEF N!Statuses
  <2> QED BY <1>0, <1>1, <1>2, <1>4, <1>o, <2>1, <2>2, SaveStep
<1> QED BY <1>3, <1>4

(* A retry that still pushes goes to the supplier it is addressed to.      *)
LEMMA ReissueStep ==
  ASSUME N!IndInv, NEW a \in Operators, N!Reissue(a)
  PROVE  N!IndInv'
<1>o. PICK o : o = x6[a]
  OBVIOUS
<1>i. PICK id : id = o.id
  OBVIOUS
<1>t. PICK type : type = N!resolveRetryTransport(id, o.type)
  OBVIOUS
<1>0. /\ N!NotifyTypes /\ a \in N!Actors /\ a # "indexer" /\ N!ActorInv(a)
      /\ o.kind \in { "retry", "reopen" } /\ o.at = "read" /\ UNCHANGED << x2, x3, x4, x5, x7, x8 >>
  BY <1>o, ParticipantsConstants DEF N!IndInv, N!Actors, N!Reissue
<1>1. /\ o \in N!Work /\ id \in N!Ids /\ N!Works(a, id) /\ o.row \in N!Row /\ o.row.attempts \in Nat
      /\ o.kind = "reopen" => id \in x9.reopened
  BY <1>0, <1>o, <1>i, WorkKinds, WorkShape, RowShape DEF N!ActorInv, N!Works
<1>2. ASSUME N!Fresh(id), x1[id] = o.row
      PROVE  /\ x9.autoSends[id] <= N!Capped(o.row.attempts) + N!Spare
             /\ x8.crashes = 0 /\ id \notin x9.reopened => x9.receipts[id] = 0
  <2>1. N!Recorded(id) = o.row.attempts
    BY <1>1, <1>2, RowShape DEF N!Recorded, N!Stored
  <2>2. /\ x9.autoSends[id] <= N!Capped(N!Recorded(id)) + N!Spare
        /\ x8.crashes = 0 /\ id \notin x9.reopened => (o.kind = "retry" => x9.receipts[id] = 0)
    BY <1>0, <1>1, <1>2, <1>o, Readings
  <2> QED BY <1>0, <1>1, <2>1, <2>2
<1>3. CASE N!Pushes(type)
  <2>r. PICK row : row = [ o.row EXCEPT !.status = "pending" ]
    OBVIOUS
  <2>n. PICK new : new = [ o EXCEPT !.row = row, !.at = "send", !.to = N!RetryRecipient(id) ]
    OBVIOUS
  <2>1. N!saveDelivery(id, row) /\ x6' = [ x6 EXCEPT ![a] = new ]
    BY <1>o, <1>i, <1>t, <1>3, <2>r, <2>n DEF N!Reissue
  <2>2. row \in N!Row /\ row.attempts = o.row.attempts /\ row.status = "pending"
    BY <1>1, <2>r, RowSet DEF N!Statuses
  <2>3. N!RetryRecipient(id) = id[2] /\ id[2] \in N!Subjects
    BY <1>t, <1>1, <1>3 DEF N!Pushes, N!resolveRetryTransport, N!RetryRecipient, N!Ids
  <2>4. /\ new \in N!Work /\ new.id = id /\ new.row = row /\ new.at = "send" /\ new.to = id[2]
        /\ new.kind = o.kind /\ new.void = o.void
    BY <1>1, <1>i, <2>n, <2>2, <2>3 DEF N!Work
  <2>5. new # N!Idle /\ row.status # "invalidated" /\ new.kind \notin { "skip", "bury" }
    BY <1>0, <2>2, <2>4, OperationKinds
  <2> QED BY <1>0, <1>1, <1>2, <1>o, <2>1, <2>2, <2>4, <2>5, SaveStep
<1>4. CASE ~N!Pushes(type)
  <2>r. PICK row : row = [ o.row EXCEPT !.status = "skipped" ]
    OBVIOUS
  <2>1. N!saveDelivery(id, row) /\ x6' = [ x6 EXCEPT ![a] = N!Idle ]
    BY <1>o, <1>i, <1>t, <1>4, <2>r DEF N!Reissue, N!End
  <2>2. row \in N!Row /\ row.attempts = o.row.attempts /\ row.status = "skipped"
    BY <1>1, <2>r, RowSet DEF N!Statuses
  <2> QED BY <1>0, <1>1, <1>2, <1>o, <2>1, <2>2, SaveStep
<1> QED BY <1>3, <1>4

LEMMA BuryStep ==
  ASSUME N!IndInv, NEW a \in Operators, N!Bury(a)
  PROVE  N!IndInv'
<1>o. PICK o : o = x6[a]
  OBVIOUS
<1>i. PICK id : id = o.id
  OBVIOUS
<1>r. PICK row : row = [ o.row EXCEPT !.status = "dead_letter" ]
  OBVIOUS
<1>0. /\ N!NotifyTypes /\ a \in N!Actors /\ a # "indexer" /\ N!ActorInv(a) /\ o.kind = "bury"
      /\ UNCHANGED << x2, x3, x4, x5, x7, x8 >>
      /\ N!saveDelivery(id, row) /\ x6' = [ x6 EXCEPT ![a] = N!Idle ]
  BY <1>o, <1>i, <1>r, ParticipantsConstants DEF N!IndInv, N!Actors, N!Bury, N!End
<1>1. /\ o \in N!Work /\ id \in N!Ids /\ N!Works(a, id) /\ o.at = "read" /\ o.row \in N!Row
      /\ o.row.attempts \in Nat
  BY <1>0, <1>o, <1>i, WorkKinds, WorkShape, RowShape DEF N!ActorInv, N!Works
<1>2. row \in N!Row /\ row.attempts = o.row.attempts /\ row.status = "dead_letter"
  BY <1>1, <1>r, RowSet DEF N!Statuses
<1>3. ASSUME N!Fresh(id), x1[id] = o.row
      PROVE  /\ x9.autoSends[id] <= N!Capped(row.attempts) + N!Spare
             /\ x8.crashes = 0 /\ id \notin x9.reopened => x9.receipts[id] \in {0, 1}
  <2>1. N!Recorded(id) = o.row.attempts
    BY <1>1, <1>3, RowShape DEF N!Recorded, N!Stored
  <2> QED BY <1>0, <1>1, <1>2, <1>3, <1>o, <2>1, Readings
<1> QED BY <1>0, <1>1, <1>2, <1>3, <1>o, SaveStep

(* A request goes out for a row that is pending, on behalf of one actor.   *)
LEMMA SendStep ==
  ASSUME N!IndInv, NEW a \in N!Actors, N!Send(a)
  PROVE  N!IndInv'
<1>o. PICK o : o = x6[a]
  OBVIOUS
<1>i. PICK id : id = o.id
  OBVIOUS
<1>0. /\ N!NotifyTypes /\ "indexer" \in N!Actors /\ N!ActorInv(a) /\ o.kind \in { "dispatch", "retry", "reopen" }
      /\ o.at = "send" /\ UNCHANGED << x1, x2, x3, x4, x5, x7, x8 >>
  BY <1>o DEF N!IndInv, N!Actors, N!Send
<1>k. PICK ok \in BOOLEAN :
        /\ x6' = [ x6 EXCEPT ![a] = [ @ EXCEPT !.at = IF ok THEN "accepted" ELSE "refused" ] ]
        /\ x9' = [ x9 EXCEPT !.receipts[id] = IF ok THEN @ + 1 ELSE @,
                             !.autoSends[id] = IF a = "indexer" THEN @ + 1 ELSE @,
                             !.delivered = @ \cup { << id, o.to >> },
                             !.ghosts = IF o.void THEN @ \cup {id} ELSE @ ]
  BY <1>o, <1>i DEF N!Send
<1>1. /\ o \in N!Work /\ id \in N!Ids /\ N!Works(a, id) /\ o.to = id[2] /\ ~o.void /\ id[2] \in N!Subjects
      /\ o.row \in N!Row /\ o.row.status = "pending" /\ o.row.attempts \in Nat
  BY <1>0, <1>o, <1>i, WorkKinds, WorkShape, RowShape DEF N!ActorInv, N!Works
<1>n. PICK new : new = [ o EXCEPT !.at = IF ok THEN "accepted" ELSE "refused" ]
  OBVIOUS
<1>2. /\ new \in N!Work /\ new.id = id /\ new.row = o.row /\ new.to = o.to /\ new.kind = o.kind /\ new.void = o.void
      /\ new.at = IF ok THEN "accepted" ELSE "refused"
  BY <1>1, <1>i, <1>n DEF N!Work
<1>3. /\ x6' \in [ N!Actors -> {N!Idle} \cup N!Work \cup N!Sweep ] /\ x6'[a] = new
      /\ \A b \in N!Actors : b # a => x6'[b] = x6[b]
  <2>1. x6' = [ x6 EXCEPT ![a] = new ]
    BY <1>o, <1>k, <1>n
  <2> QED BY <1>0, <1>2, <2>1, ActorSet
<1>4. /\ x9' \in N!Histories /\ x9'.raced = x9.raced /\ x9'.revived = x9.revived /\ x9'.reopened = x9.reopened
      /\ x9'.acknowledged = x9.acknowledged /\ x9'.takenUp = x9.takenUp
      /\ x9'.delivered = x9.delivered \cup { << id, id[2] >> } /\ x9'.ghosts = x9.ghosts
      /\ x9'.receipts[id] = IF ok THEN x9.receipts[id] + 1 ELSE x9.receipts[id]
      /\ x9'.autoSends[id] = IF a = "indexer" THEN x9.autoSends[id] + 1 ELSE x9.autoSends[id]
      /\ \A j \in N!Ids : j # id => x9'.receipts[j] = x9.receipts[j] /\ x9'.autoSends[j] = x9.autoSends[j]
  <2>h. PICK receipts, autoSends :
           /\ receipts = [ x9.receipts EXCEPT ![id] = IF ok THEN @ + 1 ELSE @ ]
           /\ autoSends = [ x9.autoSends EXCEPT ![id] = IF a = "indexer" THEN @ + 1 ELSE @ ]
    OBVIOUS
  <2>1. x9 \in N!Histories /\ x9.receipts \in [ N!Ids -> Nat ] /\ x9.autoSends \in [ N!Ids -> Nat ]
    BY <1>0 DEF N!NotifyTypes, N!Histories
  <2>2. x9' = [ x9 EXCEPT !.receipts = receipts, !.autoSends = autoSends, !.delivered = @ \cup { << id, id[2] >> } ]
    BY <1>1, <1>k, <2>h, <2>1 DEF N!Histories
  <2>3. /\ receipts \in [ N!Ids -> Nat ] /\ autoSends \in [ N!Ids -> Nat ]
        /\ receipts[id] = IF ok THEN x9.receipts[id] + 1 ELSE x9.receipts[id]
        /\ autoSends[id] = IF a = "indexer" THEN x9.autoSends[id] + 1 ELSE x9.autoSends[id]
        /\ \A j \in N!Ids : j # id => receipts[j] = x9.receipts[j] /\ autoSends[j] = x9.autoSends[j]
    BY <1>1, <2>h, <2>1
  <2>4. x9.delivered \cup { << id, id[2] >> } \in SUBSET (N!Ids \X N!Subjects)
    BY <1>1, <2>1 DEF N!Histories
  <2> QED BY <2>1, <2>2, <2>3, <2>4 DEF N!Histories
<1>5. N!Works(a, id)'
  BY <1>2, <1>3 DEF N!Works
<1>6. /\ \A j \in N!Ids : j # id => N!DeliveryInv(j)'
      /\ \A b \in N!Actors : b # a => N!ActorInv(b)'
  <2>1. HistoryOf(id) /\ \A j \in N!Ids : N!Stored(j) => N!Stored(j)'
    BY <1>0, <1>4 DEF HistoryOf, N!Stored
  <2> QED BY <1>0, <1>1, <1>3, <1>5, <2>1, Elsewhere
<1>7. N!ActorInv(a)'
  <2>1. N!Stored(id)' <=> N!Stored(id)
    BY <1>0 DEF N!Stored
  <2> QED BY <1>0, <1>1, <1>2, <1>3, <1>4, <1>o, <1>i, <2>1, OperationKinds DEF N!ActorInv
<1>8. N!DeliveryInv(id)'
  <2>0. /\ N!Fresh(id)' <=> N!Fresh(id)
        /\ N!AloneInv(id)
    BY <1>1, <1>4 DEF N!Fresh, N!IndInv, N!DeliveryInv
  <2>1. \A b \in N!Actors : N!Works(b, id)' <=> N!Works(b, id)
    BY <1>1, <1>3, <1>5 DEF N!Works
  <2>2. N!AloneInv(id)'
    BY <1>4, <2>0, <2>1 DEF N!AloneInv
  <2>3. N!CopyInv(id)'
    <3>1. N!CopyInv(id)
      BY <1>1 DEF N!IndInv, N!DeliveryInv
    <3> QED BY <1>0, <1>2, <1>3, <1>o, <2>0, <2>1, <3>1 DEF N!CopyInv, N!Stored
  <2>4. ASSUME N!Fresh(id) PROVE N!DeliveryInv(id) /\ \A b \in N!Actors : N!Works(b, id) => b = a
    BY <1>1, <2>4, AtWork
  <2>5. N!BudgetInv(id)'
    <3> SUFFICES ASSUME N!Fresh(id) PROVE N!BudgetInv(id)'
      BY <2>0 DEF N!BudgetInv
    <3>1. /\ N!Recorded(id)' = N!Recorded(id) /\ N!Spare' = N!Spare /\ (N!Stored(id)' <=> N!Stored(id))
          /\ ~N!Reading(id)' /\ ~N!Answering(id)
      BY <1>0, <1>2, <1>3, <1>5, <1>o, <2>4 DEF N!Recorded, N!Spare, N!Stored, N!Reading, N!Answering
    <3>2. N!Capped(N!Recorded(id))' = N!Capped(N!Recorded(id))
      BY <3>1 DEF N!Capped
    <3>3. CASE a = "indexer"
      <4>1. N!Answering(id)' /\ ~N!Swept(id)'
        BY <1>2, <1>3, <1>5, <3>3, OperationKinds DEF N!Answering, N!Swept
      <4>2. x9.autoSends[id] + 1 <= N!Capped(o.row.attempts + 1) + N!Spare
        BY <1>0, <1>1, <1>o, <2>4, <3>3 DEF N!DeliveryInv, N!BudgetInv
      <4>3. N!Capped(x6["indexer"].row.attempts + 1)' = N!Capped(o.row.attempts + 1)
        BY <1>2, <1>3, <3>3 DEF N!Capped
      <4>4. ~(N!Works("indexer", id)' /\ x6'["indexer"].at = "send")
        BY <1>2, <1>3, <3>3
      <4> QED BY <1>0, <1>4, <3>1, <3>3, <4>1, <4>2, <4>3, <4>4 DEF N!BudgetInv
    <3>4. CASE a # "indexer"
      <4>1. ~N!Works("indexer", id)' /\ ~N!Answering(id)'
        BY <1>0, <2>1, <2>4, <3>4 DEF N!Answering
      <4>2. N!Swept(id)' => N!Swept(id) /\ x6'["indexer"] = x6["indexer"]
        BY <1>0, <1>3, <3>4 DEF N!Swept
      <4>3. N!Swept(id)' => N!Capped(x6["indexer"].listing[id].attempts)' = N!Capped(x6["indexer"].listing[id].attempts)
        BY <4>2 DEF N!Capped
      <4> QED BY <1>0, <1>4, <2>4, <3>1, <3>2, <3>4, <4>1, <4>2, <4>3 DEF N!DeliveryInv, N!BudgetInv
    <3> QED BY <3>3, <3>4
  <2>6. N!ReceiptInv(id)'
    <3> SUFFICES ASSUME x8.crashes = 0, N!Fresh(id), id \notin x9.reopened PROVE N!ReceiptInv(id)'
      BY <1>0, <1>4, <2>0 DEF N!ReceiptInv
    <3>1. x9.receipts[id] = 0
      <4>1. CASE o.kind = "retry"
        BY <1>0, <1>1, <1>o, <2>4, <4>1 DEF N!DeliveryInv, N!ReceiptInv
      <4>2. CASE o.kind = "dispatch"
        <5>1. a = "indexer"
          BY <1>0, <1>1, <1>o, <4>2 DEF N!ActorInv
        <5>2. x1[id].status = "pending"
          BY <1>1, <1>o, <5>1, AtWork
        <5> QED BY <1>0, <1>o, <2>4, <5>2 DEF N!DeliveryInv, N!ReceiptInv
      <4>3. o.kind # "reopen"
        BY <1>0, <1>1, <1>o, <1>i DEF N!ActorInv
      <4> QED BY <1>0, <4>1, <4>2, <4>3
    <3>2. /\ ok => x9'.receipts[id] = 1 /\ x6'[a].at = "accepted"
          /\ ~ok => x9'.receipts[id] = 0
      BY <1>2, <1>3, <1>4, <3>1
    <3>3. \A b \in N!Actors : N!Works(b, id)' => b = a
      BY <2>1, <2>4
    <3> QED BY <1>2, <1>3, <1>5, <3>2, <3>3 DEF N!ReceiptInv
  <2> QED BY <2>2, <2>3, <2>5, <2>6 DEF N!DeliveryInv
<1>9. N!NotifyTypes'
  BY <1>0, <1>3, <1>4 DEF N!NotifyTypes
<1>10. N!SweepInv' /\ N!EventInv'
  <2>1. CASE a = "indexer"
    <3>1. x6["indexer"] # N!Idle /\ ~x4 /\ \A j \in N!Ids : ~N!Swept(j)
      BY <1>0, <1>1, <1>o, <2>1, OperationKinds DEF N!IndInv, N!SweepInv, N!Swept
    <3>2. N!SweepInv'
      BY <1>0, <3>1 DEF N!IndInv, N!SweepInv, N!Stored
    <3>3. N!EventInv'
      BY <1>0, <1>1, <1>2, <1>3, <1>4, <1>o, <1>i, <2>1 DEF N!IndInv, N!EventInv, N!Stored
    <3> QED BY <3>2, <3>3
  <2>2. CASE a # "indexer"
    <3>1. x6'["indexer"] = x6["indexer"]
      BY <1>0, <1>3, <2>2
    <3> QED BY <1>0, <1>4, <3>1 DEF N!IndInv, N!SweepInv, N!EventInv, N!Stored, N!Swept
  <2> QED BY <2>1, <2>2
<1>11. N!NoticeInv' /\ N!NoWrongRecipient' /\ N!NoGhostDelivery'
  BY <1>0, <1>4 DEF N!IndInv, N!NoticeInv, N!NoWrongRecipient, N!NoGhostDelivery
<1> QED BY <1>6, <1>7, <1>8, <1>9, <1>10, <1>11 DEF N!IndInv

(* Steps that leave rows, work in flight and attempts alone.               *)
LEMMA UntouchedStep ==
  ASSUME N!IndInv, x1' = x1, x6' = x6, x3' = x3, SameHistory, x9'.revived = x9.revived,
         x8'.crashes = x8.crashes, x8'.manual = x8.manual
  PROVE  /\ \A id \in N!Ids : N!DeliveryInv(id)'
         /\ \A a \in N!Actors : N!ActorInv(a)'
<1>1. ASSUME NEW id \in N!Ids PROVE N!DeliveryInv(id)'
  <2>1. N!Fresh(id)' <=> N!Fresh(id)
    BY DEF N!Fresh, SameHistory
  <2>2. N!Swept(id)' <=> N!Swept(id)
    BY DEF N!Swept
  <2> QED BY <2>1, <2>2, OtherDelivery DEF N!IndInv, SameHistory
<1>2. ASSUME NEW a \in N!Actors PROVE N!ActorInv(a)'
  BY OtherActor DEF N!IndInv, SameHistory, N!Stored
<1> QED BY <1>1, <1>2

LEMMA ReadNoticeStep ==
  ASSUME N!IndInv, NEW s \in Suppliers, NEW id \in N!Ids, N!markParticipantNotificationRead(s, id)
  PROVE  N!IndInv'
<1>n. PICK notice : notice = N!participantNotificationId(id, x1[id].status)
  OBVIOUS
<1>0. /\ N!NotifyTypes /\ UNCHANGED << x1, x2, x3, x4, x5, x6, x8 >> /\ x7' = x7 \cup {notice}
      /\ x9' = IF x1[id].status = "invalidated" THEN [ x9 EXCEPT !.acknowledged = @ \cup {id} ] ELSE x9
      /\ x1[id].status \in { "failed", "invalidated" }
  BY <1>n DEF N!IndInv, N!markParticipantNotificationRead
<1>1. /\ x9' \in N!Histories /\ x9'.revived = x9.revived
      /\ x9'.autoSends = x9.autoSends /\ x9'.receipts = x9.receipts /\ x9'.delivered = x9.delivered
      /\ x9'.ghosts = x9.ghosts /\ x9'.raced = x9.raced /\ x9'.reopened = x9.reopened /\ x9'.takenUp = x9.takenUp
      /\ x9.acknowledged \subseteq x9'.acknowledged
      /\ x1[id].status = "invalidated" => id \in x9'.acknowledged
  BY <1>0 DEF N!NotifyTypes, N!Histories
<1>2. N!NotifyTypes'
  BY <1>0, <1>1 DEF N!NotifyTypes
<1>3. /\ \A j \in N!Ids : N!DeliveryInv(j)'
      /\ \A a \in N!Actors : N!ActorInv(a)'
  <2>1. ASSUME NEW j \in N!Ids PROVE N!DeliveryInv(j)'
    <3>1. N!Fresh(j)' <=> N!Fresh(j)
      BY <1>1 DEF N!Fresh
    <3>2. N!Swept(j)' <=> N!Swept(j)
      BY <1>0 DEF N!Swept
    <3> QED BY <1>0, <1>1, <3>1, <3>2, OtherDelivery DEF N!IndInv
  <2>2. ASSUME NEW a \in N!Actors PROVE N!ActorInv(a)'
    BY <1>0, <1>1, OtherActor DEF N!IndInv, N!Stored
  <2> QED BY <2>1, <2>2
<1>4. N!NoticeInv'
  <2> SUFFICES ASSUME NEW j \in N!Ids, << j, "notification_invalidated" >> \in x7' PROVE j \in x9'.acknowledged
    BY DEF N!NoticeInv
  <2>1. CASE << j, "notification_invalidated" >> \in x7
    <3>1. \A i \in N!Ids : << i, "notification_invalidated" >> \in x7 => i \in x9.acknowledged
      BY DEF N!IndInv, N!NoticeInv
    <3>2. j \in x9.acknowledged
      BY <2>1, <3>1
    <3> QED BY <1>1, <3>2
  <2>2. CASE << j, "notification_invalidated" >> = notice
    BY <1>0, <1>1, <1>n, <2>2 DEF N!participantNotificationId, N!NoticeKind
  <2> QED BY <1>0, <2>1, <2>2
<1>5. N!SweepInv' /\ N!EventInv' /\ N!NoWrongRecipient' /\ N!NoGhostDelivery'
  BY <1>0, <1>1 DEF N!IndInv, N!SweepInv, N!EventInv, N!Stored, N!Swept, N!NoWrongRecipient, N!NoGhostDelivery
<1> QED BY <1>2, <1>3, <1>4, <1>5 DEF N!IndInv

LEMMA EditStep ==
  ASSUME N!IndInv, N!EditDirectory
  PROVE  N!IndInv'
<1>0. /\ N!NotifyTypes /\ UNCHANGED << x1, x3, x4, x5, x6, x7, x9 >>
      /\ x8' \in N!Budgets /\ x8'.crashes = x8.crashes /\ x8'.manual = x8.manual
  BY Spending DEF N!IndInv, N!EditDirectory, N!NotifyTypes
<1>1. x2' \in [ Suppliers -> { Nil } \cup [ serves : BOOLEAN, profile : Profiles ] ]
  BY <1>0 DEF N!EditDirectory, N!NotifyTypes
<1>2. /\ \A id \in N!Ids : N!DeliveryInv(id)'
      /\ \A a \in N!Actors : N!ActorInv(a)'
  BY <1>0, UntouchedStep DEF SameHistory
<1>3. N!NotifyTypes'
  BY <1>0, <1>1 DEF N!NotifyTypes
<1>4. N!SweepInv' /\ N!NoticeInv' /\ N!EventInv' /\ N!NoWrongRecipient' /\ N!NoGhostDelivery'
  BY <1>0 DEF N!IndInv, N!SweepInv, N!EventInv, N!Stored, N!Swept, N!NoticeInv, N!NoWrongRecipient, N!NoGhostDelivery
<1> QED BY <1>2, <1>3, <1>4 DEF N!IndInv

LEMMA ReorgStep ==
  ASSUME N!IndInv, N!Reorg
  PROVE  N!IndInv'
<1>0. /\ N!NotifyTypes /\ UNCHANGED << x1, x2, x5, x6, x7, x9 >> /\ x6["indexer"] = N!Idle /\ x4' = TRUE
      /\ x8' \in N!Budgets /\ x8'.crashes = x8.crashes /\ x8'.manual = x8.manual /\ "indexer" \in N!Actors
      /\ x3' \subseteq x3
  BY Spending DEF N!IndInv, N!Reorg, N!NotifyTypes, N!Actors
<1>1. ASSUME NEW id \in N!Ids PROVE N!DeliveryInv(id)'
  <2>1. N!Fresh(id)' <=> N!Fresh(id)
    BY <1>0 DEF N!Fresh
  <2>2. N!Swept(id)' <=> N!Swept(id)
    BY <1>0 DEF N!Swept
  <2> QED BY <1>0, <2>1, <2>2, OtherDelivery DEF N!IndInv
<1>2. ASSUME NEW a \in N!Actors PROVE N!ActorInv(a)'
  <2>1. CASE a = "indexer"
    BY <1>0, <2>1, OperationKinds DEF N!ActorInv
  <2>2. CASE a # "indexer"
    <3>1. N!ActorInv(a) /\ x6[a] \notin N!Sweep
      BY <2>2 DEF N!IndInv, N!ActorInv
    <3>2. \A id : N!Stored(id)' <=> N!Stored(id)
      BY <1>0 DEF N!Stored
    <3> QED BY <1>0, <2>2, <3>1, <3>2 DEF N!ActorInv, N!Stored
  <2> QED BY <2>1, <2>2
<1>3. N!NotifyTypes'
  BY <1>0 DEF N!NotifyTypes
<1>4. N!SweepInv' /\ N!NoticeInv' /\ N!EventInv' /\ N!NoWrongRecipient' /\ N!NoGhostDelivery'
  BY <1>0 DEF N!IndInv, N!SweepInv, N!EventInv, N!Stored, N!Swept, N!NoticeInv, N!NoWrongRecipient, N!NoGhostDelivery
<1> QED BY <1>1, <1>2, <1>3, <1>4 DEF N!IndInv

(* The sweep lists what it has to invalidate.                              *)
LEMMA ListStep ==
  ASSUME N!IndInv, N!invalidateDeliveriesAboveBlock
  PROVE  N!IndInv'
<1>o. PICK o : o = [ kind |-> "invalidate", listing |-> x1, left |-> N!Invalidated(x1) ]
  OBVIOUS
<1>0. /\ N!NotifyTypes /\ UNCHANGED << x1, x2, x3, x5, x7, x8, x9 >> /\ x6["indexer"] = N!Idle /\ x4' = FALSE
      /\ x6' = [ x6 EXCEPT !["indexer"] = o ] /\ "indexer" \in N!Actors
  BY <1>o DEF N!IndInv, N!invalidateDeliveriesAboveBlock, N!Actors
<1>1. o \in N!Sweep /\ o.listing = x1 /\ o.left = N!Invalidated(x1)
  BY <1>0, <1>o DEF N!Sweep, N!NotifyTypes, N!Invalidated
<1>2. /\ x6' \in [ N!Actors -> {N!Idle} \cup N!Work \cup N!Sweep ] /\ x6'["indexer"] = o
      /\ \A b \in N!Actors : b # "indexer" => x6'[b] = x6[b]
  BY <1>0, <1>1, ActorSet
<1>3. ASSUME NEW id \in N!Ids PROVE N!DeliveryInv(id)'
  <2>1. \A b \in N!Actors : N!Works(b, id)' <=> N!Works(b, id)
    BY <1>0, <1>1, <1>2, OperationKinds DEF N!Works
  <2>2. /\ (N!Fresh(id)' <=> N!Fresh(id)) /\ (N!Stored(id)' <=> N!Stored(id)) /\ N!Recorded(id)' = N!Recorded(id)
        /\ N!Spare' = N!Spare
    BY <1>0 DEF N!Fresh, N!Stored, N!Recorded, N!Spare
  <2>3. \A b \in N!Actors : N!Works(b, id)' => b # "indexer" /\ x6'[b] = x6[b]
    BY <1>0, <1>2, <2>1, OperationKinds DEF N!Works
  <2>4. N!DeliveryInv(id)
    BY DEF N!IndInv
  <2>5. N!AloneInv(id)'
    BY <1>0, <2>1, <2>4 DEF N!DeliveryInv, N!AloneInv
  <2>6. N!CopyInv(id)'
    BY <1>0, <2>1, <2>2, <2>3, <2>4 DEF N!DeliveryInv, N!CopyInv
  <2>7. N!ReceiptInv(id)'
    BY <1>0, <2>1, <2>2, <2>3, <2>4 DEF N!DeliveryInv, N!ReceiptInv
  <2>8. N!BudgetInv(id)'
    <3> SUFFICES ASSUME N!Fresh(id) PROVE N!BudgetInv(id)'
      BY <2>2 DEF N!BudgetInv
    <3>1. ~N!Answering(id)' /\ ~N!Answering(id) /\ ~N!Works("indexer", id)' /\ (N!Reading(id)' => N!Reading(id))
      BY <1>0, <2>1, <2>3 DEF N!Answering, N!Reading
    <3>2. N!Capped(N!Recorded(id))' = N!Capped(N!Recorded(id))
      BY <2>2 DEF N!Capped
    <3>3. x9.autoSends[id] <= N!Capped(N!Recorded(id)) + N!Spare
      BY <2>4, <3>1 DEF N!DeliveryInv, N!BudgetInv
    <3>4. N!Swept(id)' => N!Stored(id) /\ x6'["indexer"].listing[id] = x1[id]
      BY <1>1, <1>2 DEF N!Swept, N!Invalidated, N!Stored
    <3>5. N!Swept(id)' => N!Capped(x6["indexer"].listing[id].attempts)' = N!Capped(N!Recorded(id))
      BY <3>4 DEF N!Capped, N!Recorded
    <3> QED BY <1>0, <2>2, <2>4, <3>1, <3>2, <3>3, <3>5 DEF N!DeliveryInv, N!BudgetInv
  <2> QED BY <2>5, <2>6, <2>7, <2>8 DEF N!DeliveryInv
<1>4. ASSUME NEW a \in N!Actors PROVE N!ActorInv(a)'
  <2>1. CASE a = "indexer"
    <3>1. N!Invalidated(x1)' = N!Invalidated(x1)
      BY <1>0 DEF N!Invalidated
    <3>2. N!Invalidated(x6["indexer"].listing)' = N!Invalidated(x1)
      BY <1>0, <1>1, <1>2 DEF N!Invalidated
    <3> QED BY <1>1, <1>2, <2>1, <3>2, OperationKinds DEF N!ActorInv
  <2>2. CASE a # "indexer"
    BY <1>0, <1>2, <2>2, OtherActor DEF N!IndInv, N!Stored
  <2> QED BY <2>1, <2>2
<1>5. N!NotifyTypes'
  BY <1>0, <1>2 DEF N!NotifyTypes
<1>6. N!SweepInv'
  BY <1>0, <1>1, <1>2 DEF N!SweepInv, N!Stored, N!Swept, N!Invalidated
<1>7. N!EventInv'
  BY <1>0, OperationKinds DEF N!IndInv, N!EventInv, N!Stored
<1>8. N!NoticeInv' /\ N!NoWrongRecipient' /\ N!NoGhostDelivery'
  BY <1>0 DEF N!IndInv, N!NoticeInv, N!NoWrongRecipient, N!NoGhostDelivery
<1> QED BY <1>3, <1>4, <1>5, <1>6, <1>7, <1>8 DEF N!IndInv

(* It writes the listed rows back, marked; or is done.                     *)
LEMMA InvalidateStep ==
  ASSUME N!IndInv, N!InvalidateOne
  PROVE  N!IndInv'
<1>o. PICK o : o = x6["indexer"]
  OBVIOUS
<1>0. /\ N!NotifyTypes /\ N!ActorInv("indexer") /\ "indexer" \in N!Actors /\ o.kind = "invalidate"
      /\ UNCHANGED << x2, x3, x4, x5, x7, x8 >>
  BY <1>o DEF N!IndInv, N!InvalidateOne, N!Actors
<1>1. /\ o \in N!Sweep /\ o.listing \in [ N!Ids -> N!Row \cup {Nil} ] /\ o.left \subseteq N!Ids
      /\ o.left \subseteq N!Invalidated(o.listing) /\ o # N!Idle /\ o \notin N!Work
  <2>1. o \in {N!Idle} \cup N!Work \cup N!Sweep
    BY <1>0, <1>o DEF N!NotifyTypes
  <2>2. o \in N!Sweep /\ o # N!Idle /\ o \notin N!Work
    BY <1>0, <2>1, OperationKinds
  <2> QED BY <1>0, <1>o, <2>2 DEF N!ActorInv, N!Sweep
<1>2. CASE o.left = {}
  <2>1. /\ x6' \in [ N!Actors -> {N!Idle} \cup N!Work \cup N!Sweep ] /\ x6'["indexer"] = N!Idle
        /\ \A b \in N!Actors : b # "indexer" => x6'[b] = x6[b]
        /\ x1' = x1 /\ x9' = x9
    <3>1. x6' = [ x6 EXCEPT !["indexer"] = N!Idle ] /\ x1' = x1 /\ x9' = x9
      BY <1>o, <1>2 DEF N!InvalidateOne, N!End
    <3> QED BY <1>0, <3>1, ActorSet
  <2>2. ASSUME NEW id \in N!Ids PROVE N!DeliveryInv(id)'
    <3>1. \A b \in N!Actors : x6'[b] = x6[b] \/ (~N!Works(b, id) /\ ~N!Works(b, id)')
      BY <1>1, <1>o, <2>1, OperationKinds DEF N!Works
    <3>2. ~N!Swept(id)' /\ (N!Fresh(id)' <=> N!Fresh(id))
      BY <2>1, OperationKinds DEF N!Swept, N!Fresh
    <3> QED BY <1>0, <2>1, <3>1, <3>2, OtherDelivery DEF N!IndInv
  <2>3. ASSUME NEW a \in N!Actors PROVE N!ActorInv(a)'
    <3>1. CASE a = "indexer"
      BY <2>1, <3>1, OperationKinds DEF N!ActorInv
    <3>2. CASE a # "indexer"
      BY <1>0, <2>1, <3>2, OtherActor DEF N!IndInv, N!Stored
    <3> QED BY <3>1, <3>2
  <2>4. N!NotifyTypes'
    BY <1>0, <2>1 DEF N!NotifyTypes
  <2>5. N!SweepInv'
    <3>1. \A id \in N!Ids : ~N!Swept(id)
      BY <1>2, <1>o DEF N!Swept
    <3> QED BY <1>0, <2>1, <3>1 DEF N!IndInv, N!SweepInv, N!Stored
  <2>6. N!EventInv'
    BY <1>0, <1>1, <1>o, <2>1 DEF N!IndInv, N!EventInv, N!Stored
  <2>7. N!NoticeInv' /\ N!NoWrongRecipient' /\ N!NoGhostDelivery'
    BY <1>0, <2>1 DEF N!IndInv, N!NoticeInv, N!NoWrongRecipient, N!NoGhostDelivery
  <2> QED BY <2>2, <2>3, <2>4, <2>5, <2>6, <2>7 DEF N!IndInv
<1>3. CASE o.left # {}
  <2>1. PICK id \in o.left :
          /\ N!saveDelivery(id, [ o.listing[id] EXCEPT !.status = "invalidated" ])
          /\ x6' = [ x6 EXCEPT !["indexer"] = [ o EXCEPT !.left = o.left \ {id} ] ]
    BY <1>o, <1>3 DEF N!InvalidateOne
  <2>r. PICK row : row = [ o.listing[id] EXCEPT !.status = "invalidated" ]
    OBVIOUS
  <2>n. PICK new : new = [ o EXCEPT !.left = o.left \ {id} ]
    OBVIOUS
  <2>2. id \in N!Ids /\ o.listing[id] \in N!Row /\ o.listing[id].attempts \in Nat
    BY <1>1, RowShape DEF N!Invalidated
  <2>3. row \in N!Row /\ row.status = "invalidated" /\ row.attempts = o.listing[id].attempts
    BY <2>2, <2>r, RowSet DEF N!Statuses
  <2>4. new \in N!Sweep /\ new.listing = o.listing /\ new.left = o.left \ {id}
    BY <1>1, <2>n DEF N!Sweep
  <2>5. /\ x6' \in [ N!Actors -> {N!Idle} \cup N!Work \cup N!Sweep ] /\ x6'["indexer"] = new
        /\ \A b \in N!Actors : b # "indexer" => x6'[b] = x6[b]
    <3>1. x6' = [ x6 EXCEPT !["indexer"] = new ]
      BY <1>o, <2>1, <2>n
    <3> QED BY <1>0, <2>4, <3>1, ActorSet
  <2>6. /\ x1' \in [ N!Ids -> N!Row \cup {Nil} ] /\ x1'[id] = row
        /\ \A j \in N!Ids : j # id => x1'[j] = x1[j]
        /\ \A j \in N!Ids : N!Stored(j) => N!Stored(j)'
        /\ N!Stored(id)' /\ x9' = x9
    BY <1>0, <2>1, <2>2, <2>3, <2>r, Saving
  <2>7. \A b \in N!Actors, j \in N!Ids : /\ N!Works(b, j)' <=> N!Works(b, j)
                                         /\ N!Works(b, j) => b # "indexer" /\ x6'[b] = x6[b]
    BY <1>1, <1>o, <2>4, <2>5, OperationKinds DEF N!Works
  <2>8. \A j \in N!Ids : (N!Fresh(j)' <=> N!Fresh(j)) /\ N!Spare' = N!Spare
    BY <1>0, <2>6 DEF N!Fresh, N!Spare
  <2>9. ASSUME NEW j \in N!Ids, j # id PROVE N!DeliveryInv(j)'
    <3>1. \A b \in N!Actors : x6'[b] = x6[b] \/ (~N!Works(b, j) /\ ~N!Works(b, j)')
      BY <2>7
    <3>2. N!Swept(j)' => N!Swept(j) /\ x6'["indexer"].listing[j] = x6["indexer"].listing[j]
      BY <1>1, <1>o, <2>4, <2>5 DEF N!Swept
    <3> QED BY <1>0, <2>6, <2>8, <2>9, <3>1, <3>2, OtherDelivery DEF N!IndInv
  <2>10. N!DeliveryInv(id)'
    <3>1. N!DeliveryInv(id) /\ N!Swept(id)
      BY <1>1, <1>o, <2>1, <2>2 DEF N!IndInv, N!Swept
    <3>2. N!AloneInv(id)'
      BY <2>2, <2>6, <2>7, <3>1 DEF N!DeliveryInv, N!AloneInv
    <3>3. N!CopyInv(id)'
      BY <2>2, <2>3, <2>6, <2>7 DEF N!CopyInv
    <3>4. N!ReceiptInv(id)'
      BY <1>0, <2>2, <2>3, <2>6, <2>7, <2>8, <3>1 DEF N!DeliveryInv, N!ReceiptInv
    <3>5. N!BudgetInv(id)'
      <4> SUFFICES ASSUME N!Fresh(id) PROVE N!BudgetInv(id)'
        BY <2>2, <2>8 DEF N!BudgetInv
      <4>1. ~N!Answering(id)' /\ ~N!Works("indexer", id)' /\ ~N!Swept(id)' /\ N!Recorded(id)' = row.attempts
        BY <1>0, <2>2, <2>4, <2>5, <2>6, <2>7 DEF N!Answering, N!Swept, N!Recorded
      <4>2. N!Capped(N!Recorded(id))' = N!Capped(o.listing[id].attempts)
        BY <2>3, <4>1 DEF N!Capped
      <4>3. x9.autoSends[id] <= N!Capped(o.listing[id].attempts) + N!Spare
        BY <1>o, <3>1 DEF N!DeliveryInv, N!BudgetInv
      <4> QED BY <2>2, <2>3, <2>6, <2>8, <4>1, <4>2, <4>3 DEF N!BudgetInv
    <3> QED BY <3>2, <3>3, <3>4, <3>5 DEF N!DeliveryInv
  <2>11. ASSUME NEW a \in N!Actors PROVE N!ActorInv(a)'
    <3>1. CASE a = "indexer"
      <4>1. N!Invalidated(x6["indexer"].listing)' = N!Invalidated(o.listing)
        BY <1>0, <2>4, <2>5 DEF N!Invalidated
      <4> QED BY <1>1, <2>4, <2>5, <3>1, <4>1, OperationKinds DEF N!ActorInv
    <3>2. CASE a # "indexer"
      BY <1>0, <2>5, <2>6, <3>2, OtherActor DEF N!IndInv
    <3> QED BY <3>1, <3>2
  <2>12. N!NotifyTypes'
    BY <1>0, <2>5, <2>6 DEF N!NotifyTypes
  <2>13. N!SweepInv'
    <3>1. \A j \in N!Ids : j # id /\ N!Swept(j) => N!Swept(j)'
      BY <1>1, <1>o, <2>4, <2>5 DEF N!Swept
    <3>2. ~x4
      BY <1>1, <1>o DEF N!IndInv, N!SweepInv
    <3> QED BY <1>0, <2>3, <2>6, <3>1, <3>2 DEF N!IndInv, N!SweepInv, N!Stored
  <2>14. N!EventInv'
    <3> SUFFICES ASSUME x8.crashes = 0, NEW e \in x9.takenUp PROVE \E s \in N!Subjects : N!Stored(<< e, s >>)'
      BY <1>0, <2>6 DEF N!EventInv
    <3>1. PICK s \in N!Subjects : N!Stored(<< e, s >>)
      BY <1>1, <1>o DEF N!IndInv, N!EventInv
    <3>2. << e, s >> \in N!Ids
      BY <1>0 DEF N!NotifyTypes, N!Histories, N!Ids
    <3> QED BY <2>6, <3>1, <3>2
  <2>15. N!NoticeInv' /\ N!NoWrongRecipient' /\ N!NoGhostDelivery'
    BY <1>0, <2>6 DEF N!IndInv, N!NoticeInv, N!NoWrongRecipient, N!NoGhostDelivery
  <2> QED BY <2>9, <2>10, <2>11, <2>12, <2>13, <2>14, <2>15 DEF N!IndInv
<1> QED BY <1>2, <1>3

(* A crash grants one more series of attempts.                             *)
LEMMA CrashStep ==
  ASSUME N!IndInv, N!Crash
  PROVE  N!IndInv'
<1>0. /\ N!NotifyTypes /\ UNCHANGED << x1, x2, x3, x4, x5, x7, x9 >> /\ x6' = [ a \in N!Actors |-> N!Idle ]
      /\ x8' \in N!Budgets /\ x8'.crashes = x8.crashes + 1 /\ x8.crashes \in Nat /\ "indexer" \in N!Actors
  BY Spending DEF N!IndInv, N!Crash, N!NotifyTypes, N!Actors, N!Budgets
<1>1. /\ \A a \in N!Actors : x6'[a] = N!Idle
      /\ x8'.crashes # 0
  BY <1>0
<1>2. ASSUME NEW id \in N!Ids PROVE N!DeliveryInv(id)'
  <2>1. \A a \in N!Actors : ~N!Works(a, id)'
    BY <1>1, OperationKinds DEF N!Works
  <2>2. N!AloneInv(id)' /\ N!CopyInv(id)' /\ N!ReceiptInv(id)'
    BY <1>0, <1>1, <2>1 DEF N!AloneInv, N!CopyInv, N!ReceiptInv
  <2>3. N!BudgetInv(id)'
    <3> SUFFICES ASSUME N!Fresh(id) PROVE N!BudgetInv(id)'
      BY <1>0 DEF N!BudgetInv, N!Fresh
    <3>1. ~N!Answering(id)' /\ ~N!Works("indexer", id)' /\ ~N!Swept(id)'
      BY <1>0, <1>1, <2>1, OperationKinds DEF N!Answering, N!Swept
    <3>2. N!Spare' = N!Spare + MaxAutomatic /\ MaxAutomatic \in Nat /\ N!Spare \in Nat
      <4>1. N!Spare \in Nat
        BY <1>0, Attempts
      <4>2. N!Spare' = MaxAutomatic * (x8.crashes + 1) /\ N!Spare = MaxAutomatic * x8.crashes
        BY <1>0 DEF N!Spare
      <4>3. MaxAutomatic \in Nat
        BY ParticipantsConstants
      <4>4. MaxAutomatic * (x8.crashes + 1) = MaxAutomatic * x8.crashes + MaxAutomatic
        BY <1>0, <4>3
      <4> QED BY <4>1, <4>2, <4>3, <4>4
    <3>3. x9.autoSends[id] <= MaxAutomatic + N!Spare
      <4>1. N!DeliveryInv(id) /\ x9.autoSends[id] \in Nat
        BY <1>0, Attempts DEF N!IndInv
      <4>2. CASE N!Answering(id)
        <5>1. x6["indexer"].row \in N!Row /\ x6["indexer"].row.attempts \in Nat
          BY <1>0, <4>2, WorkShape, RowShape DEF N!IndInv, N!ActorInv, N!Answering, N!Works
        <5>2. x9.autoSends[id] <= N!Capped(x6["indexer"].row.attempts + 1) + N!Spare
          BY <4>1, <4>2 DEF N!DeliveryInv, N!BudgetInv
        <5>3. N!Capped(x6["indexer"].row.attempts + 1) <= MaxAutomatic /\ N!Capped(x6["indexer"].row.attempts + 1) \in Nat
          BY <1>0, <5>1, Attempts
        <5> QED BY <3>2, <4>1, <5>2, <5>3
      <4>3. CASE ~N!Answering(id)
        <5>1. N!Recorded(id) \in Nat
          BY <1>0, RowShape DEF N!NotifyTypes, N!Recorded, N!Stored
        <5>2. x9.autoSends[id] <= N!Capped(N!Recorded(id)) + N!Spare
          BY <4>1, <4>3 DEF N!DeliveryInv, N!BudgetInv
        <5>3. N!Capped(N!Recorded(id)) <= MaxAutomatic /\ N!Capped(N!Recorded(id)) \in Nat
          BY <1>0, <5>1, Attempts
        <5> QED BY <3>2, <4>1, <5>2, <5>3
      <4> QED BY <4>2, <4>3
    <3>4. N!Capped(N!Recorded(id))' \in Nat
      <4>1. N!Recorded(id)' = N!Recorded(id) /\ N!Recorded(id) \in Nat
        BY <1>0, RowShape DEF N!NotifyTypes, N!Recorded, N!Stored
      <4> QED BY <3>2, <4>1 DEF N!Capped
    <3>5. x9.autoSends[id] \in Nat
      BY <1>0, Attempts
    <3> QED BY <1>0, <3>1, <3>2, <3>3, <3>4, <3>5 DEF N!BudgetInv
  <2> QED BY <2>2, <2>3 DEF N!DeliveryInv
<1>3. \A a \in N!Actors : N!ActorInv(a)'
  BY <1>1, OperationKinds DEF N!ActorInv
<1>4. N!NotifyTypes'
  BY <1>0 DEF N!NotifyTypes
<1>5. N!SweepInv' /\ N!NoticeInv' /\ N!EventInv' /\ N!NoWrongRecipient' /\ N!NoGhostDelivery'
  BY <1>0, <1>1 DEF N!IndInv, N!SweepInv, N!EventInv, N!NoticeInv, N!NoWrongRecipient, N!NoGhostDelivery
<1> QED BY <1>2, <1>3, <1>4, <1>5 DEF N!IndInv

LEMMA NotifyInit == N!Init => N!IndInv
<1> SUFFICES ASSUME N!Init PROVE N!IndInv
  OBVIOUS
<1>0. /\ x1 = [ id \in N!Ids |-> Nil ] /\ x3 = Events /\ x4 = FALSE /\ x7 = {}
      /\ x6 = [ a \in N!Actors |-> N!Idle ]
      /\ x8.crashes = 0 /\ x8.manual = 0 /\ x9.takenUp = {} /\ x9.delivered = {} /\ x9.ghosts = {}
      /\ \A id \in N!Ids : x9.autoSends[id] = 0 /\ x9.receipts[id] = 0
  BY DEF N!Init
<1>1. N!NotifyTypes
  <2>1. x2 \in [ Suppliers -> { Nil } \cup [ serves : BOOLEAN, profile : Profiles ] ]
    BY DEF N!Init
  <2>2. x8 \in N!Budgets /\ x9 \in N!Histories
    BY DEF N!Init, N!Budgets, N!Histories
  <2> QED BY <1>0, <2>1, <2>2 DEF N!NotifyTypes
<1>2. \A a \in N!Actors : x6[a] = N!Idle /\ x6[a] \notin N!Work /\ x6[a] \notin N!Sweep
  BY <1>0, OperationKinds
<1>3. "indexer" \in N!Actors
  BY DEF N!Actors
<1>4. ASSUME NEW a \in N!Actors PROVE N!ActorInv(a)
  BY <1>2 DEF N!ActorInv
<1>5. ASSUME NEW id \in N!Ids PROVE N!DeliveryInv(id)
  <2>1. \A a \in N!Actors : ~N!Works(a, id)
    BY <1>2 DEF N!Works
  <2>2. ~N!Stored(id) /\ N!Recorded(id) = 0 /\ ~N!Swept(id)
    BY <1>0, <1>2, <1>3 DEF N!Stored, N!Recorded, N!Swept
  <2>3. ~N!Answering(id) /\ N!Spare \in Nat /\ N!Capped(0) = 0
    BY <1>1, <1>3, <2>1, Attempts DEF N!Answering
  <2>4. N!AloneInv(id) /\ N!CopyInv(id)
    BY <2>1 DEF N!AloneInv, N!CopyInv
  <2>5. N!BudgetInv(id)
    BY <1>0, <1>3, <2>1, <2>2, <2>3 DEF N!BudgetInv
  <2>6. N!ReceiptInv(id)
    BY <1>0, <2>1 DEF N!ReceiptInv
  <2> QED BY <2>4, <2>5, <2>6 DEF N!DeliveryInv
<1>6. N!SweepInv /\ N!NoticeInv /\ N!EventInv /\ N!NoWrongRecipient /\ N!NoGhostDelivery
  BY <1>0, <1>2, <1>3 DEF N!SweepInv, N!Stored, N!NoticeInv, N!EventInv, N!NoWrongRecipient, N!NoGhostDelivery
<1> QED BY <1>1, <1>4, <1>5, <1>6 DEF N!IndInv

LEMMA NotifyStep ==
  ASSUME N!IndInv, [N!Next]_(N!notifyVars)
  PROVE  N!IndInv'
<1>1. CASE UNCHANGED N!notifyVars
  <2>0. UNCHANGED << x1, x2, x3, x4, x5, x6, x7, x8, x9 >>
    BY <1>1 DEF N!notifyVars
  <2>1. /\ \A id \in N!Ids : N!DeliveryInv(id)'
        /\ \A a \in N!Actors : N!ActorInv(a)'
    BY <2>0, UntouchedStep DEF SameHistory
  <2>2. N!NotifyTypes'
    BY <2>0 DEF N!IndInv, N!NotifyTypes
  <2>3. N!SweepInv' /\ N!NoticeInv' /\ N!EventInv' /\ N!NoWrongRecipient' /\ N!NoGhostDelivery'
    BY <2>0 DEF N!IndInv, N!SweepInv, N!EventInv, N!Stored, N!Swept, N!NoticeInv, N!NoWrongRecipient, N!NoGhostDelivery
  <2> QED BY <2>1, <2>2, <2>3 DEF N!IndInv
<1>2. ASSUME NEW e \in Events, NEW gap \in N!Missing \cup {Nil}, N!processSignalSubmittedEvents(e, gap)
      PROVE  N!IndInv'
  BY <1>2, IntakeStep
<1>3. CASE N!saveSkippedSignalDelivery
  BY <1>3, SkippedStep
<1>4. CASE N!dispatchSignalTransportDelivery
  BY <1>4, DispatchStep
<1>5. ASSUME NEW a \in N!Actors, N!Send(a) PROVE N!IndInv'
  BY <1>5, SendStep
<1>6. ASSUME NEW a \in N!Actors, N!dispatchPreparedDelivery(a) PROVE N!IndInv'
  BY <1>6, StoreAnswerStep
<1>7. ASSUME NEW a \in Operators, NEW id \in N!Ids, N!retryDelivery(a, id) PROVE N!IndInv'
  <2>1. N!Stored(id) /\ N!Retriable(x1[id].status) /\ N!ManualRead(a, "retry", id)
    BY <1>7 DEF N!retryDelivery
  <2> QED BY <2>1, ManualStep
<1>8. ASSUME NEW a \in Operators, NEW id \in N!Ids, N!reopenDelivery(a, id) PROVE N!IndInv'
  <2>1. N!Stored(id) /\ x1[id].status = "dead_letter" /\ N!ManualRead(a, "reopen", id)
    BY <1>8 DEF N!reopenDelivery
  <2> QED BY <2>1, ManualStep
<1>9. ASSUME NEW a \in Operators, NEW id \in N!Ids, N!deadLetterDelivery(a, id) PROVE N!IndInv'
  <2>1. N!Stored(id) /\ N!ManualRead(a, "bury", id)
    BY <1>9 DEF N!deadLetterDelivery
  <2> QED BY <2>1, ManualStep
<1>10. ASSUME NEW a \in Operators, N!Reissue(a) PROVE N!IndInv'
  BY <1>10, ReissueStep
<1>11. ASSUME NEW a \in Operators, N!Bury(a) PROVE N!IndInv'
  BY <1>11, BuryStep
<1>12. CASE N!Reorg
  BY <1>12, ReorgStep
<1>13. CASE N!invalidateDeliveriesAboveBlock
  BY <1>13, ListStep
<1>14. CASE N!InvalidateOne
  BY <1>14, InvalidateStep
<1>15. ASSUME NEW s \in Suppliers, NEW id \in N!Ids, N!markParticipantNotificationRead(s, id) PROVE N!IndInv'
  BY <1>15, ReadNoticeStep
<1>16. CASE N!EditDirectory
  BY <1>16, EditStep
<1>17. CASE N!Crash
  BY <1>17, CrashStep
<1> QED BY <1>1, <1>2, <1>3, <1>4, <1>5, <1>6, <1>7, <1>8, <1>9, <1>10, <1>11, <1>12, <1>13, <1>14, <1>15, <1>16, <1>17
        DEF N!Next

(* What was sent of a delivery is within the budget whether or not its     *)
(* answer is still to be stored.                                           *)
LEMMA WithinBudget ==
  ASSUME N!IndInv
  PROVE  N!AutomaticBudget
<1> SUFFICES ASSUME NEW id \in N!Ids, N!Fresh(id)
             PROVE  x9.autoSends[id] <= MaxAutomatic * (1 + x8.crashes)
  BY DEF N!AutomaticBudget, N!Fresh
<1>0. N!NotifyTypes /\ N!BudgetInv(id)
  BY DEF N!IndInv, N!DeliveryInv
<1>1. MaxAutomatic \in Nat /\ x8.crashes \in Nat /\ x9.autoSends[id] \in Nat /\ N!Spare \in Nat
  BY <1>0, ParticipantsConstants, Attempts DEF N!NotifyTypes, N!Budgets
<1>2. MaxAutomatic * (1 + x8.crashes) = MaxAutomatic + N!Spare
  BY <1>1 DEF N!Spare
<1>3. CASE N!Answering(id)
  <2>1. x6["indexer"] \in N!Work /\ x6["indexer"].at # "read" /\ "indexer" \in N!Actors
    BY <1>3 DEF N!Answering, N!Works, N!Actors
  <2>2. x6["indexer"].row \in N!Row
    BY <2>1 DEF N!IndInv, N!ActorInv, N!Work
  <2>3. N!Capped(x6["indexer"].row.attempts + 1) <= MaxAutomatic
        /\ N!Capped(x6["indexer"].row.attempts + 1) \in Nat
    BY <1>0, <2>2, RowShape, Attempts
  <2>4. x9.autoSends[id] <= N!Capped(x6["indexer"].row.attempts + 1) + N!Spare
    BY <1>0, <1>3 DEF N!BudgetInv
  <2> QED BY <1>1, <1>2, <2>3, <2>4
<1>4. CASE ~N!Answering(id)
  <2>1. N!Recorded(id) \in Nat
    BY <1>0, RowShape DEF N!Recorded, N!Stored, N!NotifyTypes
  <2>2. N!Capped(N!Recorded(id)) <= MaxAutomatic /\ N!Capped(N!Recorded(id)) \in Nat
    BY <1>0, <2>1, Attempts
  <2>3. x9.autoSends[id] <= N!Capped(N!Recorded(id)) + N!Spare
    BY <1>0, <1>4 DEF N!BudgetInv
  <2> QED BY <1>1, <1>2, <2>2, <2>3
<1> QED BY <1>3, <1>4

LEMMA DeliveriesFromInv ==
  ASSUME N!IndInv
  PROVE  N!DeliveriesSound
<1>0. N!NotifyTypes /\ "indexer" \in N!Actors /\ x8.crashes \in Nat
  BY DEF N!IndInv, N!Actors, N!NotifyTypes, N!Budgets
<1>1. N!NoWrongRecipient /\ N!NoGhostDelivery
  BY DEF N!IndInv
<1>2. N!AutomaticBudget
  BY WithinBudget
<1>3. N!DeliveredOnce
  <2> SUFFICES ASSUME NEW id \in N!Ids, N!Fresh(id), id \notin x9.reopened, x8.crashes = 0
               PROVE  ~(x9.receipts[id] > 1)
    BY <1>0 DEF N!DeliveredOnce, N!Fresh
  <2>1. N!ReceiptInv(id)
    BY DEF N!IndInv, N!DeliveryInv
  <2>2. x9.receipts[id] = 0 \/ x9.receipts[id] = 1
    BY <2>1 DEF N!ReceiptInv
  <2> QED BY <2>2
<1>4. N!InvalidationComplete
  <2> SUFFICES ASSUME \A a \in N!Actors : x6[a] = N!Idle, ~x4, x8.crashes = 0, x8.manual = 0,
                      NEW id \in N!Ids, N!Stored(id), id[1] \notin x3
               PROVE  x1[id].status = "invalidated"
    BY DEF N!InvalidationComplete
  <2>1. ~N!Swept(id)
    BY <1>0, OperationKinds DEF N!Swept
  <2> QED BY <2>1 DEF N!IndInv, N!SweepInv
<1>5. N!InvalidationIsNews
  <2>1. ASSUME NEW id \in N!Ids PROVE N!participantNotificationId(id, "invalidated") = << id, "notification_invalidated" >>
    BY DEF N!participantNotificationId, N!NoticeKind
  <2> QED BY <2>1 DEF N!InvalidationIsNews, N!IndInv, N!NoticeInv
<1>6. N!EveryEventAccounted
  <2> SUFFICES ASSUME x6["indexer"] = N!Idle, x8.crashes = 0, NEW e \in x9.takenUp
               PROVE  \E s \in N!Subjects : N!Stored(<< e, s >>)
    BY DEF N!EveryEventAccounted
  <2>1. x6["indexer"] \notin N!Work
    BY OperationKinds
  <2> QED BY <2>1 DEF N!IndInv, N!EventInv
<1> QED BY <1>1, <1>2, <1>3, <1>4, <1>5, <1>6 DEF N!DeliveriesSound

(* A delivery reaches only its own receiver, is accepted once, and the     *)
(* indexer keeps to its attempts; what a rollback invalidated is not sent  *)
(* and is news again; no event is dropped in silence: for any number of    *)
(* events, suppliers, operators, rounds, crashes and reorgs.               *)
THEOREM DeliveriesHonest == Spec => []DeliveriesSound
<1> DEFINE Inv == focus = "notifications" => N!IndInv
<1>1. Init => Inv
  BY NotifyInit DEF Init
<1>2. Inv /\ [Next]_allVars => Inv'
  BY FocusStep, NotifyStep
<1>3. Inv => DeliveriesSound
  BY DeliveriesFromInv DEF DeliveriesSound
<1> QED BY <1>1, <1>2, <1>3, PTL DEF Spec, allVars
=============================================================================
