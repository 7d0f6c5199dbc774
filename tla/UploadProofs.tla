---------------------------- MODULE UploadProofs ----------------------------
(***************************************************************************)
(* Proofs about what becomes of an upload.  RawStorage, for any number of  *)
(* threads, files, raw ids and failures: types, contents of records, and   *)
(* verdicts that are right and final.  XlsxInspection, for any packages,   *)
(* schemas and number of changes: a matched workbook holds nothing but     *)
(* what was matched.                                                       *)
(***************************************************************************)
EXTENDS RawStorage, XlsxInspection, FiniteSetTheorems, WellFoundedInduction, TLAPS

-----------------------------------------------------------------------------
(* The inductive invariant: what a thread may rely on at each step.  The   *)
(* storage lock is free between two steps of an inspection, so what keeps  *)
(* the record it has read from changing is the lock of its raw id.         *)

(* A damaged content is one that somebody damaged.                         *)
DamageKnown == \A d \in Digests : content[d] = "damaged" => d \in damaged

(* Between the two writes of store the lock is held and the content there. *)
WriterSafe ==
  \A t \in Threads :
     At(t, "record") =>
       /\ lock = t
       /\ job[t].digest \notin damaged => content[job[t].digest] = "good"

Inspects(t) == job[t] # NoJob /\ job[t].step \notin {"store", "record"}

OneInspector ==
  \A t, u \in Threads :
     Inspects(t) /\ Inspects(u) /\ job[t].id = job[u].id => t = u

Deserves(d, verdict) ==
  /\ verdict = "VALID" => Kind[d] = "MATCHED"
  /\ verdict = "QUARANTINED" => Kind[d] = "UNKNOWN"

(* The record of a file under inspection is in the state the step expects, *)
(* and a verdict about to be written is the one the file deserves.         *)
InspectorKnows(j) ==
  /\ meta[j.id] # NoRecord
  /\ meta[j.id].digest = j.digest
  /\ j.step = "mark" => meta[j.id].state = "RECEIVED"
  /\ j.step \in {"read", "detect", "decide"} => meta[j.id].state = "VALIDATING"
  /\ j.step = "reject" => meta[j.id].state # "RECEIVED"
  /\ j.step = "decide" /\ j.digest \notin damaged => Deserves(j.digest, j.verdict)

StorageInv ==
  /\ TypeOK
  /\ DamageKnown
  /\ RecordHasContent
  /\ GateFailsClosed
  /\ WriterSafe
  /\ OneInspector
  /\ \A t \in Threads : Inspects(t) => InspectorKnows(job[t])

-----------------------------------------------------------------------------
LEMMA InitInv == Init => StorageInv
<1> SUFFICES ASSUME Init PROVE StorageInv
  OBVIOUS
<1>1. TypeOK
  BY BoundAssumption DEF Init, TypeOK
<1> QED BY <1>1 DEF Init, StorageInv, DamageKnown, RecordHasContent,
                    GateFailsClosed, WriterSafe, At, OneInspector, Inspects

(* What Spend leaves of the bounds is a bound.                             *)
LEMMA SpendType ==
  ASSUME left \in Bounds, NEW what \in {"uploads", "crashes", "faults", "damages"},
         Spend(what)
  PROVE  left' \in Bounds
BY DEF Spend, Bounds

(* A record with another state is a record.                                *)
LEMMA RecordType ==
  ASSUME meta \in [RawIds -> Records \cup {NoRecord}], NEW id \in RawIds,
         meta[id] # NoRecord, NEW s \in States,
         meta' = [meta EXCEPT ![id].state = s]
  PROVE  meta' \in [RawIds -> Records \cup {NoRecord}]
BY DEF Records

LEMMA NextType == StorageInv /\ [Next]_vars => TypeOK'
<1> SUFFICES ASSUME StorageInv, [Next]_vars PROVE TypeOK'
  OBVIOUS
<1> USE DEF StorageInv
<1>1. ASSUME NEW t \in Threads, NEW d \in Digests, Receive(t, d) PROVE TypeOK'
  <2>1. left' \in Bounds
    BY <1>1, SpendType DEF Receive, TypeOK
  <2>2. \A id \in RawIds : Job("store", id, d, "REJECTED") \in Jobs
    BY DEF Job, Jobs, Steps, Terminal
  <2>3. CASE d \in DOMAIN registry
    BY <1>1, <2>1, <2>2, <2>3 DEF Receive, TypeOK, disk
  <2>4. CASE d \notin DOMAIN registry
    BY <1>1, <2>1, <2>2, <2>4 DEF Receive, TypeOK, disk
  <2> QED BY <2>3, <2>4
<1>2. ASSUME NEW t \in Threads, NEW id \in RawIds, InspectBegin(t, id) PROVE TypeOK'
  <2>1. meta[id].digest \in Digests
    BY <1>2 DEF InspectBegin, TypeOK, Records
  <2>2. job' \in [Threads -> Jobs \cup {NoJob}]
    BY <1>2, <2>1 DEF InspectBegin, TypeOK, Job, Jobs, Steps, Terminal
  <2> QED BY <1>2, <2>2 DEF InspectBegin, TypeOK, disk
<1>3. ASSUME NEW t \in Threads, Step(t) PROVE TypeOK'
  <2>1. CASE StoreContent(t)
    BY <2>1 DEF StoreContent, At, Goes, TypeOK, Jobs, Steps
  <2>2. CASE StoreContentFails(t)
    <3>1. left' \in Bounds
      BY <2>2, SpendType DEF StoreContentFails, TypeOK
    <3> QED BY <2>2, <3>1 DEF StoreContentFails, At, Ends, TypeOK
  <2>3. CASE StoreRecord(t)
    <3>1. Received(t) \in Records /\ job[t].id \in RawIds
      BY <2>3 DEF StoreRecord, At, Received, TypeOK, Jobs, Records, States
    <3> QED BY <2>3, <3>1 DEF StoreRecord, Ends, TypeOK
  <2>4. CASE StoreRecordFails(t)
    <3>1. left' \in Bounds
      BY <2>4, SpendType DEF StoreRecordFails, TypeOK
    <3>2. Received(t) \in Records /\ job[t].id \in RawIds
      BY <2>4 DEF StoreRecordFails, At, Received, TypeOK, Jobs, Records, States
    <3> QED BY <2>4, <3>1, <3>2 DEF StoreRecordFails, Ends, TypeOK
  <2>5. CASE Inspects(t)
    <3>1. /\ job[t].id \in RawIds /\ meta[job[t].id] # NoRecord
          /\ job[t].verdict \in States
      BY <2>5 DEF InspectorKnows, TypeOK, Jobs, Inspects, States
    <3>2. \A s \in States : meta' = [meta EXCEPT ![job[t].id].state = s]
                              => meta' \in [RawIds -> Records \cup {NoRecord}]
      BY <3>1, RecordType DEF TypeOK
    <3>3. Spend("faults") => left' \in Bounds
      BY SpendType DEF TypeOK
    <3>4. CASE InspectMark(t)
      BY <3>4, <3>2 DEF InspectMark, At, Goes, TypeOK, Jobs, Steps, States
    <3>5. CASE InspectMarkFails(t)
      BY <3>5, <3>2, <3>3 DEF InspectMarkFails, At, Ends, TypeOK, States
    <3>6. CASE InspectRead(t)
      BY <3>6 DEF InspectRead, At, Goes, TypeOK, Jobs, Steps, disk
    <3>7. CASE InspectDetect(t)
      <4>1. Verdicts(t) \subseteq Terminal
        <5>1. /\ content[job[t].digest] \in {"none", "good", "damaged"}
              /\ Kind[job[t].digest] \in Kinds
          BY <3>7, KindAssumption DEF InspectDetect, At, TypeOK, Jobs
        <5> QED BY <5>1 DEF Verdicts, Terminal, Kinds
      <4> QED BY <3>7, <4>1 DEF InspectDetect, At, TypeOK, Jobs, Steps, disk
    <3>8. CASE InspectDecide(t)
      BY <3>8, <3>1, <3>2 DEF InspectDecide, At, Ends, TypeOK
    <3>9. CASE InspectDecideFails(t)
      <4>1. job' \in [Threads -> Jobs \cup {NoJob}]
        <5>1. job[t] \in Jobs
          BY <3>9 DEF InspectDecideFails, At, TypeOK
        <5>2. [[job[t] EXCEPT !.step = "reject"] EXCEPT !.verdict = "REJECTED"] \in Jobs
          BY <5>1 DEF Jobs, Steps, Terminal
        <5>3. job' = [job EXCEPT ![t] =
                        [[job[t] EXCEPT !.step = "reject"] EXCEPT !.verdict = "REJECTED"]]
          BY <3>9 DEF InspectDecideFails, TypeOK
        <5> QED BY <5>2, <5>3 DEF TypeOK
      <4>2. meta' \in [RawIds -> Records \cup {NoRecord}]
        BY <3>9, <3>1, <3>2 DEF InspectDecideFails, States
      <4> QED BY <3>9, <4>1, <4>2, <3>3 DEF InspectDecideFails, TypeOK
    <3>10. CASE InspectReject(t)
      <4>1. meta' = [meta EXCEPT ![job[t].id].state =
                       IF meta[job[t].id].state = "VALIDATING" THEN "REJECTED"
                       ELSE meta[job[t].id].state]
        BY <3>10 DEF InspectReject
      <4>2. meta[job[t].id].state \in States
        BY <3>1 DEF TypeOK, Records
      <4> QED BY <3>10, <3>2, <4>1, <4>2
              DEF InspectReject, At, Ends, TypeOK, States, Terminal
    <3>11. CASE InspectRejectFails(t)
      BY <3>11, <3>2, <3>3 DEF InspectRejectFails, At, Ends, TypeOK, States, Terminal
    <3> QED BY <1>3, <2>1, <2>2, <2>3, <2>4, <3>4, <3>5, <3>6, <3>7, <3>8,
               <3>9, <3>10, <3>11 DEF Step
  <2>6. CASE ~Inspects(t)
    BY <1>3, <2>1, <2>2, <2>3, <2>4, <2>6
       DEF Step, Inspects, At, InspectMark, InspectMarkFails, InspectRead,
           InspectDetect, InspectDecide, InspectDecideFails, InspectReject,
           InspectRejectFails
  <2> QED BY <2>5, <2>6
<1>4. CASE Crash
  <2>1. left' \in Bounds
    BY <1>4, SpendType DEF Crash, TypeOK
  <2> QED BY <1>4, <2>1 DEF Crash, TypeOK, disk
<1>5. ASSUME NEW d \in Digests, Damage(d) PROVE TypeOK'
  <2>1. left' \in Bounds
    BY <1>5, SpendType DEF Damage, TypeOK
  <2> QED BY <1>5, <2>1 DEF Damage, TypeOK
<1>6. CASE UNCHANGED vars
  BY <1>6 DEF TypeOK, vars
<1> QED BY <1>1, <1>2, <1>3, <1>4, <1>5, <1>6 DEF Next

-----------------------------------------------------------------------------
(* What VerdictsStand says of one step.                                    *)
RecordsAdvance ==
  \A id \in RawIds :
    meta[id] # NoRecord =>
      /\ meta'[id] # NoRecord
      /\ meta'[id].digest = meta[id].digest
      /\ Stage(meta'[id].state) >= Stage(meta[id].state)
      /\ meta[id].state \in Terminal => meta'[id].state = meta[id].state

(* A step that leaves the records alone advances them.                     *)
LEMMA RecordsStay ==
  ASSUME StorageInv, meta' = meta
  PROVE  RecordsAdvance
<1> SUFFICES ASSUME NEW id \in RawIds, meta[id] # NoRecord
             PROVE  Stage(meta[id].state) >= Stage(meta[id].state)
  BY DEF RecordsAdvance
<1>1. Stage(meta[id].state) \in Nat
  BY DEF Stage
<1> QED BY <1>1

(* A thread that goes on with the file it inspects, or does not inspect,   *)
(* gets in no other inspector's way.                                       *)
LEMMA OthersKeepStep ==
  ASSUME StorageInv, NEW t \in Threads,
         \A u \in Threads : u # t => job'[u] = job[u],
         Inspects(t)' => Inspects(t) /\ job'[t].id = job[t].id
  PROVE  OneInspector'
BY DEF StorageInv, OneInspector, Inspects

(* An inspector leaves content, locks and damage to the others.            *)
LEMMA InspectorMoves ==
  ASSUME StorageInv, NEW t \in Threads, Inspects(t),
         \A u \in Threads : u # t => job'[u] = job[u],
         \/ job'[t] = NoJob
         \/ /\ job'[t].id = job[t].id
            /\ job'[t].step \notin {"store", "record"},
         lock' = lock, content' = content, damaged' = damaged
  PROVE  DamageKnown' /\ WriterSafe' /\ OneInspector'
<1>1. DamageKnown'
  BY DEF StorageInv, DamageKnown
<1>2. WriterSafe'
  BY DEF StorageInv, WriterSafe, At
<1>3. OneInspector'
  BY OthersKeepStep DEF Inspects
<1> QED BY <1>1, <1>2, <1>3

(* What a write of a state leaves in the records.                          *)
LEMMA StateWrite ==
  ASSUME meta \in [RawIds -> Records \cup {NoRecord}], NEW id \in RawIds,
         meta[id] # NoRecord, NEW s \in States,
         meta' = [meta EXCEPT ![id].state = s]
  PROVE  /\ meta'[id] # NoRecord
         /\ meta'[id].digest = meta[id].digest
         /\ meta'[id].state = s
         /\ \A i \in RawIds : i # id => meta'[i] = meta[i]
BY NoRecordAssumption DEF Records

(* A write of an inspector advances one record, to a state it deserves.    *)
LEMMA InspectorWrites ==
  ASSUME StorageInv, NEW t \in Threads, Inspects(t), NEW s \in States,
         \A u \in Threads : u # t => job'[u] = job[u],
         meta' = [meta EXCEPT ![job[t].id].state = s],
         content' = content, damaged' = damaged,
         \/ s = meta[job[t].id].state
         \/ /\ meta[job[t].id].state = "RECEIVED"
            /\ s = "VALIDATING"
         \/ /\ meta[job[t].id].state = "VALIDATING"
            /\ s \in Terminal
            /\ job[t].digest \notin damaged => Deserves(job[t].digest, s)
  PROVE  /\ RecordHasContent' /\ GateFailsClosed' /\ RecordsAdvance
         /\ meta'[job[t].id] # NoRecord
         /\ meta'[job[t].id].digest = job[t].digest
         /\ meta'[job[t].id].state = s
         /\ \A u \in Threads : u # t /\ Inspects(u)' => InspectorKnows(job[u])'
<1> DEFINE id == job[t].id
<1>1. id \in RawIds /\ meta[id] # NoRecord /\ meta[id].digest = job[t].digest
  <2>1. job[t] \in Jobs
    BY DEF StorageInv, TypeOK, Inspects
  <2> QED BY <2>1 DEF StorageInv, InspectorKnows, Jobs
<1>2. /\ meta'[id] # NoRecord
      /\ meta'[id].digest = job[t].digest
      /\ meta'[id].state = s
      /\ \A i \in RawIds : i # id => meta'[i] = meta[i]
  <2>1. meta \in [RawIds -> Records \cup {NoRecord}]
    BY DEF StorageInv, TypeOK
  <2> QED BY <1>1, <2>1, StateWrite
<1>3. RecordHasContent'
  BY <1>1, <1>2 DEF StorageInv, RecordHasContent
<1>4. GateFailsClosed'
  <2> SUFFICES ASSUME NEW i \in RawIds, meta'[i] # NoRecord,
                      meta'[i].digest \notin damaged
               PROVE  Deserves(meta'[i].digest, meta'[i].state)
    BY DEF GateFailsClosed, Deserves
  <2>1. \A j \in RawIds : meta[j] # NoRecord /\ meta[j].digest \notin damaged
                            => Deserves(meta[j].digest, meta[j].state)
    BY DEF StorageInv, GateFailsClosed, Deserves
  <2>2. CASE i # id
    BY <1>2, <2>1, <2>2
  <2>3. CASE i = id
    <3>1. Deserves(job[t].digest, "VALIDATING")
      BY DEF Deserves
    <3> QED BY <1>1, <1>2, <2>1, <2>3, <3>1
  <2> QED BY <2>2, <2>3
<1>5. RecordsAdvance
  <2> SUFFICES ASSUME NEW i \in RawIds, meta[i] # NoRecord
               PROVE  /\ meta'[i] # NoRecord
                      /\ meta'[i].digest = meta[i].digest
                      /\ Stage(meta'[i].state) >= Stage(meta[i].state)
                      /\ meta[i].state \in Terminal => meta'[i].state = meta[i].state
    BY DEF RecordsAdvance
  <2>1. \A r : Stage(r) \in 1..3
    BY DEF Stage
  <2>2. CASE i # id
    BY <1>2, <2>1, <2>2
  <2>3. CASE i = id
    <3>1. Stage("RECEIVED") = 1 /\ Stage("VALIDATING") = 2
      BY DEF Stage
    <3>2. \A r \in Terminal : Stage(r) = 3
      BY DEF Stage, Terminal
    <3>3. "RECEIVED" \notin Terminal /\ "VALIDATING" \notin Terminal
      BY DEF Terminal
    <3> QED BY <1>1, <1>2, <2>1, <2>3, <3>1, <3>2, <3>3
  <2> QED BY <2>2, <2>3
<1>6. \A u \in Threads : u # t /\ Inspects(u)' => InspectorKnows(job[u])'
  <2> SUFFICES ASSUME NEW u \in Threads, u # t, Inspects(u)'
               PROVE  InspectorKnows(job[u])'
    OBVIOUS
  <2>1. Inspects(u) /\ job'[u] = job[u]
    BY DEF Inspects
  <2>2. job[u].id # id /\ job[u].id \in RawIds
    <3>1. job[u] \in Jobs
      BY <2>1 DEF StorageInv, TypeOK, Inspects
    <3> QED BY <2>1, <3>1 DEF StorageInv, OneInspector, Jobs
  <2>3. InspectorKnows(job[u])
    BY <2>1 DEF StorageInv
  <2> QED BY <1>2, <2>1, <2>2, <2>3 DEF InspectorKnows
<1> QED BY <1>2, <1>3, <1>4, <1>5, <1>6

-----------------------------------------------------------------------------
(* What is left to show of a step, once the types are known.               *)
Kept ==
  /\ DamageKnown' /\ RecordHasContent' /\ GateFailsClosed'
  /\ WriterSafe' /\ OneInspector'
  /\ \A t \in Threads : Inspects(t)' => InspectorKnows(job[t])'
  /\ RecordsAdvance

(* What is known of the job of a thread that is at a step.                 *)
LEMMA AtStep ==
  ASSUME StorageInv, NEW t \in Threads, NEW step, At(t, step)
  PROVE  /\ job[t] # NoJob /\ job[t] \in Jobs /\ job[t].step = step
         /\ job[t].id \in RawIds /\ job[t].digest \in Digests
         /\ job[t].verdict \in Terminal
         /\ step \notin {"store", "record"} => Inspects(t) /\ InspectorKnows(job[t])
<1>1. job[t] # NoJob /\ job[t] \in Jobs /\ job[t].step = step
  BY DEF StorageInv, TypeOK, At
<1>2. step \notin {"store", "record"} => Inspects(t) /\ InspectorKnows(job[t])
  BY <1>1 DEF StorageInv, Inspects
<1> QED BY <1>1, <1>2 DEF Jobs

(* What Ends and Goes do to the jobs.                                      *)
LEMMA EndsJob ==
  ASSUME StorageInv, NEW t \in Threads, Ends(t)
  PROVE  job'[t] = NoJob /\ \A u \in Threads : u # t => job'[u] = job[u]
BY DEF StorageInv, TypeOK, Ends

LEMMA GoesJob ==
  ASSUME StorageInv, NEW t \in Threads, job[t] \in Jobs, NEW step, Goes(t, step)
  PROVE  /\ job'[t].step = step /\ job'[t].id = job[t].id
         /\ job'[t].digest = job[t].digest /\ job'[t].verdict = job[t].verdict
         /\ \A u \in Threads : u # t => job'[u] = job[u]
BY DEF StorageInv, TypeOK, Goes, Jobs

(* A step of an inspector that leaves the records alone.                   *)
LEMMA InspectorLooks ==
  ASSUME StorageInv, NEW t \in Threads, Inspects(t),
         \A u \in Threads : u # t => job'[u] = job[u],
         job'[t].id = job[t].id, job'[t].step \notin {"store", "record"},
         InspectorKnows(job[t])',
         lock' = lock, content' = content, meta' = meta, damaged' = damaged
  PROVE  Kept
<1>1. DamageKnown' /\ WriterSafe' /\ OneInspector'
  BY InspectorMoves
<1>2. RecordHasContent' /\ GateFailsClosed'
  BY DEF StorageInv, RecordHasContent, GateFailsClosed
<1>3. RecordsAdvance
  BY RecordsStay
<1>4. \A u \in Threads : u # t /\ Inspects(u)' => InspectorKnows(job[u])'
  BY DEF StorageInv, Inspects, InspectorKnows
<1> QED BY <1>1, <1>2, <1>3, <1>4 DEF Kept

(* A step of an inspector that writes a state and returns.                 *)
LEMMA InspectorDecides ==
  ASSUME StorageInv, NEW t \in Threads, Inspects(t), Ends(t), NEW s \in States,
         meta' = [meta EXCEPT ![job[t].id].state = s],
         lock' = lock, content' = content, damaged' = damaged,
         \/ s = meta[job[t].id].state
         \/ /\ meta[job[t].id].state = "RECEIVED"
            /\ s = "VALIDATING"
         \/ /\ meta[job[t].id].state = "VALIDATING"
            /\ s \in Terminal
            /\ job[t].digest \notin damaged => Deserves(job[t].digest, s)
  PROVE  Kept
<1>1. job'[t] = NoJob /\ \A u \in Threads : u # t => job'[u] = job[u]
  BY EndsJob
<1>2. DamageKnown' /\ WriterSafe' /\ OneInspector'
  BY <1>1, InspectorMoves
<1>3. /\ RecordHasContent' /\ GateFailsClosed' /\ RecordsAdvance
      /\ \A u \in Threads : u # t /\ Inspects(u)' => InspectorKnows(job[u])'
  BY <1>1, InspectorWrites
<1>4. ~Inspects(t)'
  BY <1>1 DEF Inspects
<1> QED BY <1>2, <1>3, <1>4 DEF Kept

(* With a content nobody damaged, the verdict is what the schema says.     *)
LEMMA VerdictsDeserved ==
  ASSUME StorageInv, NEW t \in Threads, At(t, "detect"), NEW v \in Verdicts(t)
  PROVE  v \in Terminal /\ (job[t].digest \notin damaged => Deserves(job[t].digest, v))
<1>1. job[t].id \in RawIds /\ job[t].digest \in Digests /\ InspectorKnows(job[t])
  BY AtStep
<1>2. /\ content[job[t].digest] \in {"none", "good", "damaged"}
      /\ Kind[job[t].digest] \in Kinds
  BY <1>1, KindAssumption DEF StorageInv, TypeOK
<1>3. job[t].digest \notin damaged => content[job[t].digest] = "good"
  BY <1>1 DEF StorageInv, RecordHasContent, InspectorKnows
<1> QED BY <1>2, <1>3 DEF Verdicts, Terminal, Kinds, Deserves

LEMMA InspectorStep ==
  ASSUME StorageInv, NEW t \in Threads,
         \/ InspectMark(t) \/ InspectMarkFails(t) \/ InspectRead(t)
         \/ InspectDetect(t) \/ InspectDecide(t) \/ InspectDecideFails(t)
         \/ InspectReject(t) \/ InspectRejectFails(t)
  PROVE  Kept
<1> DEFINE id == job[t].id
<1>1. CASE InspectMark(t)
  <2>1. /\ At(t, "mark") /\ Goes(t, "read") /\ "VALIDATING" \in States
        /\ meta' = [meta EXCEPT ![id].state = "VALIDATING"]
        /\ lock' = lock /\ content' = content /\ damaged' = damaged
    BY <1>1 DEF InspectMark, States
  <2>2. /\ job[t] \in Jobs /\ Inspects(t) /\ meta[id].state = "RECEIVED"
        /\ job[t].step = "mark"
    BY <2>1, AtStep DEF InspectorKnows
  <2>3. /\ job'[t].step = "read" /\ job'[t].id = id
        /\ job'[t].digest = job[t].digest
        /\ \A u \in Threads : u # t => job'[u] = job[u]
    BY <2>1, <2>2, GoesJob, Zenon
  <2>4. DamageKnown' /\ WriterSafe' /\ OneInspector'
    BY <2>1, <2>2, <2>3, InspectorMoves
  <2>5. /\ RecordHasContent' /\ GateFailsClosed' /\ RecordsAdvance
        /\ meta'[id] # NoRecord /\ meta'[id].digest = job[t].digest
        /\ meta'[id].state = "VALIDATING"
        /\ \A u \in Threads : u # t /\ Inspects(u)' => InspectorKnows(job[u])'
    BY <2>1, <2>2, <2>3, InspectorWrites
  <2>6. InspectorKnows(job[t])'
    BY <2>3, <2>5 DEF InspectorKnows
  <2> QED BY <2>4, <2>5, <2>6 DEF Kept
<1>2. CASE InspectMarkFails(t)
  <2>1. /\ At(t, "mark") /\ Ends(t)
        /\ lock' = lock /\ content' = content /\ damaged' = damaged
    BY <1>2 DEF InspectMarkFails
  <2>2. PICK s \in {"RECEIVED", "VALIDATING"} :
          meta' = [meta EXCEPT ![id].state = s]
    BY <1>2 DEF InspectMarkFails
  <2>3. Inspects(t) /\ meta[id].state = "RECEIVED" /\ s \in States
    BY <2>1, AtStep DEF InspectorKnows, States
  <2> QED BY <2>1, <2>2, <2>3, InspectorDecides
<1>3. CASE InspectRead(t)
  <2>1. PICK step \in {"detect", "reject"} : Goes(t, step)
    BY <1>3 DEF InspectRead
  <2>2. /\ At(t, "read") /\ lock' = lock /\ content' = content
        /\ meta' = meta /\ damaged' = damaged
    BY <1>3 DEF InspectRead, disk
  <2>3. /\ job[t] \in Jobs /\ job[t].step = "read" /\ Inspects(t)
        /\ InspectorKnows(job[t])
    BY <2>2, AtStep
  <2>4. /\ job'[t].step = step /\ job'[t].id = id
        /\ job'[t].digest = job[t].digest
        /\ \A u \in Threads : u # t => job'[u] = job[u]
    BY <2>1, <2>3, GoesJob, Zenon
  <2>5. InspectorKnows(job[t])'
    BY <2>2, <2>3, <2>4 DEF InspectorKnows
  <2> QED BY <2>2, <2>3, <2>4, <2>5, InspectorLooks
<1>4. CASE InspectDetect(t)
  <2>1. PICK v \in Verdicts(t) :
          job' = [job EXCEPT ![t].verdict = v,
                             ![t].step = IF v = "REJECTED" THEN "reject" ELSE "decide"]
    BY <1>4 DEF InspectDetect
  <2>2. /\ At(t, "detect") /\ lock' = lock /\ content' = content
        /\ meta' = meta /\ damaged' = damaged
    BY <1>4 DEF InspectDetect, disk
  <2>3. /\ job[t] \in Jobs /\ job[t].step = "detect" /\ Inspects(t)
        /\ InspectorKnows(job[t])
    BY <2>2, AtStep
  <2>4. job[t].digest \notin damaged => Deserves(job[t].digest, v)
    BY <2>2, VerdictsDeserved
  <2>5. /\ job'[t].step \in {"reject", "decide"} /\ job'[t].id = id
        /\ job'[t].digest = job[t].digest /\ job'[t].verdict = v
        /\ \A u \in Threads : u # t => job'[u] = job[u]
    BY <2>1, <2>3 DEF StorageInv, TypeOK, Jobs
  <2>6. InspectorKnows(job[t])'
    BY <2>2, <2>3, <2>4, <2>5 DEF InspectorKnows
  <2> QED BY <2>2, <2>3, <2>5, <2>6, InspectorLooks
<1>5. CASE InspectDecide(t)
  <2>1. /\ At(t, "decide") /\ Ends(t)
        /\ meta' = [meta EXCEPT ![id].state = job[t].verdict]
        /\ lock' = lock /\ content' = content /\ damaged' = damaged
    BY <1>5 DEF InspectDecide
  <2>2. /\ Inspects(t) /\ meta[id].state = "VALIDATING"
        /\ job[t].verdict \in Terminal /\ job[t].verdict \in States
        /\ job[t].digest \notin damaged => Deserves(job[t].digest, job[t].verdict)
    BY <2>1, AtStep DEF InspectorKnows, States
  <2> QED BY <2>1, <2>2, InspectorDecides
<1>6. CASE InspectDecideFails(t)
  <2>1. /\ At(t, "decide")
        /\ job' = [job EXCEPT ![t].step = "reject", ![t].verdict = "REJECTED"]
        /\ lock' = lock /\ content' = content /\ damaged' = damaged
    BY <1>6 DEF InspectDecideFails
  <2>2. PICK s \in {"VALIDATING", job[t].verdict} :
          meta' = [meta EXCEPT ![id].state = s]
    BY <1>6 DEF InspectDecideFails
  <2>3. /\ job[t] \in Jobs /\ Inspects(t) /\ meta[id].state = "VALIDATING"
        /\ job[t].verdict \in Terminal /\ s \in States
        /\ job[t].digest \notin damaged => Deserves(job[t].digest, job[t].verdict)
    BY <2>1, AtStep DEF InspectorKnows, States
  <2>4. /\ job'[t].step = "reject" /\ job'[t].id = id
        /\ job'[t].digest = job[t].digest
        /\ \A u \in Threads : u # t => job'[u] = job[u]
    BY <2>1, <2>3 DEF StorageInv, TypeOK, Jobs
  <2>5. DamageKnown' /\ WriterSafe' /\ OneInspector'
    BY <2>1, <2>3, <2>4, InspectorMoves
  <2>6. /\ RecordHasContent' /\ GateFailsClosed' /\ RecordsAdvance
        /\ meta'[id] # NoRecord /\ meta'[id].digest = job[t].digest
        /\ meta'[id].state = s
        /\ \A u \in Threads : u # t /\ Inspects(u)' => InspectorKnows(job[u])'
    BY <2>1, <2>2, <2>3, <2>4, InspectorWrites
  <2>7. InspectorKnows(job[t])'
    BY <2>3, <2>4, <2>6 DEF InspectorKnows, Terminal
  <2> QED BY <2>5, <2>6, <2>7 DEF Kept
<1>7. CASE InspectReject(t)
  <2>1. /\ At(t, "reject") /\ Ends(t)
        /\ meta' = [meta EXCEPT ![id].state =
                      IF meta[id].state = "VALIDATING" THEN "REJECTED"
                      ELSE meta[id].state]
        /\ lock' = lock /\ content' = content /\ damaged' = damaged
    BY <1>7 DEF InspectReject
  <2>2. Inspects(t) /\ id \in RawIds /\ meta[id] # NoRecord
    BY <2>1, AtStep DEF InspectorKnows
  <2>3. meta[id].state \in States /\ "REJECTED" \in States
    BY <2>2 DEF StorageInv, TypeOK, Records, States, Terminal
  <2>4. "REJECTED" \in Terminal /\ Deserves(job[t].digest, "REJECTED")
    BY DEF Terminal, Deserves
  <2> QED BY <2>1, <2>2, <2>3, <2>4, InspectorDecides
<1>8. CASE InspectRejectFails(t)
  <2>1. /\ At(t, "reject") /\ Ends(t) /\ meta[id].state = "VALIDATING"
        /\ lock' = lock /\ content' = content /\ damaged' = damaged
    BY <1>8 DEF InspectRejectFails
  <2>2. PICK s \in {"VALIDATING", "REJECTED"} :
          meta' = [meta EXCEPT ![id].state = s]
    BY <1>8 DEF InspectRejectFails
  <2>3. Inspects(t) /\ s \in States
    BY <2>1, AtStep DEF States, Terminal
  <2>4. "REJECTED" \in Terminal /\ Deserves(job[t].digest, "REJECTED")
    BY DEF Terminal, Deserves
  <2> QED BY <2>1, <2>2, <2>3, <2>4, InspectorDecides
<1> QED BY <1>1, <1>2, <1>3, <1>4, <1>5, <1>6, <1>7, <1>8

-----------------------------------------------------------------------------
(* A step that leaves the records and the damage alone, changes one thread *)
(* that does not inspect before or after, and spoils no content.           *)
LEMMA OthersWork ==
  ASSUME StorageInv, NEW t \in Threads,
         \A u \in Threads : u # t => job'[u] = job[u],
         ~Inspects(t)', meta' = meta, damaged' = damaged,
         \A d \in Digests : content'[d] = "damaged" => content[d] = "damaged",
         \A d \in Digests : content[d] = "good" => content'[d] = "good",
         WriterSafe'
  PROVE  Kept
<1>1. OneInspector'
  BY OthersKeepStep
<1>2. DamageKnown'
  BY DEF StorageInv, DamageKnown
<1>3. RecordHasContent'
  BY DEF StorageInv, TypeOK, Records, RecordHasContent
<1>4. GateFailsClosed'
  BY DEF StorageInv, GateFailsClosed
<1>5. RecordsAdvance
  BY RecordsStay
<1>6. \A u \in Threads : Inspects(u)' => InspectorKnows(job[u])'
  BY DEF StorageInv, Inspects, InspectorKnows
<1> QED BY <1>1, <1>2, <1>3, <1>4, <1>5, <1>6 DEF Kept

(* Whoever writes a record has the lock; when it is free nobody does.      *)
LEMMA NobodyWrites ==
  ASSUME StorageInv, lock = NoThread
  PROVE  \A u \in Threads : ~At(u, "record")
BY NoThreadAssumption DEF StorageInv, WriterSafe

LEMMA WriterStep ==
  ASSUME StorageInv, NEW t \in Threads,
         \/ StoreContent(t) \/ StoreContentFails(t)
         \/ StoreRecord(t) \/ StoreRecordFails(t)
  PROVE  Kept
<1> DEFINE d == job[t].digest
           id == job[t].id
<1>1. CASE StoreContent(t)
  <2>1. /\ At(t, "store") /\ Goes(t, "record") /\ lock = NoThread /\ lock' = t
        /\ content[d] # "damaged" /\ content' = [content EXCEPT ![d] = "good"]
        /\ meta' = meta /\ damaged' = damaged
    BY <1>1 DEF StoreContent
  <2>2. job[t] \in Jobs /\ d \in Digests
    BY <2>1, AtStep, Zenon
  <2>3. /\ job'[t].step = "record" /\ job'[t].digest = d
        /\ \A u \in Threads : u # t => job'[u] = job[u]
    BY <2>1, <2>2, GoesJob, Zenon
  <2>4. /\ content'[d] = "good"
        /\ \A e \in Digests : e # d => content'[e] = content[e]
    BY <2>1, <2>2 DEF StorageInv, TypeOK
  <2>5. WriterSafe'
    BY <2>1, <2>3, <2>4, NobodyWrites DEF WriterSafe, At
  <2>6. ~Inspects(t)'
    BY <2>3 DEF Inspects
  <2>7. /\ \A e \in Digests : content'[e] = "damaged" => content[e] = "damaged"
        /\ \A e \in Digests : content[e] = "good" => content'[e] = "good"
    BY <2>4
  <2> QED BY <2>1, <2>3, <2>5, <2>6, <2>7, OthersWork
<1>2. CASE StoreContentFails(t)
  <2>1. /\ At(t, "store") /\ Ends(t) /\ lock = NoThread
        /\ meta' = meta /\ damaged' = damaged
    BY <1>2 DEF StoreContentFails
  <2>2. /\ job'[t] = NoJob
        /\ \A u \in Threads : u # t => job'[u] = job[u]
    BY <2>1, EndsJob
  <2>3. /\ \A e \in Digests : content'[e] = "damaged" => content[e] = "damaged"
        /\ \A e \in Digests : content[e] = "good" => content'[e] = "good"
    BY <1>2 DEF StoreContentFails, StorageInv, TypeOK
  <2>4. WriterSafe'
    BY <2>1, <2>2, NobodyWrites DEF WriterSafe, At
  <2>5. ~Inspects(t)'
    BY <2>2 DEF Inspects
  <2> QED BY <2>1, <2>2, <2>3, <2>4, <2>5, OthersWork
<1>3. ASSUME StoreRecord(t) \/ StoreRecordFails(t)
      PROVE  Kept
  <2>1. /\ At(t, "record") /\ Ends(t) /\ lock' = NoThread
        /\ content' = content /\ damaged' = damaged
    BY <1>3 DEF StoreRecord, StoreRecordFails
  <2>2. /\ job[t] \in Jobs /\ id \in RawIds /\ d \in Digests
    BY <2>1, AtStep, Zenon
  <2>3. lock = t /\ (d \notin damaged => content[d] = "good")
    BY <2>1 DEF StorageInv, WriterSafe
  <2>4. /\ job'[t] = NoJob
        /\ \A u \in Threads : u # t => job'[u] = job[u]
    BY <2>1, EndsJob
  <2>5. /\ \A i \in RawIds : meta[i] # NoRecord => meta'[i] = meta[i]
        /\ \A i \in RawIds : meta[i] = NoRecord => meta'[i] \in {NoRecord, Received(t)}
    BY <1>3, <2>2 DEF StoreRecord, StoreRecordFails, StorageInv, TypeOK
  <2>6. ~Inspects(t)' /\ OneInspector'
    BY <2>4, OthersKeepStep DEF Inspects
  <2>7. DamageKnown'
    BY <2>1 DEF StorageInv, DamageKnown
  <2>8. WriterSafe'
    BY <2>1, <2>3, <2>4 DEF StorageInv, WriterSafe, At
  <2>9. RecordHasContent'
    <3>1. Received(t).digest = d
      BY DEF Received
    <3> QED BY <2>1, <2>3, <2>5, <3>1 DEF StorageInv, RecordHasContent
  <2>10. GateFailsClosed'
    <3>1. Received(t).state = "RECEIVED"
      BY DEF Received
    <3> QED BY <2>1, <2>5, <3>1 DEF StorageInv, GateFailsClosed
  <2>11. RecordsAdvance
    <3>1. \A r : Stage(r) \in Nat
      BY DEF Stage
    <3> QED BY <2>5, <3>1 DEF RecordsAdvance
  <2>12. \A u \in Threads : Inspects(u)' => InspectorKnows(job[u])'
    <3> SUFFICES ASSUME NEW u \in Threads, Inspects(u)'
                 PROVE  InspectorKnows(job[u])'
      OBVIOUS
    <3>1. Inspects(u) /\ job'[u] = job[u]
      BY <2>4, <2>6 DEF Inspects
    <3>2. InspectorKnows(job[u]) /\ job[u].id \in RawIds
      BY <3>1 DEF StorageInv, TypeOK, Inspects, Jobs
    <3>3. meta'[job[u].id] = meta[job[u].id]
      BY <2>5, <3>2 DEF InspectorKnows
    <3> QED BY <2>1, <3>1, <3>2, <3>3 DEF InspectorKnows
  <2> QED BY <2>6, <2>7, <2>8, <2>9, <2>10, <2>11, <2>12 DEF Kept
<1> QED BY <1>1, <1>2, <1>3

-----------------------------------------------------------------------------
LEMMA ReceiveStep ==
  ASSUME StorageInv, NEW t \in Threads, NEW d \in Digests, Receive(t, d)
  PROVE  Kept
<1>1. /\ meta' = meta /\ content' = content /\ damaged' = damaged /\ lock' = lock
  BY DEF Receive, disk
<1>2. PICK id : job' = [job EXCEPT ![t] = Job("store", id, d, "REJECTED")]
  BY DEF Receive
<1>3. job'[t].step = "store" /\ \A u \in Threads : u # t => job'[u] = job[u]
  BY <1>2 DEF Job, StorageInv, TypeOK
<1>4. ~Inspects(t)'
  BY <1>3 DEF Inspects
<1>5. WriterSafe'
  BY <1>1, <1>3 DEF StorageInv, WriterSafe, At
<1> QED BY <1>1, <1>3, <1>4, <1>5, OthersWork

LEMMA InspectBeginStep ==
  ASSUME StorageInv, NEW t \in Threads, NEW id \in RawIds, InspectBegin(t, id)
  PROVE  Kept
<1>1. /\ meta' = meta /\ content' = content /\ damaged' = damaged /\ lock' = lock
      /\ meta[id] # NoRecord /\ meta[id].state \notin Terminal
      /\ \A u \in Threads : Inspects(u) => job[u].id # id
  BY DEF InspectBegin, disk, Inspecting, Inspects
<1>2. meta[id].state \in {"RECEIVED", "VALIDATING"}
  BY <1>1 DEF StorageInv, TypeOK, Records, States
<1>3. /\ job'[t].step = IF meta[id].state = "RECEIVED" THEN "mark" ELSE "read"
      /\ job'[t].id = id /\ job'[t].digest = meta[id].digest
      /\ \A u \in Threads : u # t => job'[u] = job[u]
  BY DEF InspectBegin, Job, StorageInv, TypeOK
<1>4. OneInspector'
  BY <1>1, <1>3 DEF StorageInv, OneInspector, Inspects
<1>5. DamageKnown' /\ RecordHasContent' /\ GateFailsClosed'
  BY <1>1 DEF StorageInv, DamageKnown, RecordHasContent, GateFailsClosed
<1>6. WriterSafe'
  BY <1>1, <1>3 DEF StorageInv, WriterSafe, At
<1>7. \A u \in Threads : Inspects(u)' => InspectorKnows(job[u])'
  <2>1. InspectorKnows(job[t])'
    BY <1>1, <1>2, <1>3 DEF InspectorKnows
  <2>2. \A u \in Threads : u # t /\ Inspects(u)' => InspectorKnows(job[u])'
    BY <1>1, <1>3 DEF StorageInv, Inspects, InspectorKnows
  <2> QED BY <2>1, <2>2
<1>8. RecordsAdvance
  BY <1>1, RecordsStay
<1> QED BY <1>4, <1>5, <1>6, <1>7, <1>8 DEF Kept

LEMMA CrashStep ==
  ASSUME StorageInv, Crash
  PROVE  Kept
<1>1. /\ meta' = meta /\ content' = content /\ damaged' = damaged
      /\ \A t \in Threads : job'[t] = NoJob
  BY DEF Crash, disk
<1>2. DamageKnown' /\ RecordHasContent' /\ GateFailsClosed'
  BY <1>1 DEF StorageInv, DamageKnown, RecordHasContent, GateFailsClosed
<1>3. /\ WriterSafe' /\ OneInspector'
      /\ \A t \in Threads : Inspects(t)' => InspectorKnows(job[t])'
  BY <1>1 DEF WriterSafe, At, OneInspector, Inspects
<1>4. RecordsAdvance
  BY <1>1, RecordsStay
<1> QED BY <1>2, <1>3, <1>4 DEF Kept

LEMMA DamageStep ==
  ASSUME StorageInv, NEW d \in Digests, Damage(d)
  PROVE  Kept
<1>1. /\ meta' = meta /\ lock' = lock /\ job' = job
      /\ damaged' = damaged \cup {d}
      /\ \A e \in Digests : e # d => content'[e] = content[e]
  BY DEF Damage, StorageInv, TypeOK
<1>2. DamageKnown'
  BY <1>1 DEF StorageInv, DamageKnown
<1>3. RecordHasContent' /\ GateFailsClosed'
  BY <1>1 DEF StorageInv, TypeOK, Records, RecordHasContent, GateFailsClosed
<1>4. WriterSafe'
  <2>1. \A t \in Threads : At(t, "record") => job[t].digest \in Digests
    BY AtStep
  <2> QED BY <1>1, <2>1 DEF StorageInv, WriterSafe, At
<1>5. OneInspector'
  BY <1>1 DEF StorageInv, OneInspector, Inspects
<1>6. \A t \in Threads : Inspects(t)' => InspectorKnows(job[t])'
  BY <1>1 DEF StorageInv, Inspects, InspectorKnows
<1>7. RecordsAdvance
  BY <1>1, RecordsStay
<1> QED BY <1>2, <1>3, <1>4, <1>5, <1>6, <1>7 DEF Kept

LEMMA NextInv == StorageInv /\ [Next]_vars => StorageInv' /\ RecordsAdvance
<1> SUFFICES ASSUME StorageInv, [Next]_vars PROVE StorageInv' /\ RecordsAdvance
  OBVIOUS
<1>1. TypeOK'
  BY NextType
<1>2. Kept
  <2>1. ASSUME NEW t \in Threads, NEW d \in Digests, Receive(t, d) PROVE Kept
    BY <2>1, ReceiveStep
  <2>2. ASSUME NEW t \in Threads, NEW id \in RawIds, InspectBegin(t, id) PROVE Kept
    BY <2>2, InspectBeginStep
  <2>3. ASSUME NEW t \in Threads, Step(t) PROVE Kept
    BY <2>3, WriterStep, InspectorStep DEF Step
  <2>4. CASE Crash
    BY <2>4, CrashStep
  <2>5. ASSUME NEW d \in Digests, Damage(d) PROVE Kept
    BY <2>5, DamageStep
  <2>6. CASE UNCHANGED vars
    <3>1. RecordsAdvance
      BY <2>6, RecordsStay DEF vars
    <3> QED BY <2>6, <3>1
            DEF vars, Kept, StorageInv, DamageKnown, RecordHasContent,
                GateFailsClosed, WriterSafe, At, OneInspector, Inspects, InspectorKnows
  <2> QED BY <2>1, <2>2, <2>3, <2>4, <2>5, <2>6 DEF Next
<1> QED BY <1>1, <1>2 DEF Kept, StorageInv

LEMMA AlwaysStorageInv == Spec => []StorageInv
BY InitInv, NextInv, PTL DEF Spec

-----------------------------------------------------------------------------
(* Registry, files, lock and jobs always have their types, whatever the    *)
(* calls of receive, store and inspect, failures and crashes do.           *)
THEOREM StorageTypeCorrect == Spec => []TypeOK
<1>1. StorageInv => TypeOK
  BY DEF StorageInv
<1> QED BY <1>1, AlwaysStorageInv, PTL

(* LocalRawStorage.store never leaves a record without its content, in     *)
(* whatever order its calls overlap, fail and crash, unless someone        *)
(* damaged the content file.                                               *)
THEOREM RecordsHaveContent == Spec => []RecordHasContent
<1>1. StorageInv => RecordHasContent
  BY DEF StorageInv
<1> QED BY <1>1, AlwaysStorageInv, PTL

(* CsvSchemaGate.inspect never leaves a file VALID whose schema it did not *)
(* match, nor quarantines a known one, through any failure in its course.  *)
THEOREM GateClosed == Spec => []GateFailsClosed
<1>1. StorageInv => GateFailsClosed
  BY DEF StorageInv
<1> QED BY <1>1, AlwaysStorageInv, PTL

(* Through store, transition and restarts a record keeps its digest, only  *)
(* advances, and keeps its verdict.                                        *)
THEOREM VerdictsFinal == Spec => VerdictsStand
<1>1. StorageInv /\ [Next]_vars => [RecordsAdvance]_vars
  BY NextInv
<1>2. VerdictsStand <=> [][RecordsAdvance]_vars
  BY PTL DEF VerdictsStand, RecordsAdvance
<1> QED BY <1>1, <1>2, AlwaysStorageInv, PTL DEF Spec

-----------------------------------------------------------------------------
(* The inspection of a workbook.                                           *)

(* Every set of natural numbers has a least member, and a largest one if   *)
(* it is bounded.                                                          *)
LEMMA MinFacts ==
  ASSUME NEW S \in SUBSET Nat, S # {}
  PROVE  Min(S) \in S /\ \A y \in S : Min(S) <= y
<1> DEFINE R == OpToRel(<, Nat)
<1>1. IsWellFoundedOn(R, Nat)
  BY NatLessThanWellFounded
<1>2. PICK m \in S : \A y \in S : ~(<<y, m>> \in R)
  <2> HIDE DEF R
  <2> QED BY <1>1, WFMin
<1>3. \A y \in S : ~(y < m)
  BY <1>2 DEF OpToRel
<1> HIDE DEF R
<1>4. m \in S /\ \A y \in S : m <= y
  BY <1>3
<1> QED BY <1>4 DEF Min

LEMMA MaxFacts ==
  ASSUME NEW k \in Nat, NEW S \in SUBSET (0 .. k), S # {}
  PROVE  Max(S) \in S /\ \A y \in S : y <= Max(S)
<1> DEFINE T == {i \in Nat : k - i \in S}
<1>1. T \in SUBSET Nat /\ T # {}
  <2>1. PICK y \in S : TRUE
    OBVIOUS
  <2>2. k - y \in Nat /\ k - (k - y) = y
    OBVIOUS
  <2> QED BY <2>2
<1>2. PICK i : i = Min(T)
  OBVIOUS
<1>3. i \in T /\ \A j \in T : i <= j
  BY <1>1, <1>2, MinFacts
<1>4. ASSUME NEW y \in S PROVE y <= k - i
  <2>1. k - y \in T
    OBVIOUS
  <2> QED BY <1>3, <2>1
<1>5. k - i \in S
  BY <1>3
<1> QED BY <1>4, <1>5 DEF Max

-----------------------------------------------------------------------------
(* An accepted archive is tiled by its parts: the record of a part ends    *)
(* where the next one begins, since no record is empty.                    *)
LEMMA NextOffsetFacts ==
  ASSUME NEW p, IsPackage(p), NEW n \in DOMAIN p.parts
  PROVE  /\ NextOffset(p, n) <= p.central
         /\ \A o \in DOMAIN p.parts \ {n} :
              p.parts[o].at >= p.parts[n].at => NextOffset(p, n) <= p.parts[o].at
         /\ \/ NextOffset(p, n) = p.central
            \/ \E o \in DOMAIN p.parts \ {n} :
                 p.parts[o].at >= p.parts[n].at /\ NextOffset(p, n) = p.parts[o].at
<1> DEFINE O == {o \in DOMAIN p.parts \ {n} : p.parts[o].at >= p.parts[n].at}
           S == {p.central} \cup {p.parts[o].at : o \in O}
<1>1. S \in SUBSET Nat /\ S # {}
  BY DEF IsPackage, IsPart
<1>2. NextOffset(p, n) = Min(S)
  BY DEF NextOffset
<1>3. Min(S) \in S /\ \A y \in S : Min(S) <= y
  <2> HIDE DEF S
  <2> QED BY <1>1, MinFacts
<1> QED BY <1>2, <1>3

LEMMA TilesCover ==
  ASSUME NEW p, IsPackage(p), Tiled(p), NEW b \in 0 .. (p.central - 1)
  PROVE  Cardinality({n \in DOMAIN p.parts : b \in Span(p.parts[n])}) = 1
<1> DEFINE D == DOMAIN p.parts
           at(n) == p.parts[n].at
           end(n) == NextOffset(p, n)
<1>1. \A n \in D : /\ at(n) \in Nat /\ end(n) \in Int /\ at(n) < end(n)
                   /\ \A x \in Int : x \in Span(p.parts[n]) <=> at(n) <= x /\ x < end(n)
  <2> SUFFICES ASSUME NEW n \in D
               PROVE  /\ at(n) \in Nat /\ end(n) \in Int /\ at(n) < end(n)
                      /\ \A x \in Int : x \in Span(p.parts[n]) <=> at(n) <= x /\ x < end(n)
    OBVIOUS
  <2>1. /\ p.parts[n].at \in Nat /\ p.parts[n].size \in Nat \ {0} /\ p.parts[n].descriptor \in Nat
    BY DEF IsPackage, IsPart
  <2>2. end(n) = p.parts[n].at + p.parts[n].size + p.parts[n].descriptor
    BY DEF Tiled
  <2> HIDE DEF end
  <2> QED BY <2>1, <2>2 DEF Span
<1>2. \A n \in D : \A o \in D \ {n} : at(o) >= at(n) => end(n) <= at(o)
  BY NextOffsetFacts
<1>3. \A n \in D : end(n) = p.central \/ \E o \in D \ {n} : at(o) >= at(n) /\ end(n) = at(o)
  BY NextOffsetFacts
<1>4. b \in Nat /\ p.central \in Nat /\ b < p.central
  BY DEF IsPackage
<1>5. \E n \in D : at(n) = 0
  BY DEF Tiled
<1> HIDE DEF D, at, end
<1>6. PICK n \in D : at(n) <= b /\ \A o \in D : at(o) <= b => at(o) <= at(n)
  <2> DEFINE S == {x \in 0 .. b : \E o \in D : at(o) = x}
  <2>1. 0 \in S
    BY <1>4, <1>5
  <2>2. \A o \in D : at(o) <= b => at(o) \in S
    BY <1>1, <1>4
  <2>3. PICK m : m = Max(S)
    OBVIOUS
  <2>4. m \in S /\ \A y \in S : y <= m
    BY <1>4, <2>1, <2>3, MaxFacts
  <2> QED BY <2>2, <2>4
<1>7. b < end(n)
  <2>1. CASE end(n) = p.central
    BY <1>4, <2>1
  <2>2. CASE \E o \in D \ {n} : at(o) >= at(n) /\ end(n) = at(o)
    <3>1. PICK o \in D \ {n} : at(o) >= at(n) /\ end(n) = at(o)
      BY <2>2
    <3> QED BY <1>1, <1>4, <1>6, <3>1
  <2> QED BY <1>3, <2>1, <2>2
<1>8. ASSUME NEW o \in D, b \in Span(p.parts[o]) PROVE o = n
  <2>1. at(o) <= b /\ b < end(o)
    BY <1>1, <1>4, <1>8
  <2>2. CASE o # n
    <3>1. at(n) >= at(o)
      BY <1>6, <2>1
    <3>2. end(o) <= at(n)
      BY <1>2, <2>2, <3>1
    <3> QED BY <1>1, <1>6, <2>1, <3>2, <1>4
  <2> QED BY <2>2
<1>9. b \in Span(p.parts[n])
  BY <1>1, <1>4, <1>6, <1>7
<1>10. {o \in D : b \in Span(p.parts[o])} = {n}
  BY <1>8, <1>9
<1> QED BY <1>10, FS_Singleton DEF D

-----------------------------------------------------------------------------
(* Names of parts.  No two of an accepted archive are equal when folded.   *)
LEMMA FoldedFacts ==
  ASSUME NEW name \in Paths
  PROVE  /\ Len(Folded(name)) = Len(name) /\ DOMAIN Folded(name) = 1 .. Len(name)
         /\ \A i \in 1 .. Len(name) : Folded(name)[i] = Fold[name[i]]
<1>1. DOMAIN name = 1 .. Len(name) /\ Len(name) \in Nat
  BY DEF Paths
<1>2. Folded(name) = [i \in 1 .. Len(name) |-> Fold[name[i]]]
  BY <1>1 DEF Folded
<1> QED BY <1>1, <1>2

LEMMA FoldedDistinct ==
  ASSUME NEW p, IsPackage(p), NamesUnique(p), NEW a \in DOMAIN p.parts, NEW b \in DOMAIN p.parts,
         Folded(a) = Folded(b)
  PROVE  a = b
<1> DEFINE D == DOMAIN p.parts
           f == [n \in D |-> Folded(n)]
<1>1. f \in Surjection(D, Names(p))
  BY DEF Surjection, Names
<1>2. IsFiniteSet(D) /\ Cardinality(Names(p)) = Cardinality(D)
  BY DEF IsPackage, NamesUnique
<1>3. f \in Injection(D, Names(p))
  <2> HIDE DEF f, D
  <2> QED BY <1>1, <1>2, FS_Surjection
<1>4. f[a] = f[b] => a = b
  <2> HIDE DEF f
  <2> QED BY <1>3 DEF Injection, IsInjective
<1> QED BY <1>4

(* A part of an accepted archive that is no worksheet has a short name.    *)
LEMMA OtherPartsAreShort ==
  ASSUME NEW p, IsPackage(p), PackagePartsModelled(p), NEW n \in DOMAIN p.parts,
         ~InWorksheetFolder(Folded(n))
  PROVE  Len(n) < 3
<1>1. n \in Paths
  BY DEF IsPackage
<1>2. ModelledPart(Folded(n))
  BY DEF PackagePartsModelled, Names
<1> PICK f : f = Folded(n)
  OBVIOUS
<1>3. Len(f) = Len(n)
  BY <1>1, FoldedFacts
<1>4. ~IsWorksheetPart(f)
  BY DEF IsWorksheetPart, InWorksheetFolder
<1>5. f \in AllowedParts
  BY <1>2, <1>4 DEF ModelledPart
<1>6. Len(f) = 2
  BY <1>5 DEF AllowedParts, WorkbookPart
<1> QED BY <1>3, <1>6

(* The reader and the check resolve the target of a sheet to the same      *)
(* part: a target that begins with xl would lead to a part xl/xl/..., and  *)
(* no such part is allowed.                                                *)
LEMMA ReaderFindsPart ==
  ASSUME NEW p, IsPackage(p), RelationshipsValid(p), PackagePartsModelled(p),
         NEW s \in DOMAIN p.sheets, SheetPaths(p)[s] \in DOMAIN p.parts
  PROVE  SheetPaths(p)[s] \in PartOf(p, p.sheets[s].id)
<1> DEFINE R == DOMAIN p.relations
           i == CHOOSE j \in R : p.relations[j].id = p.sheets[s].id
<1>1. \E j \in R : p.relations[j].id = p.sheets[s].id
  <2>1. p.sheets[s].id \in ReferencedIds(p)
    BY DEF ReferencedIds
  <2>2. ReferencedIds(p) =
          {p.relations[j].id : j \in {j \in R : p.relations[j].type = "worksheet"}}
    BY DEF RelationshipsValid
  <2> QED BY <2>1, <2>2
<1>2. i \in R /\ p.relations[i].id = p.sheets[s].id
  BY <1>1
<1>3. SheetPaths(p)[s] = RelationshipTarget(p.relations[i].target)
  BY DEF SheetPaths
<1> HIDE DEF i
<1> PICK t : t = p.relations[i].target
  OBVIOUS
<1>4. /\ ~t.absolute /\ Proper(t.path) /\ WorkbookTarget(t) \in Names(p)
  BY <1>2 DEF RelationshipsValid
<1>5. t.path \in Paths /\ Len(t.path) >= 1
  <2>1. p.relations[i] \in Relations
    BY <1>2 DEF IsPackage
  <2>2. t.path \in Paths
    BY <2>1 DEF Relations, ResolvedTargets
  <2>3. t.path # <<>>
    BY <1>4 DEF Proper
  <2>4. Len(t.path) \in Nat /\ (Len(t.path) = 0 => t.path = <<>>)
    BY <2>2 DEF Paths
  <2> QED BY <2>2, <2>3, <2>4
<1>6. t.path[1] # "xl"
  <2> SUFFICES ASSUME t.path[1] = "xl" PROVE FALSE
    OBVIOUS
  <2> PICK f : f = Folded(t.path)
    OBVIOUS
  <2>1. /\ Len(f) = Len(t.path) /\ DOMAIN f = 1 .. Len(t.path)
        /\ \A k \in 1 .. Len(t.path) : f[k] = Fold[t.path[k]]
    BY <1>5, FoldedFacts
  <2>7. Len(t.path) \in Nat
    BY <1>5 DEF Paths
  <2>8. f[1] = "xl" /\ Len(f) >= 1
    BY <2>1, <2>7, <1>5, FoldAssumption
  <2> PICK name : name = WorkbookTarget(t)
    OBVIOUS
  <2>2. name[2] = "xl"
    <3>1. PICK S : S = {f[k] : k \in DOMAIN f} \cup {"xl"}
      OBVIOUS
    <3>2. f \in [1 .. Len(t.path) -> S]
      BY <2>1, <2>7, <3>1 DEF Folded
    <3>3. f \in Seq(S) /\ <<"xl">> \in Seq(S)
      BY <2>7, <3>1, <3>2
    <3>4. name = <<"xl">> \o f
      BY DEF WorkbookTarget
    <3>5. (<<"xl">> \o f)[2] = f[1]
      BY <2>1, <2>8, <3>3
    <3> QED BY <2>8, <3>4, <3>5
  <2>3. ModelledPart(name)
    BY <1>4 DEF PackagePartsModelled
  <2>4. name \notin AllowedParts
    BY <2>2 DEF AllowedParts, WorkbookPart
  <2>5. ~IsWorksheetPart(name)
    BY <2>2 DEF IsWorksheetPart
  <2> QED BY <2>3, <2>4, <2>5 DEF ModelledPart
<1>7. SheetPaths(p)[s] = <<"xl">> \o t.path
  BY <1>3, <1>4, <1>6 DEF RelationshipTarget
<1> QED BY <1>2, <1>7 DEF PartOf

-----------------------------------------------------------------------------
(* Cells, and what of them the reader counts.                              *)
LEMMA CellFacts ==
  ASSUME NEW w, NEW x \in Cells(w)
  PROVE  x[1] \in DOMAIN w /\ x[2] \in DOMAIN w[x[1]]
<1>1. \E r \in DOMAIN w : \E c \in DOMAIN w[r] : x = <<r, c>>
  BY DEF Cells
<1>2. PICK r \in DOMAIN w : \E c \in DOMAIN w[r] : x = <<r, c>>
  BY <1>1
<1>3. PICK c \in DOMAIN w[r] : x = <<r, c>>
  BY <1>2
<1>4. x[1] = r /\ x[2] = c
  BY <1>3
<1> QED BY <1>4

LEMMA TextFacts ==
  ASSUME NEW p, NEW cell
  PROVE  /\ cell.index = 0 => Text(p, cell) = cell.text
         /\ cell.index \in Nat \ {0} => Text(p, cell) = SharedStrings(p)[cell.index]
<1>1. ASSUME cell.index = 0 PROVE ~(cell.index > 0)
  <2>1. ~(0 > 0)
    OBVIOUS
  <2> QED BY <1>1, <2>1
<1>2. ASSUME cell.index \in Nat \ {0} PROVE cell.index > 0
  BY <1>2
<1> QED BY <1>1, <1>2 DEF Text

LEMMA BlankHasNoContent ==
  ASSUME NEW p, NEW w, IsBlank(w)
  PROVE  ContentCells(p, w) = {}
<1> SUFFICES ASSUME NEW x \in ContentCells(p, w) PROVE FALSE
  OBVIOUS
<1>1. x \in Cells(w) /\ HasContent(p, w[x[1]][x[2]])
  BY DEF ContentCells
<1>2. x[1] \in DOMAIN w /\ x[2] \in DOMAIN w[x[1]]
  BY <1>1, CellFacts
<1> PICK cell : cell = w[x[1]][x[2]]
  OBVIOUS
<1>3. cell.index = 0 /\ cell.text = "" /\ ~cell.formula
  BY <1>2 DEF IsBlank
<1>4. Text(p, cell) = ""
  BY <1>3, TextFacts
<1> QED BY <1>1, <1>3, <1>4 DEF HasContent

(* The content of a grid lies in its columns.                              *)
LEMMA UsedColumnBounds ==
  ASSUME NEW p, NEW w, IsGrid(w), NEW x \in ContentCells(p, w)
  PROVE  x[2] \in Nat /\ MaxUsedColumn(p, w) \in Nat /\ x[2] <= MaxUsedColumn(p, w)
<1> DEFINE S == {0} \cup {y[2] : y \in ContentCells(p, w)}
<1>1. \A y \in ContentCells(p, w) : y[2] \in 1 .. MaxColumns
  <2> SUFFICES ASSUME NEW y \in ContentCells(p, w) PROVE y[2] \in 1 .. MaxColumns
    OBVIOUS
  <2>1. y[1] \in DOMAIN w /\ y[2] \in DOMAIN w[y[1]]
    BY CellFacts DEF ContentCells
  <2> QED BY <2>1 DEF IsGrid
<1>2. S \in SUBSET (0 .. MaxColumns) /\ S # {} /\ x[2] \in S
  BY <1>1, ColumnAssumption
<1> PICK m : m = Max(S)
  OBVIOUS
<1>3. m \in S /\ \A y \in S : y <= m
  <2> HIDE DEF S
  <2> QED BY <1>2, ColumnAssumption, MaxFacts
<1>4. m = MaxUsedColumn(p, w)
  BY DEF MaxUsedColumn
<1>5. x[2] \in Nat /\ m \in Nat
  <2>1. S \subseteq Nat
    BY <1>1, ColumnAssumption
  <2> HIDE DEF S
  <2> QED BY <1>2, <1>3, <2>1
<1>6. x[2] <= m
  <2> HIDE DEF S
  <2> QED BY <1>2, <1>3
<1> QED BY <1>4, <1>5, <1>6

-----------------------------------------------------------------------------
(* What a schema that matches says of an accepted package.                 *)
LEMMA SelectedIsSheet ==
  ASSUME NEW p, IsPackage(p), p.sheets # <<>>
  PROVE  Selected(p) \in DOMAIN p.sheets
<1> DEFINE named == {i \in DOMAIN p.sheets : \E s \in Candidates(p) : s.sheet = p.sheets[i].name}
<1>1. DOMAIN p.sheets = 1 .. Len(p.sheets) /\ Len(p.sheets) \in Nat /\ Len(p.sheets) # 0
  BY DEF IsPackage
<1>2. Selected(p) = IF named = {} THEN 1 ELSE Min(named)
  BY DEF Selected
<1>3. named \in SUBSET Nat /\ named \subseteq DOMAIN p.sheets
  BY <1>1
<1>4. named # {} => Min(named) \in named
  <2> HIDE DEF named
  <2> QED BY <1>3, MinFacts
<1>5. CASE named = {}
  <2>1. Selected(p) = 1
    BY <1>2, <1>5
  <2> QED BY <1>1, <2>1
<1>6. CASE named # {}
  <2>1. Selected(p) = Min(named)
    BY <1>2, <1>6
  <2> HIDE DEF named
  <2> QED BY <1>3, <1>4, <1>6, <2>1
<1> QED BY <1>5, <1>6

(* The other parts of a package whose other sheets are empty.              *)
LEMMA OthersAreEmpty ==
  ASSUME NEW p, IsPackage(p), NamesUnique(p), PackagePartsModelled(p), TopologyValid(p),
         NEW i \in DOMAIN p.sheets,
         \A j \in DOMAIN p.sheets \ {i} : ContentCells(p, p.parts[SheetPaths(p)[j]].sheet) = {},
         NEW o \in DOMAIN p.parts, o # SheetPaths(p)[i]
  PROVE  ContentCells(p, p.parts[o].sheet) = {}
<1>1. CASE ~InWorksheetFolder(Folded(o))
  <2>1. Len(o) < 3
    BY <1>1, OtherPartsAreShort
  <2>2. IsBlank(p.parts[o].sheet)
    BY <2>1 DEF IsPackage, IsPart
  <2> QED BY <2>2, BlankHasNoContent
<1>2. CASE InWorksheetFolder(Folded(o))
  <2> PICK paths : paths = SheetPaths(p)
    OBVIOUS
  <2>1. DOMAIN paths = DOMAIN p.sheets
    BY DEF SheetPaths
  <2>2. /\ {Folded(paths[k]) : k \in DOMAIN paths} = {n \in Names(p) : InWorksheetFolder(n)}
        /\ \A k \in DOMAIN paths : paths[k] \in DOMAIN p.parts
    BY DEF TopologyValid
  <2>3. Folded(o) \in Names(p)
    BY DEF Names
  <2>4. PICK k \in DOMAIN p.sheets : Folded(o) = Folded(paths[k])
    BY <1>2, <2>1, <2>2, <2>3
  <2>5. o = paths[k]
    BY <2>1, <2>2, <2>4, FoldedDistinct
  <2> QED BY <2>4, <2>5
<1> QED BY <1>1, <1>2

(* A shared string with a text is used by a cell with content.             *)
LEMMA SharedStringsHaveCells ==
  ASSUME NEW p, IsPackage(p), SharedStringsUsed(p),
         NEW k \in DOMAIN SharedStrings(p), SharedStrings(p)[k] # ""
  PROVE  \E n \in DOMAIN p.parts : \E x \in ContentCells(p, p.parts[n].sheet) :
            p.parts[n].sheet[x[1]][x[2]].index = k
<1> DEFINE N == {n \in DOMAIN p.parts : InWorksheetFolder(Folded(n))}
           W == {p.parts[n].sheet : n \in N}
           U == (UNION {{w[x[1]][x[2]].index : x \in Cells(w)} : w \in W}) \ {0}
<1>2. U = DOMAIN SharedStrings(p)
  BY DEF SharedStringsUsed
<1>3. k # 0 /\ \E w \in W : \E x \in Cells(w) : k = w[x[1]][x[2]].index
  <2> HIDE DEF W
  <2> QED BY <1>2
<1>4. PICK w \in W : \E x \in Cells(w) : k = w[x[1]][x[2]].index
  BY <1>3
<1> PICK n \in N : w = p.parts[n].sheet
  OBVIOUS
<1>10. PICK x \in Cells(w) : k = w[x[1]][x[2]].index
  BY <1>4
<1>5. x[1] \in DOMAIN w /\ x[2] \in DOMAIN w[x[1]]
  BY CellFacts
<1>6. IsGrid(w)
  BY DEF IsPackage, IsPart
<1>7. k \in Nat \ {0}
  <2>1. w[x[1]][x[2]].index \in Nat
    BY <1>6, <1>5 DEF IsGrid
  <2>2. k \in Nat
    BY <1>10, <2>1
  <2>3. k # 0
    BY <1>3
  <2> QED BY <2>2, <2>3
<1>8. HasContent(p, w[x[1]][x[2]])
  <2> PICK cell : cell = w[x[1]][x[2]]
    OBVIOUS
  <2>1. cell.index = k
    BY <1>10
  <2>2. cell.index \in Nat \ {0}
    BY <1>7, <2>1
  <2>3. Text(p, cell) = SharedStrings(p)[k]
    BY <2>1, <2>2, TextFacts
  <2> QED BY <2>3 DEF HasContent
<1>9. x \in ContentCells(p, w)
  BY <1>8 DEF ContentCells
<1> QED BY <1>10, <1>9

LEMMA ContentIsInOnePart ==
  ASSUME NEW p, IsPackage(p), SharedStringsUsed(p), NEW n \in DOMAIN p.parts,
         \A o \in DOMAIN p.parts \ {n} : ContentCells(p, p.parts[o].sheet) = {}
  PROVE  HoldsOnly(p, n)
<1> SUFFICES ASSUME NEW k \in DOMAIN SharedStrings(p), SharedStrings(p)[k] # ""
             PROVE  k \in {p.parts[n].sheet[x[1]][x[2]].index : x \in Cells(p.parts[n].sheet)}
  BY DEF HoldsOnly
<1>1. PICK m \in DOMAIN p.parts : \E x \in ContentCells(p, p.parts[m].sheet) :
                                     p.parts[m].sheet[x[1]][x[2]].index = k
  BY SharedStringsHaveCells
<1>2. m = n
  BY <1>1
<1>3. PICK x \in ContentCells(p, p.parts[n].sheet) : p.parts[n].sheet[x[1]][x[2]].index = k
  BY <1>1, <1>2
<1>4. x \in Cells(p.parts[n].sheet)
  BY DEF ContentCells
<1> QED BY <1>3, <1>4

(* A header the reader found is in the cells of the header row.            *)
LEMMA HeadersAreCells ==
  ASSUME NEW p, NEW w, HeaderValid(p, w), NEW c \in DOMAIN Headers(p, w)
  PROVE  Text(p, w[HeaderRow(p)][c]) = Headers(p, w)[c]
<1> PICK row : row = w[HeaderRow(p)]
  OBVIOUS
<1>1. Headers(p, w) = [d \in 1 .. Max(DOMAIN row) |->
                         IF d \in DOMAIN row THEN Text(p, row[d]) ELSE ""]
  BY DEF Headers
<1>2. Headers(p, w)[c] # ""
  BY DEF HeaderValid
<1>3. Headers(p, w)[c] = IF c \in DOMAIN row THEN Text(p, row[c]) ELSE ""
  BY <1>1
<1>4. c \in DOMAIN row
  BY <1>2, <1>3
<1> QED BY <1>3, <1>4

LEMMA MatchedDescribes ==
  ASSUME NEW p, IsPackage(p), Accepted(p), NEW s \in Matches(p, Shape(p))
  PROVE  Describes(s, p)
<1> PICK i : i = Selected(p)
  OBVIOUS
<1> PICK n : n = SheetPaths(p)[i]
  OBVIOUS
<1> PICK sheet : sheet = p.parts[n].sheet
  OBVIOUS
<1>1. /\ NamesUnique(p) /\ PackagePartsModelled(p) /\ RelationshipsValid(p)
      /\ SharedStringsUsed(p) /\ TopologyValid(p) /\ HeaderValid(p, sheet)
  BY DEF Accepted
<1>2. i \in DOMAIN p.sheets /\ DOMAIN SheetPaths(p) = DOMAIN p.sheets
  BY <1>1, SelectedIsSheet DEF TopologyValid, SheetPaths
<1>3. n \in DOMAIN p.parts
  BY <1>1, <1>2 DEF TopologyValid
<1>4. n \in PartOf(p, p.sheets[i].id)
  BY <1>1, <1>2, <1>3, ReaderFindsPart
<1>5. /\ Shape(p).name = p.sheets[i].name
      /\ Shape(p).headers = Headers(p, sheet)
      /\ Shape(p).used = MaxUsedColumn(p, sheet)
      /\ Shape(p).unmodelled = (\E w \in {p.parts[SheetPaths(p)[j]].sheet :
                                            j \in DOMAIN SheetPaths(p) \ {i}} :
                                  ContentCells(p, w) # {})
      /\ Shape(p).rows = Cardinality({r \in NonemptyRows(p, sheet) : r > HeaderRow(p)})
      /\ Shape(p).formulas = FormulaCount(sheet)
  BY DEF Shape
<1>6. /\ s \in Schemas
      /\ Shape(p).name = s.sheet
      /\ HeaderRow(p) = s.row
      /\ Shape(p).headers = s.headers
      /\ Shape(p).used <= Len(s.headers)
      /\ ~Shape(p).unmodelled
      /\ Shape(p).rows \in s.minRows .. s.maxRows
      /\ Shape(p).formulas <= s.formulas
  BY DEF Matches, Candidates
<1>7. p.sheets[i].name = s.sheet
  BY <1>5, <1>6
<1>8. \A o \in DOMAIN p.parts \ {n} : ContentCells(p, p.parts[o].sheet) = {}
  <2>1. \A j \in DOMAIN p.sheets \ {i} : ContentCells(p, p.parts[SheetPaths(p)[j]].sheet) = {}
    BY <1>2, <1>5, <1>6
  <2> QED BY <1>1, <1>2, <2>1, OthersAreEmpty
<1>9. HoldsOnly(p, n)
  <2>1. SharedStringsUsed(p)
    BY <1>1
  <2> QED BY <1>3, <1>8, <2>1, ContentIsInOnePart
<1>10. \A c \in 1 .. Len(s.headers) : Text(p, sheet[s.row][c]) = s.headers[c]
  <2>1. DOMAIN s.headers = 1 .. Len(s.headers)
    BY <1>6, SchemaAssumption
  <2>2. Headers(p, sheet) = s.headers /\ HeaderRow(p) = s.row
    BY <1>5, <1>6
  <2>3. \A c \in DOMAIN Headers(p, sheet) :
           Text(p, sheet[HeaderRow(p)][c]) = Headers(p, sheet)[c]
    BY <1>1, HeadersAreCells
  <2> QED BY <2>1, <2>2, <2>3
<1>11. \A x \in ContentCells(p, sheet) : x[2] <= Len(s.headers)
  <2> SUFFICES ASSUME NEW x \in ContentCells(p, sheet) PROVE x[2] <= Len(s.headers)
    OBVIOUS
  <2>1. IsGrid(sheet)
    BY <1>3 DEF IsPackage, IsPart
  <2>2. x[2] \in Nat /\ MaxUsedColumn(p, sheet) \in Nat /\ x[2] <= MaxUsedColumn(p, sheet)
    BY <2>1, UsedColumnBounds
  <2>3. Len(s.headers) \in Nat
    BY <1>6, SchemaAssumption
  <2>4. MaxUsedColumn(p, sheet) <= Len(s.headers)
    BY <1>5, <1>6
  <2> QED BY <2>2, <2>3, <2>4
<1>12. Cardinality({x[1] : x \in {x \in ContentCells(p, sheet) : x[1] > s.row}})
         \in s.minRows .. s.maxRows
  <2>1. NonemptyRows(p, sheet) = {x[1] : x \in ContentCells(p, sheet)}
    BY DEF NonemptyRows
  <2>2. {r \in NonemptyRows(p, sheet) : r > s.row}
          = {x[1] : x \in {x \in ContentCells(p, sheet) : x[1] > s.row}}
    BY <2>1
  <2>3. /\ Shape(p).rows = Cardinality({r \in NonemptyRows(p, sheet) : r > s.row})
        /\ Shape(p).rows \in s.minRows .. s.maxRows
    BY <1>5, <1>6
  <2> QED BY <2>2, <2>3
<1>13. FormulaCount(sheet) <= s.formulas
  BY <1>5, <1>6
<1>14. Fits(s, p, sheet)
  BY <1>10, <1>11, <1>12, <1>13 DEF Fits
<1> QED BY <1>2, <1>4, <1>7, <1>9, <1>14 DEF Describes

-----------------------------------------------------------------------------
(* A change of a package leaves a package.                                 *)
LEMMA WithPartIsPackage ==
  ASSUME NEW p, IsPackage(p), NEW n \in DOMAIN p.parts, NEW part, IsPart(n, part)
  PROVE  IsPackage(WithPart(p, n, part))
<1> PICK q : q = WithPart(p, n, part)
  OBVIOUS
<1>1. /\ DOMAIN q = DOMAIN p /\ DOMAIN q.parts = DOMAIN p.parts
      /\ \A m \in DOMAIN q.parts : q.parts[m] = IF m = n THEN part ELSE p.parts[m]
      /\ q.central = p.central
      /\ q.sheets = p.sheets /\ q.relations = p.relations
  BY DEF WithPart, IsPackage
<1> QED BY <1>1 DEF IsPackage

LEMMA WithRelationIsPackage ==
  ASSUME NEW p, IsPackage(p), NEW i \in DOMAIN p.relations, NEW relation \in Relations
  PROVE  IsPackage(WithRelation(p, i, relation))
<1> PICK q : q = WithRelation(p, i, relation)
  OBVIOUS
<1>1. /\ DOMAIN q = DOMAIN p /\ q.parts = p.parts
      /\ q.relations = [p.relations EXCEPT ![i] = relation]
      /\ q.central = p.central /\ q.sheets = p.sheets
  BY DEF WithRelation, IsPackage
<1>2. q.relations \in Seq(Relations)
  BY <1>1 DEF IsPackage
<1> QED BY <1>1, <1>2 DEF IsPackage

LEMMA AddPartIsPackage ==
  ASSUME NEW p, IsPackage(p), NEW n \in Paths \ DOMAIN p.parts, NEW part, IsPart(n, part)
  PROVE  IsPackage(AddPart(p, n, part))
<1> PICK q : q = AddPart(p, n, part)
  OBVIOUS
<1>1. /\ DOMAIN q = DOMAIN p
      /\ q.parts = [m \in DOMAIN p.parts \cup {n} |-> IF m = n THEN part ELSE p.parts[m]]
      /\ q.central = p.central + 2
      /\ q.sheets = p.sheets /\ q.relations = p.relations
  BY DEF AddPart, IsPackage
<1>2. /\ DOMAIN q.parts = DOMAIN p.parts \cup {n}
      /\ \A m \in DOMAIN q.parts : q.parts[m] = IF m = n THEN part ELSE p.parts[m]
  BY <1>1
<1>3. IsFiniteSet(DOMAIN q.parts)
  BY <1>2, FS_AddElement DEF IsPackage
<1>4. q.central \in Nat
  BY <1>1 DEF IsPackage
<1> QED BY <1>1, <1>2, <1>3, <1>4 DEF IsPackage

(* A new part, of a worksheet or of shared strings.                        *)
LEMMA NewSheetIsPart ==
  ASSUME NEW p, IsPackage(p), NEW n \in PartNames, NEW w \in Worksheets
  PROVE  n \in Paths /\ IsPart(n, NewPart(p, w, <<>>))
<1>1. n \in Paths /\ Len(n) >= 3 /\ IsGrid(w)
  BY PackageAssumption
<1>2. ~(Len(n) < 3)
  <2>1. Len(n) \in Nat
    BY <1>1 DEF Paths
  <2> QED BY <1>1, <2>1
<1> QED BY <1>1, <1>2 DEF IsPart, IsPackage, NewPart

LEMMA NewStringsArePart ==
  ASSUME NEW p, IsPackage(p), NEW n \in StringParts, NEW t
  PROVE  n \in Paths /\ IsPart(n, NewPart(p, <<>>, t))
<1>1. n \in Paths /\ IsStringsName(n)
  BY PackageAssumption
<1>2. IsGrid(<<>>) /\ IsBlank(<<>>)
  BY DEF IsGrid, IsBlank
<1> QED BY <1>1, <1>2 DEF IsPart, IsPackage, NewPart

LEMMA ChangedIsPackage ==
  ASSUME NEW p, IsPackage(p), NEW q \in Changed(p)
  PROVE  IsPackage(q)
<1>1. CASE q \in {AddPart(p, n, NewPart(p, w, <<>>)) :
                    n \in PartNames \ DOMAIN p.parts, w \in Worksheets}
  <2>1. PICK n \in PartNames \ DOMAIN p.parts, w \in Worksheets :
          q = AddPart(p, n, NewPart(p, w, <<>>))
    BY <1>1
  <2> QED BY <2>1, NewSheetIsPart, AddPartIsPackage
<1>16. CASE q \in {AddPart(p, n, NewPart(p, <<>>, t)) :
                     n \in StringParts \ DOMAIN p.parts, t \in StringTables}
  <2>1. PICK n \in StringParts \ DOMAIN p.parts, t \in StringTables :
          q = AddPart(p, n, NewPart(p, <<>>, t))
    BY <1>16
  <2> QED BY <2>1, NewStringsArePart, AddPartIsPackage
<1>2. CASE q \in {WithPart(p, n, [p.parts[n] EXCEPT !.sheet = w]) :
                    n \in {m \in DOMAIN p.parts : Len(m) >= 3}, w \in Worksheets}
  <2> DEFINE Long == {m \in DOMAIN p.parts : Len(m) >= 3}
  <2>1. PICK n \in Long, w \in Worksheets : q = WithPart(p, n, [p.parts[n] EXCEPT !.sheet = w])
    <3> HIDE DEF Long
    <3> QED BY <1>2 DEF Long
  <2>2. n \in Paths /\ IsPart(n, p.parts[n]) /\ IsGrid(w)
    BY PackageAssumption DEF IsPackage
  <2>3. ~(Len(n) < 3)
    <3>1. Len(n) \in Nat
      BY <2>2 DEF Paths
    <3> QED BY <3>1
  <2>4. IsPart(n, [p.parts[n] EXCEPT !.sheet = w])
    BY <2>2, <2>3 DEF IsPart
  <2> QED BY <2>1, <2>4, WithPartIsPackage
<1>3. CASE q \in {WithPart(p, n, [p.parts[n] EXCEPT !.descriptor = 1]) : n \in DOMAIN p.parts}
  <2>1. PICK n \in DOMAIN p.parts : q = WithPart(p, n, [p.parts[n] EXCEPT !.descriptor = 1])
    BY <1>3
  <2>2. IsPart(n, [p.parts[n] EXCEPT !.descriptor = 1])
    BY DEF IsPackage, IsPart
  <2> QED BY <2>1, <2>2, WithPartIsPackage
<1>4. CASE q \in {WithPart(p, n, [p.parts[n] EXCEPT !.at = @ + 1]) : n \in DOMAIN p.parts}
  <2>1. PICK n \in DOMAIN p.parts : q = WithPart(p, n, [p.parts[n] EXCEPT !.at = @ + 1])
    BY <1>4
  <2>2. IsPart(n, [p.parts[n] EXCEPT !.at = @ + 1])
    BY DEF IsPackage, IsPart
  <2> QED BY <2>1, <2>2, WithPartIsPackage
<1>5. CASE q = [p EXCEPT !.central = @ + 1]
  <2>1. /\ DOMAIN q = DOMAIN p /\ q.parts = p.parts /\ q.central = p.central + 1
        /\ q.sheets = p.sheets /\ q.relations = p.relations
    BY <1>5 DEF IsPackage
  <2>2. q.central \in Nat
    BY <2>1 DEF IsPackage
  <2> QED BY <2>1, <2>2 DEF IsPackage
<1>6. CASE q \in {WithRelation(p, i, [p.relations[i] EXCEPT !.target = t]) :
                    i \in DOMAIN p.relations, t \in Targets}
  <2>1. PICK i \in DOMAIN p.relations, t \in Targets :
          q = WithRelation(p, i, [p.relations[i] EXCEPT !.target = t])
    BY <1>6
  <2>2. p.relations[i] \in Relations /\ t \in ResolvedTargets
    BY PackageAssumption DEF IsPackage
  <2>3. [p.relations[i] EXCEPT !.target = t] \in Relations
    BY <2>2 DEF Relations
  <2> QED BY <2>1, <2>3, WithRelationIsPackage
<1>7. CASE q \in {WithRelation(p, i, [p.relations[i] EXCEPT !.id = r]) :
                    i \in DOMAIN p.relations, r \in RelationIds}
  <2>1. PICK i \in DOMAIN p.relations, r \in RelationIds :
          q = WithRelation(p, i, [p.relations[i] EXCEPT !.id = r])
    BY <1>7
  <2>2. p.relations[i] \in Relations
    BY DEF IsPackage
  <2>3. [p.relations[i] EXCEPT !.id = r] \in Relations
    BY <2>2 DEF Relations
  <2> QED BY <2>1, <2>3, WithRelationIsPackage
<1>8. CASE q \in {WithSheetAt(p, i, [p.sheets[i] EXCEPT !.name = s]) :
                    i \in DOMAIN p.sheets, s \in SheetNames}
  <2>1. PICK i \in DOMAIN p.sheets, s \in SheetNames :
          q = WithSheetAt(p, i, [p.sheets[i] EXCEPT !.name = s])
    BY <1>8, SMTT(30)
  <2> PICK sheet : sheet = [p.sheets[i] EXCEPT !.name = s]
    OBVIOUS
  <2>2. p.sheets \in Seq(Sheets) /\ p.sheets[i] \in Sheets
    BY DEF IsPackage
  <2>3. sheet \in Sheets
    BY <2>2 DEF Sheets
  <2>4. /\ DOMAIN q = DOMAIN p /\ q.parts = p.parts /\ q.central = p.central
        /\ q.relations = p.relations
        /\ q.sheets = [p.sheets EXCEPT ![i] = sheet]
    BY <2>1 DEF WithSheetAt, IsPackage
  <2>5. q.sheets \in Seq(Sheets)
    BY <2>2, <2>3, <2>4
  <2> QED BY <2>4, <2>5 DEF IsPackage
<1>9. CASE q \in {WithSheet(p, s, r, t) : s \in SheetNames, r \in RelationIds, t \in Targets}
  <2>1. PICK s \in SheetNames, r \in RelationIds, t \in Targets : q = WithSheet(p, s, r, t)
    BY <1>9
  <2>2. /\ [name |-> s, id |-> r] \in Sheets
        /\ [id |-> r, type |-> "worksheet", target |-> t] \in Relations
    BY PackageAssumption DEF Sheets, Relations
  <2>3. /\ DOMAIN q = DOMAIN p /\ q.parts = p.parts /\ q.central = p.central
        /\ q.sheets = Append(p.sheets, [name |-> s, id |-> r])
        /\ q.relations = Append(p.relations, [id |-> r, type |-> "worksheet", target |-> t])
    BY <2>1 DEF WithSheet, IsPackage
  <2>4. q.sheets \in Seq(Sheets) /\ q.relations \in Seq(Relations)
    BY <2>2, <2>3 DEF IsPackage
  <2> QED BY <2>3, <2>4 DEF IsPackage
<1>10. CASE q \in {[p EXCEPT !.wrapper = w] : w \in {"none", "single", "several"}}
  BY <1>10 DEF IsPackage
<1>11. q \in ChangedParts(p) => IsPackage(q)
  BY <1>1, <1>2, <1>16 DEF ChangedParts
<1>15. q \in ChangedRecords(p) => IsPackage(q)
  BY <1>3, <1>4 DEF ChangedRecords
<1>12. q \in ChangedSheets(p) => IsPackage(q)
  BY <1>8, <1>9 DEF ChangedSheets
<1>13. q \in ChangedRelations(p) => IsPackage(q)
  BY <1>6, <1>7 DEF ChangedRelations
<1>14. q \in ChangedArchive(p) => IsPackage(q)
  BY <1>5, <1>10 DEF ChangedArchive
<1> QED BY <1>11, <1>12, <1>13, <1>14, <1>15 DEF Changed

-----------------------------------------------------------------------------
(* What was matched was matched by the checks, on the package that is      *)
(* still there: nothing changes it once inspect has begun.                 *)
InspectedAsIs ==
  /\ IsPackage(package)
  /\ inspection.matched # NoSchema =>
       /\ Accepted(package)
       /\ inspection.matched = Matched(package, Shape(package))

LEMMA InspectedInitially == XlsxInit => InspectedAsIs
BY PackageAssumption DEF XlsxInit, InspectedAsIs, Pending

LEMMA InspectedStays == InspectedAsIs /\ [XlsxNext]_xlsxVars => InspectedAsIs'
<1> SUFFICES ASSUME InspectedAsIs, [XlsxNext]_xlsxVars PROVE InspectedAsIs'
  OBVIOUS
<1>1. CASE Inspect
  <2>1. package' = package
    BY <1>1 DEF Inspect
  <2>2. inspection'.matched # NoSchema =>
          Accepted(package) /\ inspection'.matched = Matched(package, Shape(package))
    BY <1>1 DEF Inspect
  <2> QED BY <2>1, <2>2 DEF InspectedAsIs
<1>2. CASE ChangePackage
  <2>1. IsPackage(package')
    BY <1>2, ChangedIsPackage DEF ChangePackage, InspectedAsIs
  <2>2. inspection'.matched = NoSchema
    BY <1>2 DEF ChangePackage, Pending
  <2> QED BY <2>1, <2>2 DEF InspectedAsIs
<1>3. CASE UNCHANGED xlsxVars
  BY <1>3 DEF InspectedAsIs, xlsxVars
<1> QED BY <1>1, <1>2, <1>3 DEF XlsxNext

LEMMA MatchedByASchema ==
  ASSUME NEW p, Matched(p, Shape(p)) # NoSchema
  PROVE  \E s \in Matches(p, Shape(p)) : s.id = Matched(p, Shape(p))
<1> PICK M : M = Matches(p, Shape(p))
  OBVIOUS
<1>1. Cardinality(M) = 1 /\ Matched(p, Shape(p)) = (CHOOSE s \in M : TRUE).id
  BY DEF Matched
<1>2. M # {}
  BY <1>1, FS_EmptySet
<1> QED BY <1>1, <1>2

(* When inspect matches a schema, the parts tile the archive and all       *)
(* content of the package is in the one worksheet that the schema          *)
(* describes, for every package and every number of changes to it.  The    *)
(* strings of xl/sharedStrings.xml are content; of strings in a part of    *)
(* that name in another letter case, which a package may have, nothing is  *)
(* said.                                                                   *)
THEOREM MatchedHoldsNothingElse == XlsxSpec => []MatchedIsAllThereIs
<1>1. InspectedAsIs => MatchedIsAllThereIs
  <2> SUFFICES ASSUME InspectedAsIs, inspection.matched # NoSchema
               PROVE  /\ \A b \in 0..(package.central - 1) :
                           Cardinality({n \in DOMAIN package.parts :
                                          b \in Span(package.parts[n])}) = 1
                      /\ \E s \in Schemas : s.id = inspection.matched /\ Describes(s, package)
    BY DEF MatchedIsAllThereIs
  <2>1. /\ IsPackage(package) /\ Accepted(package)
        /\ inspection.matched = Matched(package, Shape(package))
    BY DEF InspectedAsIs
  <2>2. \A b \in 0..(package.central - 1) :
          Cardinality({n \in DOMAIN package.parts : b \in Span(package.parts[n])}) = 1
    BY <2>1, TilesCover DEF Accepted
  <2>3. PICK s \in Matches(package, Shape(package)) : s.id = inspection.matched
    BY <2>1, MatchedByASchema
  <2>4. s \in Schemas
    BY DEF Matches, Candidates
  <2>5. Describes(s, package)
    BY <2>1, MatchedDescribes
  <2> QED BY <2>2, <2>3, <2>4, <2>5
<1> QED BY <1>1, InspectedInitially, InspectedStays, PTL DEF XlsxSpec
=============================================================================
