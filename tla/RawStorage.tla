---------------------------- MODULE RawStorage ----------------------------
(***************************************************************************)
(* Uploads of one tenant, from UploadReceiptRegistry through               *)
(* LocalRawStorage to the verdict of CsvSchemaGate.  The registry lives in *)
(* memory, contents and records are files; the process may crash between   *)
(* any two writes, any write may fail before or after its os.replace, and  *)
(* someone else may damage a content file.                                 *)
(***************************************************************************)
EXTENDS Integers, FiniteSets

CONSTANTS
  Threads,
  Digests,        \* SHA-256 of uploaded bytes
  RawIds,         \* uuid4 ids
  NoThread, NoJob, NoRecord,
  Kind,           \* what the schema gate makes of the bytes of a digest
  Bound           \* bound: uploads, crashes, faults, damages

Kinds == {"MATCHED", "UNKNOWN", "MALFORMED"}
Terminal == {"VALID", "QUARANTINED", "REJECTED"}
States == {"RECEIVED", "VALIDATING"} \cup Terminal

Records == [digest : Digests, state : States]
Steps == {"store", "record", "mark", "read", "detect", "decide", "reject"}
Jobs == [step : Steps, id : RawIds, digest : Digests, verdict : Terminal]
Bounds == [uploads : Nat, crashes : Nat, faults : Nat, damages : Nat]

ASSUME KindAssumption == Kind \in [Digests -> Kinds]
ASSUME BoundAssumption == Bound \in Bounds
ASSUME NoRecordAssumption == NoRecord \notin Records
ASSUME NoJobAssumption == NoJob \notin Jobs
ASSUME NoThreadAssumption == NoThread \notin Threads

VARIABLES
  registry,    \* UploadReceiptRegistry: raw id of each digest received
  content,     \* content file of each digest
  meta,        \* record file of each raw id
  lock,        \* thread inside the storage lock of this root
  job,         \* what each thread is doing
  left,        \* how much of Bound is left
  damaged      \* history: digests whose content file was damaged

vars == <<registry, content, meta, lock, job, left, damaged>>
disk == <<content, meta>>

Job(step, id, d, verdict) ==
  [step |-> step, id |-> id, digest |-> d, verdict |-> verdict]

Init ==
  /\ registry = [d \in {} |-> d]
  /\ content = [d \in Digests |-> "none"]
  /\ meta = [id \in RawIds |-> NoRecord]
  /\ lock = NoThread
  /\ job = [t \in Threads |-> NoJob]
  /\ left = Bound
  /\ damaged = {}

At(t, step) == job[t] # NoJob /\ job[t].step = step
Ends(t) == job' = [job EXCEPT ![t] = NoJob]
Goes(t, step) == job' = [job EXCEPT ![t].step = step]
Spend(what) ==
  /\ left[what] > 0
  /\ left' = [left EXCEPT ![what] = @ - 1]

-----------------------------------------------------------------------------
(* UploadReceiptRegistry.receive: the id these bytes have, or a new one.   *)
Receive(t, d) ==
  /\ job[t] = NoJob
  /\ Spend("uploads")
  /\ \/ d \in DOMAIN registry
        /\ job' = [job EXCEPT ![t] = Job("store", registry[d], d, "REJECTED")]
        /\ UNCHANGED registry
     \/ /\ d \notin DOMAIN registry
        /\ \E id \in {i \in RawIds : meta[i] = NoRecord} :
             /\ \A e \in DOMAIN registry : registry[e] # id
             /\ registry' = [e \in DOMAIN registry \cup {d} |->
                               IF e = d THEN id ELSE registry[e]]
             /\ job' = [job EXCEPT ![t] = Job("store", id, d, "REJECTED")]
  /\ UNCHANGED <<disk, lock, damaged>>

(* store, first half, with the lock taken: a content file that is there    *)
(* must have the right bytes, one that is not is written.                  *)
StoreContent(t) ==
  /\ At(t, "store")
  /\ lock = NoThread
  /\ content[job[t].digest] # "damaged"
  /\ content' = [content EXCEPT ![job[t].digest] = "good"]
  /\ lock' = t
  /\ Goes(t, "record")
  /\ UNCHANGED <<registry, meta, left, damaged>>

(* Slip: a failed write of the content is not noticed.                     *)
StoreContentFailsUnnoticed(t) ==
  /\ At(t, "store")
  /\ lock = NoThread
  /\ content[job[t].digest] = "none"
  /\ Spend("faults")
  /\ lock' = t
  /\ Goes(t, "record")
  /\ UNCHANGED <<registry, disk, damaged>>

StoreContentFails(t) ==
  /\ At(t, "store")
  /\ lock = NoThread
  /\ \/ /\ content[job[t].digest] = "damaged"
        /\ UNCHANGED <<content, left>>
     \/ /\ content[job[t].digest] = "none"
        /\ Spend("faults")
        /\ \E c \in {"none", "good"} :
             content' = [content EXCEPT ![job[t].digest] = c]
  /\ Ends(t)
  /\ UNCHANGED <<registry, meta, lock, damaged>>

Received(t) == [digest |-> job[t].digest, state |-> "RECEIVED"]

(* store, second half: the record, unless the id has one already.          *)
StoreRecord(t) ==
  /\ At(t, "record")
  /\ meta' = [meta EXCEPT ![job[t].id] =
                IF @ = NoRecord THEN Received(t) ELSE @]
  /\ lock' = NoThread
  /\ Ends(t)
  /\ UNCHANGED <<registry, content, left, damaged>>

(* Slip: the storage lock is kept when the write raises.                   *)
StoreRecordFailsLocked(t) ==
  /\ At(t, "record")
  /\ meta[job[t].id] = NoRecord
  /\ Spend("faults")
  /\ Ends(t)
  /\ UNCHANGED <<registry, disk, lock, damaged>>

StoreRecordFails(t) ==
  /\ At(t, "record")
  /\ meta[job[t].id] = NoRecord
  /\ Spend("faults")
  /\ \E r \in {NoRecord, Received(t)} : meta' = [meta EXCEPT ![job[t].id] = r]
  /\ lock' = NoThread
  /\ Ends(t)
  /\ UNCHANGED <<registry, content, damaged>>

-----------------------------------------------------------------------------
(* CsvSchemaGate.inspect.  One thread at a time holds the validation lock  *)
(* of a raw id, but the storage lock is free between its steps.            *)
Inspecting(id) ==
  \E t \in Threads :
     job[t] # NoJob /\ job[t].id = id /\ job[t].step \notin {"store", "record"}

(* Slip: only a RECEIVED file can be inspected.                            *)
InspectBeginReceived(t, id) ==
  /\ job[t] = NoJob
  /\ meta[id] # NoRecord
  /\ meta[id].state = "RECEIVED"
  /\ ~Inspecting(id)
  /\ lock = NoThread
  /\ job' = [job EXCEPT ![t] = Job("mark", id, meta[id].digest, "REJECTED")]
  /\ UNCHANGED <<registry, disk, lock, left, damaged>>

(* A terminal record is returned as it is; otherwise the inspection goes   *)
(* on from the state it has read.                                          *)
InspectBegin(t, id) ==
  /\ job[t] = NoJob
  /\ meta[id] # NoRecord
  /\ meta[id].state \notin Terminal
  /\ ~Inspecting(id)
  /\ lock = NoThread
  /\ job' = [job EXCEPT ![t] =
               Job(IF meta[id].state = "RECEIVED" THEN "mark" ELSE "read",
                   id, meta[id].digest, "REJECTED")]
  /\ UNCHANGED <<registry, disk, lock, left, damaged>>

(* transition to VALIDATING; an I/O error here ends the call.              *)
InspectMark(t) ==
  /\ At(t, "mark")
  /\ lock = NoThread
  /\ meta' = [meta EXCEPT ![job[t].id].state = "VALIDATING"]
  /\ Goes(t, "read")
  /\ UNCHANGED <<registry, content, lock, left, damaged>>

InspectMarkFails(t) ==
  /\ At(t, "mark")
  /\ lock = NoThread
  /\ Spend("faults")
  /\ \E s \in {"RECEIVED", "VALIDATING"} :
       meta' = [meta EXCEPT ![job[t].id].state = s]
  /\ Ends(t)
  /\ UNCHANGED <<registry, content, lock, damaged>>

(* content_path: the bytes are there and have the right digest.            *)
InspectRead(t) ==
  /\ At(t, "read")
  /\ lock = NoThread
  /\ Goes(t, IF content[job[t].digest] = "good" THEN "detect" ELSE "reject")
  /\ UNCHANGED <<registry, disk, lock, left, damaged>>

(* Slip: the rows are not read once the header has matched.                *)
VerdictsOnHeader(t) ==
  LET kind == Kind[job[t].digest] IN
  IF content[job[t].digest] = "none" THEN {"REJECTED"}
  ELSE IF kind = "UNKNOWN" THEN {"QUARANTINED"} ELSE {"VALID"}

(* Slip: the status of the detection is stored as the state of the file.   *)
VerdictsAsDetected(t) == {Kind[job[t].digest]}

(* What detect_csv_schema and semantic_fingerprint conclude from the file, *)
(* which they open again without the lock.                                 *)
Verdicts(t) ==
  LET kind == Kind[job[t].digest] IN
  CASE content[job[t].digest] = "none" -> {"REJECTED"}
    [] content[job[t].digest] = "damaged" -> Terminal
    [] kind = "MATCHED" -> {"VALID"}
    [] kind = "UNKNOWN" -> {"QUARANTINED"}
    [] kind = "MALFORMED" -> {"REJECTED"}

InspectDetect(t) ==
  /\ At(t, "detect")
  /\ \E v \in Verdicts(t) :
       job' = [job EXCEPT ![t].verdict = v,
                          ![t].step = IF v = "REJECTED" THEN "reject" ELSE "decide"]
  /\ UNCHANGED <<registry, disk, lock, left, damaged>>

(* transition to VALID or QUARANTINED; an I/O error is caught and leads to *)
(* the transition to REJECTED, also when the record was already replaced.  *)
InspectDecide(t) ==
  /\ At(t, "decide")
  /\ lock = NoThread
  /\ meta' = [meta EXCEPT ![job[t].id].state = job[t].verdict]
  /\ Ends(t)
  /\ UNCHANGED <<registry, content, lock, left, damaged>>

InspectDecideFails(t) ==
  /\ At(t, "decide")
  /\ lock = NoThread
  /\ Spend("faults")
  /\ \E s \in {"VALIDATING", job[t].verdict} :
       meta' = [meta EXCEPT ![job[t].id].state = s]
  /\ job' = [job EXCEPT ![t].step = "reject", ![t].verdict = "REJECTED"]
  /\ UNCHANGED <<registry, content, lock, damaged>>

(* Slip: the error handler writes REJECTED over any state.                 *)
InspectRejectAnyState(t) ==
  /\ At(t, "reject")
  /\ lock = NoThread
  /\ meta' = [meta EXCEPT ![job[t].id].state = "REJECTED"]
  /\ Ends(t)
  /\ UNCHANGED <<registry, content, lock, left, damaged>>

(* transition to REJECTED, refused if the record is terminal by now.       *)
InspectReject(t) ==
  /\ At(t, "reject")
  /\ lock = NoThread
  /\ meta' = [meta EXCEPT ![job[t].id].state =
                IF @ = "VALIDATING" THEN "REJECTED" ELSE @]
  /\ Ends(t)
  /\ UNCHANGED <<registry, content, lock, left, damaged>>

InspectRejectFails(t) ==
  /\ At(t, "reject")
  /\ lock = NoThread
  /\ meta[job[t].id].state = "VALIDATING"
  /\ Spend("faults")
  /\ \E s \in {"VALIDATING", "REJECTED"} :
       meta' = [meta EXCEPT ![job[t].id].state = s]
  /\ Ends(t)
  /\ UNCHANGED <<registry, content, lock, damaged>>

-----------------------------------------------------------------------------
(* The process dies and is started again: what was in memory is gone.      *)
Crash ==
  /\ Spend("crashes")
  /\ registry' = [d \in {} |-> d]
  /\ lock' = NoThread
  /\ job' = [t \in Threads |-> NoJob]
  /\ UNCHANGED <<disk, damaged>>

(* Someone else removes or changes a content file.                         *)
Damage(d) ==
  /\ content[d] = "good"
  /\ Spend("damages")
  /\ \E c \in {"none", "damaged"} : content' = [content EXCEPT ![d] = c]
  /\ damaged' = damaged \cup {d}
  /\ UNCHANGED <<registry, meta, lock, job>>

Step(t) ==
  \/ StoreContent(t)
  \/ StoreContentFails(t)
  \/ StoreRecord(t)
  \/ StoreRecordFails(t)
  \/ InspectMark(t)
  \/ InspectMarkFails(t)
  \/ InspectRead(t)
  \/ InspectDetect(t)
  \/ InspectDecide(t)
  \/ InspectDecideFails(t)
  \/ InspectReject(t)
  \/ InspectRejectFails(t)

Next ==
  \/ \E t \in Threads, d \in Digests : Receive(t, d)
  \/ \E t \in Threads, id \in RawIds : InspectBegin(t, id)
  \/ \E t \in Threads : Step(t)
  \/ Crash
  \/ \E d \in Digests : Damage(d)

(* A thread that is in a call goes on, and the application asks again for  *)
(* the verdict on a file that has none.  Uploads, faults and crashes are   *)
(* bounded, so the storage lock is not taken away for ever.                *)
Fairness ==
  /\ \A t \in Threads : WF_vars(Step(t))
  /\ \A id \in RawIds : WF_vars(\E t \in Threads : InspectBegin(t, id))

Spec == Init /\ [][Next]_vars /\ Fairness

-----------------------------------------------------------------------------
(* Every variable has its type.                                            *)
TypeOK ==
  /\ registry \in [DOMAIN registry -> RawIds] /\ DOMAIN registry \subseteq Digests
  /\ content \in [Digests -> {"none", "good", "damaged"}]
  /\ meta \in [RawIds -> Records \cup {NoRecord}]
  /\ lock \in Threads \cup {NoThread}
  /\ job \in [Threads -> Jobs \cup {NoJob}]
  /\ left \in Bounds
  /\ damaged \subseteq Digests

(* A record is never without its content, unless someone damaged it: the   *)
(* content is written first, through crashes and failed writes.            *)
RecordHasContent ==
  \A id \in RawIds :
     meta[id] # NoRecord /\ meta[id].digest \notin damaged
       => content[meta[id].digest] = "good"

(* The gate fails closed: whatever write or process fails while it works,  *)
(* a file is VALID only if its schema matched and its rows were readable,  *)
(* and QUARANTINED only if its schema is unknown.                          *)
GateFailsClosed ==
  \A id \in RawIds :
     meta[id] # NoRecord /\ meta[id].digest \notin damaged =>
       /\ meta[id].state = "VALID" => Kind[meta[id].digest] = "MATCHED"
       /\ meta[id].state = "QUARANTINED" => Kind[meta[id].digest] = "UNKNOWN"

(* A record keeps its digest and only advances; a verdict is never taken   *)
(* back, by a retried store, a second inspection, a caught error or a      *)
(* restart.                                                                *)
Stage(s) ==
  CASE s = "RECEIVED" -> 1 [] s = "VALIDATING" -> 2 [] OTHER -> 3
VerdictsStand ==
  [][\A id \in RawIds :
       meta[id] # NoRecord =>
         /\ meta'[id] # NoRecord
         /\ meta'[id].digest = meta[id].digest
         /\ Stage(meta'[id].state) >= Stage(meta[id].state)
         /\ meta[id].state \in Terminal => meta'[id].state = meta[id].state]_vars

(* A file that was stored gets its verdict, although inspections crash in  *)
(* the middle and leave it VALIDATING.                                     *)
EveryFileDecided ==
  \A id \in RawIds :
     meta[id] # NoRecord ~> (meta[id] # NoRecord /\ meta[id].state \in Terminal)

(* Every call comes to its end: the two kinds of lock never block each     *)
(* other.                                                                  *)
EveryCallReturns == \A t \in Threads : job[t] # NoJob ~> job[t] = NoJob
=============================================================================
