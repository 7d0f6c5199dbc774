------------------------ MODULE ProofPipelineProofs ------------------------
(***************************************************************************)
(* Proofs about ObjectStore and ProofPipeline, for any number of writers   *)
(* in processes of their own, keys, files and rows, inodes and crashes.    *)
(***************************************************************************)
EXTENDS ProofPipeline, FiniteSetTheorems, TLAPS

-----------------------------------------------------------------------------
(* The object store.  An inode has at most one temporary name; the file a  *)
(* writer is filling is the one under its temporary name and no key leads  *)
(* to it, and it is complete when the writer is about to link it.          *)
Jobs ==
  [put : Puts, inode : Inodes \cup {NoInode}, step : PutSteps \cup {"done"}, answer : Answers]

StoreType ==
  /\ destination \in [Keys -> Inodes \cup {NoInode}]
  /\ temporary \in [Keys \X Pids -> Inodes \cup {NoInode}]
  /\ data \in [Inodes -> Bytes \cup {Partial}]
  /\ putting \in [Writers -> Jobs \cup {NoJob}]

OneTempName ==
  \A n, m \in Keys \X Pids : temporary[n] = temporary[m] /\ temporary[n] # NoInode => n = m

ObjectsComplete == \A k \in Keys : destination[k] # NoInode => data[destination[k]] \in Bytes

WriterKnows(w) ==
  LET job == putting[w] IN
  /\ job.step \in {"write", "link"} =>
       /\ job.inode \in Inodes
       /\ temporary[TempName(w)] = job.inode
       /\ \A k \in Keys : destination[k] # job.inode
  /\ job.step = "link" => data[job.inode] = Put(w).expected
  /\ job.answer = "stored" =>
       /\ job.step \in {"unlink", "done"}
       /\ Object(Put(w).key) = Put(w).expected
       /\ destination[Put(w).key] # NoInode

StoreInv ==
  /\ StoreType
  /\ OneTempName
  /\ ObjectsComplete
  /\ \A w \in Writers : putting[w] # NoJob => WriterKnows(w)

(* What a step of the store may do to the objects and acknowledgements, in *)
(* the words of the abstract store.                                        *)
Promised == [WriteOnce!Next]_<<[k \in Keys |-> Object(k)], acknowledged>>

(* Objects are not touched, whatever else a step does.                     *)
ObjectsStay ==
  \A k \in Keys : destination[k] # NoInode =>
    destination'[k] = destination[k] /\ data'[destination[k]] = data[destination[k]]

-----------------------------------------------------------------------------
LEMMA TempNamesDiffer ==
  ASSUME NEW v \in Writers, NEW w \in Writers, v # w
  PROVE  TempName(v) # TempName(w)
BY PidAssumption DEF TempName

LEMMA JobFacts ==
  ASSUME StoreType, NEW w \in Writers, putting[w] # NoJob
  PROVE  /\ putting[w] \in Jobs
         /\ Put(w).key \in Keys /\ Put(w).expected \in Bytes /\ Put(w).stream \in Bytes
         /\ TempName(w) \in Keys \X Pids
BY DEF StoreType, Jobs, Puts, Put, TempName, Pids

(* The objects a step leaves alone stutter in the abstract store.          *)
LEMMA SameObjects ==
  ASSUME destination' = destination, ObjectsStay, acknowledged' = acknowledged
  PROVE  Promised
<1>1. \A k \in Keys : Object(k)' = Object(k)
  BY DEF Object, ObjectsStay
<1>2. [k \in Keys |-> Object(k)]' = [k \in Keys |-> Object(k)]
  BY <1>1
<1> QED BY <1>2 DEF Promised

LEMMA StoreInitInv == StoreInit => StoreInv
<1> SUFFICES ASSUME StoreInit PROVE StoreInv
  OBVIOUS
<1>1. StoreType
  BY DEF StoreInit, StoreType
<1>2. OneTempName /\ ObjectsComplete
  BY DEF StoreInit, OneTempName, ObjectsComplete
<1> QED BY <1>1, <1>2 DEF StoreInit, StoreInv

LEMMA PutBeginStep ==
  ASSUME StoreInv, NEW w \in Writers, NEW put \in Puts, PutBegin(w, put)
  PROVE  StoreInv' /\ ObjectsStay /\ Promised
<1> DEFINE taken == destination[put.key] # NoInode
           job == [put |-> put, inode |-> NoInode,
                   step |-> IF taken THEN "done" ELSE "open",
                   answer |-> IF taken THEN Compared(put.key, put.expected) ELSE "failed"]
<1>0. /\ putting' = [putting EXCEPT ![w] = job]
      /\ UNCHANGED <<destination, temporary, data, acknowledged>>
  BY DEF PutBegin
<1>1. /\ job \in Jobs /\ job.put = put
      /\ job.step \in {"done", "open"}
      /\ job.answer = "stored" => taken /\ data[destination[put.key]] = put.expected
                                        /\ job.step = "done"
  BY DEF Jobs, PutSteps, Answers, Compared
<1> HIDE DEF job
<1>2. StoreType'
  BY <1>0, <1>1 DEF StoreInv, StoreType
<1>3. putting'[w] = job /\ \A v \in Writers \ {w} : putting'[v] = putting[v]
  BY <1>0 DEF StoreInv, StoreType
<1>4. ASSUME NEW v \in Writers, putting'[v] # NoJob PROVE WriterKnows(v)'
  <2>1. CASE v = w
    BY <1>0, <1>1, <1>3, <2>1 DEF WriterKnows, Put, Object
  <2>2. CASE v # w
    BY <1>0, <1>3, <1>4, <2>2 DEF StoreInv, WriterKnows, Put, Object, TempName
  <2> QED BY <2>1, <2>2
<1>5. ObjectsStay
  BY <1>0 DEF ObjectsStay
<1> QED BY <1>0, <1>2, <1>4, <1>5, SameObjects DEF StoreInv, OneTempName, ObjectsComplete

(* A step of put_immutable that goes on to the finally clause.             *)
LEMMA GoesWithFacts ==
  ASSUME StoreInv, NEW w \in Writers, putting[w] # NoJob, NEW answer \in Answers,
         GoesWith(w, answer)
  PROVE  /\ putting' \in [Writers -> Jobs \cup {NoJob}]
         /\ \A v \in Writers \ {w} : putting'[v] = putting[v]
         /\ putting'[w] # NoJob => /\ putting'[w].put = putting[w].put
                                   /\ putting'[w].step = "unlink"
                                   /\ putting'[w].answer = answer
<1>1. putting[w] \in Jobs /\ putting \in [Writers -> Jobs \cup {NoJob}]
  BY DEF StoreInv, StoreType
<1> DEFINE job == [[putting[w] EXCEPT !.step = "unlink"] EXCEPT !.answer = answer]
<1>2. /\ job \in Jobs /\ job.put = putting[w].put
      /\ job.step = "unlink" /\ job.answer = answer
  BY <1>1 DEF Jobs, PutSteps
<1>3. putting' = [putting EXCEPT ![w] = job]
  BY <1>1 DEF GoesWith
<1> HIDE DEF job
<1> QED BY <1>1, <1>2, <1>3

(* Writers other than w know what they knew when nothing of theirs moves.  *)
LEMMA OthersKnow ==
  ASSUME StoreInv, NEW w \in Writers, NEW v \in Writers, v # w,
         putting[v] # NoJob, putting'[v] = putting[v], ObjectsStay,
         temporary'[TempName(v)] = temporary[TempName(v)],
         putting[v].step \in {"write", "link"} =>
           /\ data'[putting[v].inode] = data[putting[v].inode]
           /\ \A k \in Keys : destination'[k] # putting[v].inode
  PROVE  WriterKnows(v)'
<1>1. WriterKnows(v) /\ Put(v).key \in Keys
  BY JobFacts DEF StoreInv
<1>2. /\ Put(v)' = Put(v) /\ TempName(v)' = TempName(v)
      /\ temporary'[TempName(v)'] = temporary[TempName(v)]
  BY DEF Put, TempName
<1>3. destination[Put(v).key] # NoInode =>
        Object(Put(v).key)' = Object(Put(v).key) /\ destination'[Put(v).key] # NoInode
  BY <1>1, <1>2 DEF ObjectsStay, Object
<1> QED BY <1>1, <1>2, <1>3 DEF WriterKnows

LEMMA PutOpenStep ==
  ASSUME StoreInv, NEW w \in Writers, PutOpen(w)
  PROVE  StoreInv' /\ ObjectsStay /\ Promised
<1>0. /\ putting[w] # NoJob /\ putting[w].step = "open"
      /\ destination' = destination /\ acknowledged' = acknowledged
  BY DEF PutOpen, At
<1>1. putting[w] \in Jobs /\ TempName(w) \in Keys \X Pids
  BY <1>0, JobFacts DEF StoreInv
<1>2. CASE GoesWith(w, "failed") /\ UNCHANGED <<temporary, data>>
  <2>1. /\ putting' \in [Writers -> Jobs \cup {NoJob}]
        /\ \A v \in Writers \ {w} : putting'[v] = putting[v]
        /\ putting'[w] # NoJob => /\ putting'[w].step = "unlink"
                                  /\ putting'[w].answer = "failed"
    BY <1>0, <1>2, GoesWithFacts DEF Answers
  <2>2. ObjectsStay
    BY <1>0, <1>2 DEF ObjectsStay
  <2>3. ASSUME NEW v \in Writers, putting'[v] # NoJob PROVE WriterKnows(v)'
    <3>1. CASE v = w
      BY <2>1, <2>3, <3>1 DEF WriterKnows
    <3>2. CASE v # w
      BY <1>0, <1>2, <2>1, <2>3, <3>2 DEF StoreInv, WriterKnows, Put, Object, TempName
    <3> QED BY <3>1, <3>2
  <2> QED BY <1>0, <1>2, <2>1, <2>2, <2>3, SameObjects
          DEF StoreInv, StoreType, OneTempName, ObjectsComplete
<1>3. CASE \E i \in Inodes \ InUse :
             /\ temporary' = [temporary EXCEPT ![TempName(w)] = i]
             /\ data' = [data EXCEPT ![i] = Partial]
             /\ putting' = [putting EXCEPT ![w].step = "write", ![w].inode = i]
  <2>1. PICK i \in Inodes \ InUse :
             /\ temporary' = [temporary EXCEPT ![TempName(w)] = i]
             /\ data' = [data EXCEPT ![i] = Partial]
             /\ putting' = [putting EXCEPT ![w].step = "write", ![w].inode = i]
    BY <1>3
  <2>2. /\ \A k \in Keys : destination[k] # i
        /\ \A n \in Keys \X Pids : temporary[n] # i
        /\ \A v \in Writers : putting[v] # NoJob => putting[v].inode # i
    BY DEF InUse
  <2> DEFINE job == [[putting[w] EXCEPT !.step = "write"] EXCEPT !.inode = i]
  <2>3. /\ job \in Jobs /\ job.put = putting[w].put /\ job.step = "write"
        /\ job.inode = i /\ job.answer = putting[w].answer
    BY <1>1 DEF Jobs, PutSteps
  <2>4. putting' = [putting EXCEPT ![w] = job]
    BY <1>0, <1>1, <2>1 DEF StoreInv, StoreType
  <2> HIDE DEF job
  <2>5. putting'[w] = job /\ \A v \in Writers \ {w} : putting'[v] = putting[v]
    BY <2>4 DEF StoreInv, StoreType
  <2>6. /\ temporary'[TempName(w)] = i
        /\ \A n \in Keys \X Pids : n # TempName(w) => temporary'[n] = temporary[n]
        /\ \A j \in Inodes : j # i => data'[j] = data[j]
    BY <1>1, <2>1 DEF StoreInv, StoreType
  <2>7. StoreType'
    <3>1. putting' \in [Writers -> Jobs \cup {NoJob}]
      BY <2>3, <2>4 DEF StoreInv, StoreType
    <3>2. temporary' \in [Keys \X Pids -> Inodes \cup {NoInode}]
      BY <2>1 DEF StoreInv, StoreType
    <3>3. data' \in [Inodes -> Bytes \cup {Partial}]
      BY <2>1 DEF StoreInv, StoreType
    <3> QED BY <1>0, <3>1, <3>2, <3>3 DEF StoreInv, StoreType
  <2>8. OneTempName'
    BY <1>1, <2>2, <2>6 DEF StoreInv, OneTempName
  <2>9. ObjectsStay
    BY <1>0, <2>2, <2>6 DEF StoreInv, StoreType, ObjectsStay
  <2>10. ObjectsComplete'
    BY <1>0, <2>9 DEF StoreInv, ObjectsComplete, ObjectsStay
  <2>11. ASSUME NEW v \in Writers, putting'[v] # NoJob PROVE WriterKnows(v)'
    <3>1. CASE v = w
      <4>1. TempName(w)' = TempName(w)
        BY <2>3, <2>5 DEF TempName, Put
      <4>2. putting[w].answer # "stored"
        BY <1>0 DEF StoreInv, WriterKnows
      <4> QED BY <1>0, <2>2, <2>3, <2>5, <2>6, <3>1, <4>1, <4>2 DEF WriterKnows
    <3>2. CASE v # w
      <4>1. putting[v] # NoJob /\ putting'[v] = putting[v]
        BY <2>5, <2>11, <3>2
      <4>2. temporary'[TempName(v)] = temporary[TempName(v)]
        BY <2>6, <3>2, <4>1, JobFacts, TempNamesDiffer DEF StoreInv
      <4>3. putting[v].step \in {"write", "link"} =>
              /\ data'[putting[v].inode] = data[putting[v].inode]
              /\ \A k \in Keys : destination'[k] # putting[v].inode
        BY <1>0, <2>2, <2>6, <4>1 DEF StoreInv, WriterKnows
      <4> QED BY <2>9, <3>2, <4>1, <4>2, <4>3, OthersKnow
    <3> QED BY <3>1, <3>2
  <2> QED BY <1>0, <2>7, <2>8, <2>9, <2>10, <2>11, SameObjects DEF StoreInv
<1> QED BY <1>2, <1>3 DEF PutOpen

LEMMA PutWriteStep ==
  ASSUME StoreInv, NEW w \in Writers, PutWrite(w)
  PROVE  StoreInv' /\ ObjectsStay /\ Promised
<1> DEFINE inode == putting[w].inode
<1>0. /\ putting[w] # NoJob /\ putting[w].step = "write"
      /\ destination' = destination /\ temporary' = temporary /\ acknowledged' = acknowledged
  BY DEF PutWrite, At
<1>1. /\ putting[w] \in Jobs /\ TempName(w) \in Keys \X Pids
      /\ Put(w).stream \in Bytes /\ Put(w).key \in Keys
  BY <1>0, JobFacts DEF StoreInv
<1>2. /\ inode \in Inodes /\ temporary[TempName(w)] = inode
      /\ \A k \in Keys : destination[k] # inode
      /\ putting[w].answer # "stored"
  BY <1>0 DEF StoreInv, WriterKnows
<1>3. /\ data' \in [Inodes -> Bytes \cup {Partial}]
      /\ \A j \in Inodes : j # inode => data'[j] = data[j]
  BY <1>1, <1>2 DEF PutWrite, StoreInv, StoreType
<1>4. /\ putting' \in [Writers -> Jobs \cup {NoJob}]
      /\ \A v \in Writers \ {w} : putting'[v] = putting[v]
      /\ putting'[w] # NoJob =>
           /\ putting'[w].put = putting[w].put
           /\ putting'[w].answer # "stored"
           /\ \/ putting'[w].step = "unlink"
              \/ /\ putting'[w].step = "link" /\ putting'[w].inode = inode
                 /\ data'[inode] = Put(w).expected
  <2>1. \A a \in {"mismatch", "failed"} : GoesWith(w, a) =>
          /\ putting' \in [Writers -> Jobs \cup {NoJob}]
          /\ \A v \in Writers \ {w} : putting'[v] = putting[v]
          /\ putting'[w] # NoJob => /\ putting'[w].put = putting[w].put
                                    /\ putting'[w].step = "unlink"
                                    /\ putting'[w].answer # "stored"
    BY <1>0, GoesWithFacts DEF Answers
  <2>2. CASE \E a \in {"mismatch", "failed"} : GoesWith(w, a)
    BY <2>1, <2>2
  <2>3. CASE /\ data' = [data EXCEPT ![inode] = Put(w).stream]
             /\ Put(w).stream = Put(w).expected /\ Goes(w, "link")
    <3> DEFINE job == [putting[w] EXCEPT !.step = "link"]
    <3>1. /\ job \in Jobs /\ job.put = putting[w].put /\ job.inode = inode
          /\ job.answer = putting[w].answer /\ job.step = "link"
      BY <1>1 DEF Jobs, PutSteps
    <3>2. putting' = [putting EXCEPT ![w] = job]
      BY <2>3 DEF Goes
    <3>3. data'[inode] = Put(w).expected
      BY <1>2, <2>3 DEF StoreInv, StoreType
    <3> HIDE DEF job
    <3> QED BY <1>2, <3>1, <3>2, <3>3 DEF StoreInv, StoreType
  <2> QED BY <2>2, <2>3 DEF PutWrite
<1>5. ObjectsStay
  BY <1>0, <1>2, <1>3 DEF StoreInv, StoreType, ObjectsStay
<1>6. StoreType' /\ OneTempName' /\ ObjectsComplete'
  BY <1>0, <1>3, <1>4, <1>5 DEF StoreInv, StoreType, OneTempName, ObjectsComplete, ObjectsStay
<1>7. ASSUME NEW v \in Writers, putting'[v] # NoJob PROVE WriterKnows(v)'
  <2>1. CASE v = w
    <3>1. Put(w)' = Put(w) /\ TempName(w)' = TempName(w)
      BY <1>4, <1>7, <2>1 DEF TempName, Put
    <3> QED BY <1>0, <1>2, <1>4, <1>7, <2>1, <3>1 DEF WriterKnows
  <2>2. CASE v # w
    <3>1. putting[v] # NoJob /\ putting'[v] = putting[v]
      BY <1>4, <1>7, <2>2
    <3>2. TempName(v) \in Keys \X Pids /\ TempName(v) # TempName(w)
      BY <2>2, <3>1, JobFacts, TempNamesDiffer DEF StoreInv
    <3>3. putting[v].step \in {"write", "link"} =>
            /\ putting[v].inode \in Inodes /\ temporary[TempName(v)] = putting[v].inode
            /\ \A k \in Keys : destination[k] # putting[v].inode
      BY <3>1 DEF StoreInv, WriterKnows
    <3>4. putting[v].step \in {"write", "link"} => putting[v].inode # inode
      BY <1>1, <1>2, <3>2, <3>3, NoInodeAssumption DEF StoreInv, OneTempName
    <3> QED BY <1>0, <1>3, <1>5, <2>2, <3>1, <3>3, <3>4, OthersKnow
  <2> QED BY <2>1, <2>2
<1> QED BY <1>0, <1>5, <1>6, <1>7, SameObjects DEF StoreInv

LEMMA PutLinkStep ==
  ASSUME StoreInv, NEW w \in Writers, PutLink(w)
  PROVE  StoreInv' /\ ObjectsStay /\ Promised
<1> DEFINE inode == putting[w].inode
           key == Put(w).key
<1>0. /\ putting[w] # NoJob /\ putting[w].step = "link"
      /\ temporary' = temporary /\ data' = data /\ acknowledged' = acknowledged
  BY DEF PutLink, At
<1>1. /\ putting[w] \in Jobs /\ TempName(w) \in Keys \X Pids
      /\ Put(w).expected \in Bytes /\ key \in Keys
  BY <1>0, JobFacts DEF StoreInv
<1>2. /\ inode \in Inodes /\ temporary[TempName(w)] = inode
      /\ \A k \in Keys : destination[k] # inode
      /\ data[inode] = Put(w).expected
  BY <1>0 DEF StoreInv, WriterKnows
<1>3. temporary[TempName(w)] # NoInode
  BY <1>2, NoInodeAssumption
<1>4. \A a \in Answers : GoesWith(w, a) =>
        /\ putting' \in [Writers -> Jobs \cup {NoJob}]
        /\ \A v \in Writers \ {w} : putting'[v] = putting[v]
        /\ putting'[w] # NoJob => /\ putting'[w].put = putting[w].put
                                  /\ putting'[w].step = "unlink"
                                  /\ putting'[w].answer = a
  BY <1>0, GoesWithFacts
<1>5. CASE destination[key] = NoInode
  <2>1. destination' = [destination EXCEPT ![key] = inode] /\ GoesWith(w, "stored")
    BY <1>2, <1>3, <1>5 DEF PutLink
  <2>2. /\ destination' \in [Keys -> Inodes \cup {NoInode}]
        /\ destination'[key] = inode
        /\ \A k \in Keys \ {key} : destination'[k] = destination[k]
    BY <1>1, <1>2, <2>1 DEF StoreInv, StoreType
  <2>3. /\ putting' \in [Writers -> Jobs \cup {NoJob}]
        /\ \A v \in Writers \ {w} : putting'[v] = putting[v]
        /\ putting'[w] # NoJob => /\ putting'[w].put = putting[w].put
                                  /\ putting'[w].step = "unlink"
    BY <1>4, <2>1 DEF Answers
  <2>4. StoreType' /\ OneTempName'
    BY <1>0, <2>2, <2>3 DEF StoreInv, StoreType, OneTempName
  <2>5. ObjectsStay
    BY <1>0, <1>5, <2>2 DEF ObjectsStay
  <2>6. ObjectsComplete'
    BY <1>0, <1>1, <1>2, <2>2 DEF StoreInv, ObjectsComplete
  <2>7. Object(key) = NoInode
    BY <1>5 DEF Object
  <2>8. ASSUME NEW v \in Writers, putting'[v] # NoJob PROVE WriterKnows(v)'
    <3>1. CASE v = w
      <4>1. Put(w)' = Put(w)
        BY <2>3, <2>8, <3>1 DEF Put
      <4>2. Object(Put(w).key)' = Put(w).expected
        BY <1>0, <1>2, <2>2, <4>1, NoInodeAssumption DEF Object
      <4>3. destination'[Put(w)'.key] # NoInode
        BY <1>2, <2>2, <4>1, NoInodeAssumption
      <4> QED BY <2>3, <2>8, <3>1, <4>1, <4>2, <4>3 DEF WriterKnows
    <3>2. CASE v # w
      <4>1. putting[v] # NoJob /\ putting'[v] = putting[v]
        BY <2>3, <2>8, <3>2
      <4>2. TempName(v) \in Keys \X Pids /\ TempName(v) # TempName(w)
        BY <3>2, <4>1, JobFacts, TempNamesDiffer DEF StoreInv
      <4>3. putting[v].step \in {"write", "link"} =>
              /\ putting[v].inode \in Inodes /\ temporary[TempName(v)] = putting[v].inode
              /\ \A k \in Keys : destination[k] # putting[v].inode
        BY <4>1 DEF StoreInv, WriterKnows
      <4>4. putting[v].step \in {"write", "link"} => putting[v].inode # inode
        BY <1>1, <1>2, <4>2, <4>3, NoInodeAssumption DEF StoreInv, OneTempName
      <4> QED BY <1>0, <2>2, <2>5, <3>2, <4>1, <4>3, <4>4, OthersKnow
    <3> QED BY <3>1, <3>2
  <2>9. Promised
    <3>1. \A k \in Keys \ {key} : Object(k)' = Object(k)
      BY <1>0, <2>2 DEF Object
    <3>2. [k \in Keys |-> Object(k)]' =
            [[k \in Keys |-> Object(k)] EXCEPT ![key] = Put(w).expected]
      <4>1. \A k \in Keys :
              Object(k)' = [[j \in Keys |-> Object(j)] EXCEPT ![key] = Put(w).expected][k]
        <5> SUFFICES ASSUME NEW k \in Keys
                     PROVE  Object(k)' =
                              [[j \in Keys |-> Object(j)] EXCEPT ![key] = Put(w).expected][k]
          OBVIOUS
        <5>1. CASE k = key
          <6>1. Object(k)' = Put(w).expected
            BY <1>0, <1>2, <2>2, <5>1, NoInodeAssumption DEF Object
          <6> QED BY <5>1, <6>1
        <5>2. CASE k # key
          BY <3>1, <5>2
        <5> QED BY <5>1, <5>2
      <4> QED BY <4>1
    <3>3. [k \in Keys |-> Object(k)][key] = NoInode
      BY <1>1, <2>7
    <3>4. WriteOnce!Store(key, Put(w).expected)
      BY <1>0, <3>2, <3>3 DEF WriteOnce!Store
    <3> QED BY <1>1, <3>4 DEF Promised, WriteOnce!Next
  <2> QED BY <2>4, <2>5, <2>6, <2>8, <2>9 DEF StoreInv
<1>6. CASE destination[key] # NoInode
  <2>1. destination' = destination /\ GoesWith(w, Compared(key, Put(w).expected))
    BY <1>3, <1>6 DEF PutLink
  <2>2. /\ Compared(key, Put(w).expected) \in Answers
        /\ Compared(key, Put(w).expected) = "stored" => data[destination[key]] = Put(w).expected
    BY DEF Compared, Answers
  <2>3. /\ putting' \in [Writers -> Jobs \cup {NoJob}]
        /\ \A v \in Writers \ {w} : putting'[v] = putting[v]
        /\ putting'[w] # NoJob =>
             /\ putting'[w].put = putting[w].put
             /\ putting'[w].step = "unlink"
             /\ putting'[w].answer = "stored" => data[destination[key]] = Put(w).expected
    BY <1>4, <2>1, <2>2
  <2>4. ObjectsStay
    BY <1>0, <2>1 DEF ObjectsStay
  <2>5. ASSUME NEW v \in Writers, putting'[v] # NoJob PROVE WriterKnows(v)'
    <3>1. CASE v = w
      <4>1. Put(w)' = Put(w)
        BY <2>3, <2>5, <3>1 DEF Put
      <4> QED BY <1>0, <1>6, <2>1, <2>3, <2>5, <3>1, <4>1 DEF WriterKnows, Object
    <3>2. CASE v # w
      BY <1>0, <2>1, <2>3, <2>5, <3>2 DEF StoreInv, WriterKnows, Put, Object, TempName
    <3> QED BY <3>1, <3>2
  <2> QED BY <1>0, <2>1, <2>3, <2>4, <2>5, SameObjects
          DEF StoreInv, StoreType, OneTempName, ObjectsComplete
<1> QED BY <1>5, <1>6

LEMMA PutUnlinkStep ==
  ASSUME StoreInv, NEW w \in Writers, PutUnlink(w)
  PROVE  StoreInv' /\ ObjectsStay /\ Promised
<1>0. /\ putting[w] # NoJob /\ putting[w].step = "unlink"
      /\ destination' = destination /\ data' = data /\ acknowledged' = acknowledged
      /\ temporary' = [temporary EXCEPT ![TempName(w)] = NoInode]
  BY DEF PutUnlink, At
<1>1. /\ putting[w] \in Jobs /\ TempName(w) \in Keys \X Pids
  BY <1>0, JobFacts DEF StoreInv
<1>2. /\ temporary' \in [Keys \X Pids -> Inodes \cup {NoInode}]
      /\ temporary'[TempName(w)] = NoInode
      /\ \A n \in Keys \X Pids : n # TempName(w) => temporary'[n] = temporary[n]
  BY <1>0, <1>1 DEF StoreInv, StoreType
<1> DEFINE job == [putting[w] EXCEPT !.step = "done"]
<1>3. /\ job \in Jobs /\ job.put = putting[w].put
      /\ job.answer = putting[w].answer /\ job.step = "done"
  BY <1>1 DEF Jobs
<1>4. putting' = [putting EXCEPT ![w] = job]
  BY DEF PutUnlink, Goes
<1> HIDE DEF job
<1>5. /\ putting' \in [Writers -> Jobs \cup {NoJob}] /\ putting'[w] = job
      /\ \A v \in Writers \ {w} : putting'[v] = putting[v]
  BY <1>3, <1>4 DEF StoreInv, StoreType
<1>6. OneTempName'
  BY <1>2 DEF StoreInv, OneTempName
<1>7. ObjectsStay
  BY <1>0 DEF ObjectsStay
<1>8. ASSUME NEW v \in Writers, putting'[v] # NoJob PROVE WriterKnows(v)'
  <2>1. CASE v = w
    <3>1. Put(w)' = Put(w)
      BY <1>3, <1>5 DEF Put
    <3>2. WriterKnows(w)
      BY <1>0 DEF StoreInv
    <3> QED BY <1>0, <1>3, <1>5, <2>1, <3>1, <3>2 DEF WriterKnows, Object
  <2>2. CASE v # w
    <3>1. putting[v] # NoJob /\ putting'[v] = putting[v]
      BY <1>5, <1>8, <2>2
    <3>2. temporary'[TempName(v)] = temporary[TempName(v)]
      BY <1>2, <2>2, <3>1, JobFacts, TempNamesDiffer DEF StoreInv
    <3>3. putting[v].step \in {"write", "link"} =>
            \A k \in Keys : destination[k] # putting[v].inode
      BY <3>1 DEF StoreInv, WriterKnows
    <3> QED BY <1>0, <1>7, <2>2, <3>1, <3>2, <3>3, OthersKnow
  <2> QED BY <2>1, <2>2
<1> QED BY <1>0, <1>2, <1>5, <1>6, <1>7, <1>8, SameObjects
        DEF StoreInv, StoreType, ObjectsComplete

LEMMA PutEndStep ==
  ASSUME StoreInv, NEW w \in Writers, PutEnd(w)
  PROVE  StoreInv' /\ ObjectsStay /\ Promised
<1>0. /\ putting[w] # NoJob
      /\ destination' = destination /\ data' = data /\ temporary' = temporary
      /\ putting' = [putting EXCEPT ![w] = NoJob]
  BY DEF PutEnd, At
<1>1. /\ Put(w).key \in Keys /\ Put(w).expected \in Bytes
  BY <1>0, JobFacts DEF StoreInv
<1>2. /\ putting' \in [Writers -> Jobs \cup {NoJob}] /\ putting'[w] = NoJob
      /\ \A v \in Writers \ {w} : putting'[v] = putting[v]
  BY <1>0 DEF StoreInv, StoreType
<1>3. ObjectsStay
  BY <1>0 DEF ObjectsStay
<1>4. StoreInv'
  BY <1>0, <1>2 DEF StoreInv, StoreType, OneTempName, ObjectsComplete,
                    WriterKnows, Put, Object, TempName
<1>5. Promised
  <2>1. CASE putting[w].answer = "stored"
    <3>1. Object(Put(w).key) = Put(w).expected
      BY <1>0, <2>1 DEF StoreInv, WriterKnows
    <3>2. [k \in Keys |-> Object(k)]' = [k \in Keys |-> Object(k)]
      BY <1>0 DEF Object
    <3>3. acknowledged' = acknowledged \cup {<<Put(w).key, Put(w).expected>>}
      BY <2>1 DEF PutEnd
    <3>4. WriteOnce!Acknowledge(Put(w).key, Put(w).expected)
      BY <1>1, <3>1, <3>2, <3>3 DEF WriteOnce!Acknowledge
    <3> QED BY <1>1, <3>4 DEF Promised, WriteOnce!Next
  <2>2. CASE putting[w].answer # "stored"
    <3>1. acknowledged' = acknowledged
      BY <2>2 DEF PutEnd
    <3> QED BY <1>0, <1>3, <3>1, SameObjects
  <2> QED BY <2>1, <2>2
<1> QED BY <1>3, <1>4, <1>5

LEMMA StoreCrashStep ==
  ASSUME StoreInv, NEW pid, StoreCrash(pid)
  PROVE  StoreInv' /\ ObjectsStay /\ Promised
<1>0. /\ destination' = destination /\ data' = data /\ temporary' = temporary
      /\ acknowledged' = acknowledged
      /\ putting' = [w \in Writers |-> IF Pid[w] = pid THEN NoJob ELSE putting[w]]
  BY DEF StoreCrash
<1>1. /\ putting' \in [Writers -> Jobs \cup {NoJob}]
      /\ \A v \in Writers : putting'[v] # NoJob => putting'[v] = putting[v]
  BY <1>0 DEF StoreInv, StoreType
<1>2. ObjectsStay
  BY <1>0 DEF ObjectsStay
<1>3. StoreInv'
  BY <1>0, <1>1 DEF StoreInv, StoreType, OneTempName, ObjectsComplete,
                    WriterKnows, Put, Object, TempName
<1> QED BY <1>0, <1>2, <1>3, SameObjects

LEMMA StoreStays ==
  ASSUME StoreInv, UNCHANGED storeVars
  PROVE  StoreInv' /\ ObjectsStay /\ Promised
<1>0. /\ destination' = destination /\ data' = data /\ temporary' = temporary
      /\ acknowledged' = acknowledged /\ putting' = putting
  BY DEF storeVars
<1>1. ObjectsStay
  BY <1>0 DEF ObjectsStay
<1>2. StoreInv'
  BY <1>0 DEF StoreInv, StoreType, OneTempName, ObjectsComplete,
              WriterKnows, Put, Object, TempName
<1> QED BY <1>0, <1>1, <1>2, SameObjects

-----------------------------------------------------------------------------
(* Every step of the pipeline is a step of the store or leaves it alone.   *)
LEMMA StoreNext ==
  ASSUME StoreInv, [Next]_vars
  PROVE  StoreInv' /\ ObjectsStay /\ Promised
<1>1. ASSUME NEW f \in Files, ImportStores(f) PROVE StoreInv' /\ ObjectsStay /\ Promised
  <2>1. [key |-> f, stream |-> f, expected |-> f] \in Puts
    BY <1>1, FilesAssumption DEF ImportStores, Puts
  <2> QED BY <1>1, <2>1, PutBeginStep, ImporterAssumption DEF ImportStores
<1>2. CASE ImportStored
  BY <1>2, PutEndStep, ImporterAssumption DEF ImportStored
<1>3. ASSUME NEW w \in Writers, NEW put \in OtherPuts, OtherPut(w, put)
      PROVE  StoreInv' /\ ObjectsStay /\ Promised
  BY <1>3, PutBeginStep, OtherPutsAssumption DEF OtherPut
<1>4. ASSUME NEW w \in Writers, StoreStep(w) PROVE StoreInv' /\ ObjectsStay /\ Promised
  BY <1>4, PutOpenStep, PutWriteStep, PutLinkStep, PutUnlinkStep, PutEndStep
     DEF StoreStep, PutStep
<1>5. ASSUME NEW pid \in Pids, OtherCrash(pid) PROVE StoreInv' /\ ObjectsStay /\ Promised
  BY <1>5, StoreCrashStep DEF OtherCrash
<1>6. CASE ImporterCrash
  BY <1>6, StoreCrashStep DEF ImporterCrash
<1>7. CASE UNCHANGED storeVars
  BY <1>7, StoreStays
<1>8. ASSUME \/ \E f \in Files : ImportQuarantines(f)
             \/ ImportExplains \/ ImportLoads \/ ImportRow \/ ImportTruncates
             \/ ImportPublishes \/ UNCHANGED vars
      PROVE  UNCHANGED storeVars
  BY <1>8 DEF ImportQuarantines, ImportExplains, ImportLoads, ImportRow,
              ImportTruncates, ImportPublishes, vars
<1> QED BY <1>1, <1>2, <1>3, <1>4, <1>5, <1>6, <1>7, <1>8 DEF Next

(* Through any interleaving of writers of different processes, broken      *)
(* streams, leftovers and crashes, put_immutable implements a store that   *)
(* writes every key once and keeps what it acknowledged.                   *)
THEOREM StoreImplementsWriteOnce == Spec => StoresOnce
<1>1. Init => StoreInv /\ WriteOnce!Init
  <2> SUFFICES ASSUME StoreInit PROVE StoreInv /\ WriteOnce!Init
    BY DEF Init
  <2>1. \A k \in Keys : Object(k) = NoInode
    BY DEF StoreInit, Object
  <2> QED BY <2>1, StoreInitInv DEF StoreInit, WriteOnce!Init
<1>2. StoreInv /\ [Next]_vars => StoreInv' /\ Promised
  BY StoreNext
<1>3. Promised <=> [WriteOnce!Next]_<<[k \in Keys |-> Object(k)], acknowledged>>
  BY DEF Promised
<1> QED BY <1>1, <1>2, <1>3, PTL DEF Spec, StoresOnce, WriteOnce!Spec

-----------------------------------------------------------------------------
(* The pipeline.  What an import has done by each of its steps: its file   *)
(* is stored before the first event is added; the rows before its line     *)
(* have their events in the ledger and their records in memory; and what   *)
(* is in memory contains what the source records file held.                *)
AcceptableEvents == UNION {EventsOf(f) : f \in Acceptable}
Results == [status : {"QUARANTINED", "PUBLISHED"}, file : Files, inserted : Nat]

PipelineType ==
  /\ ledger \in Seq(AcceptableEvents)
  /\ records \in [ids : SUBSET AcceptableRecords, broken : BOOLEAN]
  /\ importing \in Imports \cup {NoImport}
  /\ results \in Seq(Results)
  /\ torn \in BOOLEAN

Filed(f) == destination[f] # NoInode /\ data[destination[f]] = f

EventsFiled == \A e \in Ledger : e.file \in Acceptable /\ e \in EventsOf(e.file) /\ Filed(e.file)

PublishedFiles == {r.file : r \in {q \in ToSet(results) : q.status = "PUBLISHED"}}
PublishedIn(ids) == \A f \in PublishedFiles : RecordsOf(f) \subseteq ids
Done(f, n, ids) ==
  Event(f, Rows[f][n]) \in Ledger /\ SourceRecordId(f, Rows[f][n]) \in ids

ImporterKnows ==
  LET f == importing.file IN
  /\ importing.step # "explain" => f \in Acceptable
  /\ importing.step = "store" /\ putting[Importer] # NoJob =>
       Put(Importer) = [key |-> f, stream |-> f, expected |-> f]
  /\ importing.step \in {"load", "rows", "rewrite"} => Filed(f)
  /\ importing.step \in {"store", "load"} => importing.line = 1
  /\ importing.step = "rows" =>
       /\ importing.line \in 1 .. Len(Rows[f]) + 1
       /\ \A n \in 1 .. importing.line - 1 : Done(f, n, importing.loaded)
  /\ importing.step = "rewrite" => \A n \in DOMAIN Rows[f] : Done(f, n, importing.loaded)
  /\ importing.step \in {"rows", "rewrite"} => torn \/ PublishedIn(importing.loaded)

PipelineInv ==
  /\ PipelineType
  /\ EventsFiled
  /\ importing # NoImport => ImporterKnows
  /\ \A f \in PublishedFiles : EventsOf(f) \subseteq Ledger
  /\ torn \/ Importing("rewrite") \/ PublishedIn(records.ids)

-----------------------------------------------------------------------------
LEMMA ToSetAppend ==
  ASSUME NEW S, NEW s \in Seq(S), NEW x \in S
  PROVE  Append(s, x) \in Seq(S) /\ ToSet(Append(s, x)) = ToSet(s) \cup {x}
<1>1. /\ Append(s, x) \in Seq(S)
      /\ DOMAIN Append(s, x) = DOMAIN s \cup {Len(s) + 1}
      /\ \A i \in DOMAIN s : Append(s, x)[i] = s[i]
      /\ Append(s, x)[Len(s) + 1] = x
  OBVIOUS
<1>2. ASSUME NEW e PROVE e \in ToSet(Append(s, x)) <=> e \in ToSet(s) \cup {x}
  BY <1>1, Zenon DEF ToSet
<1> QED BY <1>1, <1>2

LEMMA FiledStays ==
  ASSUME ObjectsStay, NEW f \in Acceptable, Filed(f)
  PROVE  Filed(f)'
BY FilesAssumption DEF ObjectsStay, Filed

LEMMA EventsStayFiled ==
  ASSUME ObjectsStay, EventsFiled, ledger' = ledger
  PROVE  EventsFiled'
<1>1. Ledger' = Ledger
  BY DEF Ledger
<1> QED BY <1>1, FiledStays DEF EventsFiled

LEMMA ImportType ==
  ASSUME NEW step \in {"explain", "store", "load", "rows", "rewrite"}, NEW f \in Files
  PROVE  Import(step, f) \in Imports
BY DEF Import, Imports

(* A result is added: it publishes its file, or nothing.                   *)
LEMMA ReturnsFacts ==
  ASSUME PipelineType, NEW status \in {"QUARANTINED", "PUBLISHED"}, NEW f \in Files,
         NEW inserted \in Nat, Returns(status, f, inserted)
  PROVE  /\ results' \in Seq(Results)
         /\ importing' = NoImport
         /\ status = "QUARANTINED" => PublishedFiles' = PublishedFiles
         /\ status = "PUBLISHED" => PublishedFiles' = PublishedFiles \cup {f}
<1> DEFINE r == [status |-> status, file |-> f, inserted |-> inserted]
<1>1. r \in Results /\ r.status = status /\ r.file = f
  BY DEF Results
<1>2. results' = Append(results, r) /\ importing' = NoImport
  BY DEF Returns
<1> HIDE DEF r
<1>3. results' \in Seq(Results) /\ ToSet(results') = ToSet(results) \cup {r}
  BY <1>1, <1>2, ToSetAppend DEF PipelineType
<1>4. \A g : g \in PublishedFiles' <=> g \in PublishedFiles \/ (g = f /\ status = "PUBLISHED")
  BY <1>1, <1>3, Zenon DEF PublishedFiles
<1>5. status = "QUARANTINED" => PublishedFiles' = PublishedFiles
  BY <1>4
<1>6. status = "PUBLISHED" => PublishedFiles' = PublishedFiles \cup {f}
  BY <1>4
<1> QED BY <1>2, <1>3, <1>5, <1>6

LEMMA PipelineInitInv == Init => PipelineInv
<1> SUFFICES ASSUME Init PROVE PipelineInv
  OBVIOUS
<1>1. /\ ledger = <<>> /\ results = <<>> /\ importing = NoImport /\ torn = FALSE
      /\ records = [ids |-> {}, broken |-> FALSE]
  BY DEF Init
<1>2. PipelineType
  <2>1. ledger \in Seq(AcceptableEvents) /\ results \in Seq(Results)
    BY <1>1
  <2>2. records \in [ids : SUBSET AcceptableRecords, broken : BOOLEAN]
    BY <1>1
  <2> QED BY <1>1, <2>1, <2>2 DEF PipelineType
<1>3. ToSet(<<>>) = {}
  BY DEF ToSet
<1>4. Ledger = {} /\ PublishedFiles = {}
  BY <1>1, <1>3 DEF Ledger, PublishedFiles
<1> QED BY <1>1, <1>2, <1>4 DEF PipelineInv, EventsFiled, PublishedIn

LEMMA QuarantineSteps ==
  ASSUME PipelineInv, ObjectsStay,
         ImportExplains \/ \E f \in Files : ImportQuarantines(f)
  PROVE  PipelineInv'
<1> USE DEF PipelineInv
<1>1. ASSUME NEW f \in Files, ImportQuarantines(f) PROVE PipelineInv'
  <2>1. /\ importing = NoImport /\ importing' = Import("explain", f)
        /\ UNCHANGED <<ledger, records, results, torn>>
    BY <1>1 DEF ImportQuarantines
  <2>2. importing' \in Imports /\ importing'.step = "explain"
    BY <2>1, ImportType DEF Import
  <2>3. EventsFiled' /\ PipelineType'
    BY <2>1, <2>2, EventsStayFiled DEF PipelineType
  <2>4. PublishedFiles' = PublishedFiles /\ Ledger' = Ledger /\ ~Importing("rewrite")
    BY <2>1 DEF PublishedFiles, Ledger, Importing
  <2>5. importing' # NoImport => ImporterKnows'
    BY <2>2 DEF ImporterKnows
  <2> QED BY <2>1, <2>3, <2>4, <2>5 DEF PublishedIn
<1>2. CASE ImportExplains
  <2>1. /\ Importing("explain") /\ Returns("QUARANTINED", importing.file, 0)
        /\ UNCHANGED <<ledger, records, torn>>
    BY <1>2 DEF ImportExplains
  <2>2. importing \in Imports /\ importing.file \in Files
    BY <2>1 DEF PipelineType, Importing, Imports
  <2>3. results' \in Seq(Results) /\ importing' = NoImport /\ PublishedFiles' = PublishedFiles
    BY <2>1, <2>2, ReturnsFacts
  <2>4. EventsFiled' /\ PipelineType'
    BY <2>1, <2>3, EventsStayFiled DEF PipelineType
  <2>5. Ledger' = Ledger /\ ~Importing("rewrite")
    BY <2>1 DEF Ledger, Importing
  <2> QED BY <2>1, <2>3, <2>4, <2>5 DEF PublishedIn
<1> QED BY <1>1, <1>2

LEMMA StoringSteps ==
  ASSUME StoreInv, PipelineInv, ObjectsStay,
         ImportStored \/ \E f \in Files : ImportStores(f)
  PROVE  PipelineInv'
<1> USE DEF PipelineInv
<1>1. ASSUME NEW f \in Files, ImportStores(f) PROVE PipelineInv'
  <2> DEFINE put == [key |-> f, stream |-> f, expected |-> f]
  <2>1. /\ importing = NoImport /\ importing' = Import("store", f) /\ f \in Acceptable
        /\ PutBegin(Importer, put)
        /\ UNCHANGED <<ledger, records, results, torn>>
    BY <1>1 DEF ImportStores
  <2>2. /\ importing' \in Imports /\ importing'.step = "store" /\ importing'.file = f
        /\ importing'.line = 1
    BY <2>1, ImportType DEF Import
  <2>3. putting'[Importer].put = put
    BY <2>1, ImporterAssumption DEF PutBegin, StoreInv, StoreType
  <2>4. EventsFiled' /\ PipelineType'
    BY <2>1, <2>2, EventsStayFiled DEF PipelineType
  <2>5. PublishedFiles' = PublishedFiles /\ Ledger' = Ledger /\ ~Importing("rewrite")
    BY <2>1 DEF PublishedFiles, Ledger, Importing
  <2>6. importing' # NoImport => ImporterKnows'
    BY <2>1, <2>2, <2>3 DEF ImporterKnows, Put
  <2> QED BY <2>1, <2>4, <2>5, <2>6 DEF PublishedIn
<1>2. CASE ImportStored
  <2>1. /\ Importing("store") /\ PutEnd(Importer)
        /\ UNCHANGED <<ledger, records, torn>>
    BY <1>2 DEF ImportStored
  <2>2. importing \in Imports /\ importing.file \in Acceptable /\ importing.line = 1
    BY <2>1 DEF PipelineType, Importing, ImporterKnows
  <2>3. results' = results
    BY <1>2 DEF ImportStored, Raises
  <2>4. PublishedFiles' = PublishedFiles /\ Ledger' = Ledger /\ ~Importing("rewrite")
    BY <2>1, <2>3 DEF PublishedFiles, Ledger, Importing
  <2>5. EventsFiled'
    BY <2>1, EventsStayFiled
  <2>6. CASE importing' = NoImport
    <3>1. PipelineType'
      BY <2>1, <2>3, <2>6 DEF PipelineType
    <3> QED BY <2>1, <2>4, <2>5, <2>6, <3>1 DEF PublishedIn
  <2>7. CASE /\ putting[Importer].answer = "stored"
             /\ importing' = [importing EXCEPT !.step = "load"]
    <3>1. /\ importing' \in Imports /\ importing'.step = "load"
          /\ importing'.file = importing.file /\ importing'.line = 1
      BY <2>2, <2>7 DEF Imports
    <3>2. Filed(importing.file)
      <4>1. putting[Importer] # NoJob
        BY <2>1 DEF PutEnd, At
      <4>2. WriterKnows(Importer)
        BY <4>1, ImporterAssumption DEF StoreInv
      <4>3. Put(Importer).key = importing.file /\ Put(Importer).expected = importing.file
        BY <2>1, <4>1 DEF ImporterKnows, Importing
      <4> QED BY <2>7, <4>2, <4>3 DEF WriterKnows, Filed, Object
    <3>3. Filed(importing.file)'
      BY <2>1, <2>2, <3>1, <3>2 DEF Filed, PutEnd
    <3>4. ImporterKnows'
      BY <2>2, <3>1, <3>3 DEF ImporterKnows
    <3>5. PipelineType'
      BY <2>1, <2>3, <3>1 DEF PipelineType
    <3> QED BY <2>1, <2>4, <2>5, <3>1, <3>4, <3>5 DEF PublishedIn
  <2> QED BY <1>2, <2>6, <2>7 DEF ImportStored, Raises
<1> QED BY <1>1, <1>2

LEMMA LoadStep ==
  ASSUME PipelineInv, ObjectsStay, ImportLoads
  PROVE  PipelineInv'
<1> USE DEF PipelineInv
<1>1. /\ Importing("load") /\ importing # NoImport
      /\ UNCHANGED <<ledger, records, results, torn>>
  BY DEF ImportLoads, Raises, Importing
<1>2. importing \in Imports /\ importing.file \in Acceptable /\ importing.line = 1
  BY <1>1 DEF PipelineType, Importing, ImporterKnows
<1>3. /\ PublishedFiles' = PublishedFiles /\ Ledger' = Ledger /\ ~Importing("rewrite")
      /\ EventsFiled'
  BY <1>1, EventsStayFiled DEF PublishedFiles, Ledger, Importing
<1>4. CASE importing' = NoImport
  <2>1. PipelineType'
    BY <1>1, <1>4 DEF PipelineType
  <2> QED BY <1>1, <1>3, <1>4, <2>1 DEF PublishedIn
<1>5. CASE importing' = [importing EXCEPT !.step = "rows", !.loaded = records.ids]
  <2>1. records.ids \in SUBSET AcceptableRecords
    BY DEF PipelineType
  <2>2. /\ importing' \in Imports /\ importing'.step = "rows" /\ importing'.loaded = records.ids
        /\ importing'.file = importing.file /\ importing'.line = 1
    BY <1>2, <1>5, <2>1 DEF Imports
  <2>3. Filed(importing.file)'
    <3>1. Filed(importing.file)
      BY <1>1 DEF ImporterKnows, Importing
    <3>2. \A f \in Acceptable : Filed(f) => Filed(f)'
      BY FiledStays
    <3> QED BY <1>2, <2>2, <3>1, <3>2 DEF Filed
  <2>4. 1 \in 1 .. Len(Rows[importing.file]) + 1
    BY <1>2, RowsAssumption
  <2>5. torn' \/ PublishedIn(records.ids)'
    BY <1>1, <1>3 DEF PublishedIn
  <2>6. ImporterKnows'
    BY <1>1, <1>2, <2>2, <2>3, <2>4, <2>5 DEF ImporterKnows, PublishedIn
  <2>7. PipelineType'
    BY <1>1, <2>2 DEF PipelineType
  <2> QED BY <1>1, <1>3, <2>6, <2>7 DEF PublishedIn
<1> QED BY <1>4, <1>5 DEF ImportLoads, Raises

(* add_if_absent leaves the event in the ledger, and nothing is lost.      *)
LEMMA AddFacts ==
  ASSUME PipelineType, NEW event \in AcceptableEvents, AddIfAbsent(event)
  PROVE  ledger' \in Seq(AcceptableEvents) /\ Ledger' = Ledger \cup {event}
<1>1. CASE Known(event)
  <2>1. ledger' = ledger
    BY <1>1 DEF AddIfAbsent
  <2>2. event \in Ledger
    BY <1>1 DEF AddIfAbsent, Known, Collides
  <2> QED BY <2>1, <2>2 DEF PipelineType, Ledger
<1>2. CASE ~Known(event)
  <2>1. ledger' = Append(ledger, event)
    BY <1>2 DEF AddIfAbsent
  <2> QED BY <2>1, ToSetAppend DEF PipelineType, Ledger
<1> QED BY <1>1, <1>2

LEMMA RowStep ==
  ASSUME PipelineInv, ObjectsStay, ImportRow
  PROVE  PipelineInv'
<1> USE DEF PipelineInv
<1> DEFINE f == importing.file
           n == importing.line
           row == Rows[f][n]
           event == Event(f, row)
<1>1. /\ Importing("rows") /\ importing # NoImport /\ n \in DOMAIN Rows[f]
      /\ UNCHANGED <<records, results, torn>>
  BY DEF ImportRow, Raises, Importing
<1>2. /\ importing \in Imports /\ f \in Acceptable /\ Filed(f)
      /\ n \in 1 .. Len(Rows[f]) + 1
      /\ \A m \in 1 .. n - 1 : Done(f, m, importing.loaded)
      /\ torn \/ PublishedIn(importing.loaded)
  BY <1>1 DEF PipelineType, Importing, ImporterKnows
<1>3. /\ Rows[f] \in Seq(ToSet(Rows[f])) /\ DOMAIN Rows[f] = 1 .. Len(Rows[f])
      /\ Len(Rows[f]) \in Nat /\ n \in 1 .. Len(Rows[f])
  BY <1>1, <1>2, RowsAssumption
<1>4. PublishedFiles' = PublishedFiles /\ ~Importing("rewrite")
  BY <1>1 DEF PublishedFiles, Importing
<1>5. CASE importing' = NoImport /\ ledger' = ledger
  <2>1. PipelineType' /\ EventsFiled' /\ Ledger' = Ledger
    BY <1>1, <1>5, EventsStayFiled DEF PipelineType, Ledger
  <2> QED BY <1>1, <1>4, <1>5, <2>1 DEF PublishedIn
<1>6. CASE /\ AddIfAbsent(event)
           /\ importing' = [importing EXCEPT
                !.line = @ + 1,
                !.loaded = @ \cup {SourceRecordId(f, row)},
                !.inserted = @ + IF Known(event) THEN 0 ELSE 1]
  <2>1. event \in EventsOf(f) /\ event \in AcceptableEvents /\ event.file = f
    BY <1>1, <1>2 DEF EventsOf, AcceptableEvents, Event
  <2>2. SourceRecordId(f, row) \in AcceptableRecords
    BY <1>1, <1>2 DEF RecordsOf, AcceptableRecords
  <2>3. ledger' \in Seq(AcceptableEvents) /\ Ledger' = Ledger \cup {event}
    BY <1>6, <2>1, AddFacts
  <2> DEFINE more == IF Known(event) THEN 0 ELSE 1
             loaded == importing.loaded \cup {SourceRecordId(f, row)}
  <2>4. more \in Nat /\ importing.inserted \in Nat /\ importing.inserted + more \in Nat
    BY <1>2 DEF Imports
  <2>5. /\ importing' = [importing EXCEPT !.line = n + 1, !.loaded = loaded,
                                          !.inserted = importing.inserted + more]
    BY <1>2, <1>6 DEF Imports
  <2>6. loaded \in SUBSET AcceptableRecords /\ n + 1 \in Nat \ {0}
    BY <1>2, <2>2 DEF Imports
  <2> HIDE DEF more, loaded
  <2>7. /\ importing' \in Imports /\ importing'.step = importing.step /\ importing'.file = f
        /\ importing'.line = n + 1 /\ importing'.loaded = loaded
    <3> DEFINE next == n + 1
               total == importing.inserted + more
    <3>1. importing' = [importing EXCEPT !.line = next, !.loaded = loaded, !.inserted = total]
      BY <2>5
    <3>2. next \in Nat \ {0} /\ total \in Nat
      BY <2>4, <2>6
    <3> HIDE DEF next, total
    <3>3. /\ importing' \in Imports /\ importing'.step = importing.step
          /\ importing'.file = importing.file
          /\ importing'.line = next /\ importing'.loaded = loaded
      BY <1>2, <2>6, <3>1, <3>2 DEF Imports
    <3> QED BY <3>3 DEF next
  <2>8. \A g \in Acceptable : Filed(g) => Filed(g)'
    BY FiledStays
  <2>9. EventsFiled'
    BY <1>2, <2>1, <2>3, <2>8 DEF EventsFiled
  <2>10. \A m \in 1 .. n : Done(f, m, loaded) \/ m = n
    <3> SUFFICES ASSUME NEW m \in 1 .. n, m # n PROVE Done(f, m, loaded)
      OBVIOUS
    <3>1. m \in 1 .. n - 1
      BY <1>3
    <3> QED BY <1>2, <3>1 DEF Done, loaded
  <2>11. \A m \in 1 .. n :
           Event(f, Rows[f][m]) \in Ledger' /\ SourceRecordId(f, Rows[f][m]) \in loaded
    BY <2>3, <2>10 DEF Done, loaded
  <2>12. n + 1 \in 1 .. Len(Rows[f]) + 1 /\ (n + 1) - 1 = n
    BY <1>3
  <2>13. torn' \/ \A g \in PublishedFiles' : RecordsOf(g) \subseteq loaded
    BY <1>1, <1>2, <1>4 DEF PublishedIn, loaded
  <2>14. ImporterKnows'
    <3>1. importing'.step = "rows"
      BY <1>1, <2>7 DEF Importing
    <3>2. Filed(importing.file)'
      BY <1>2, <2>7, <2>8 DEF Filed
    <3>3. \A m \in 1 .. importing'.line - 1 : Done(importing.file, m, importing.loaded)'
      BY <2>7, <2>11, <2>12 DEF Done
    <3>4. importing'.line \in 1 .. Len(Rows[importing'.file]) + 1
      BY <2>7, <2>12
    <3>5. torn' \/ PublishedIn(importing.loaded)'
      BY <2>7, <2>13 DEF PublishedIn
    <3>6. importing'.file \in Acceptable
      BY <1>2, <2>7
    <3> HIDE DEF f, n, PipelineInv
    <3> QED BY <3>1, <3>2, <3>3, <3>4, <3>5, <3>6 DEF ImporterKnows
  <2>15. PipelineType'
    BY <1>1, <2>3, <2>7 DEF PipelineType
  <2> QED BY <1>1, <1>4, <2>3, <2>9, <2>14, <2>15 DEF PublishedIn
<1> QED BY <1>5, <1>6 DEF ImportRow, Raises

LEMMA TruncateStep ==
  ASSUME PipelineInv, ObjectsStay, ImportTruncates
  PROVE  PipelineInv'
<1> DEFINE f == importing.file
           n == importing.line
<1>1. /\ importing # NoImport /\ importing.step = "rows" /\ n \notin DOMAIN Rows[f]
      /\ records' = [ids |-> {}, broken |-> FALSE]
      /\ importing' = [importing EXCEPT !.step = "rewrite"]
      /\ UNCHANGED <<ledger, results, torn>>
  BY DEF ImportTruncates, Importing
<1>2. /\ importing \in Imports /\ f \in Acceptable /\ Filed(f)
      /\ n \in 1 .. Len(Rows[f]) + 1
      /\ \A m \in 1 .. n - 1 : Done(f, m, importing.loaded)
      /\ torn \/ PublishedIn(importing.loaded)
  BY <1>1 DEF PipelineInv, PipelineType, ImporterKnows
<1>3. \A m \in DOMAIN Rows[f] : m \in 1 .. n - 1
  <2>1. /\ DOMAIN Rows[f] = 1 .. Len(Rows[f]) /\ Len(Rows[f]) \in Nat
    BY <1>2, RowsAssumption
  <2> QED BY <1>1, <1>2, <2>1
<1>4. /\ importing' \in Imports /\ importing'.step = "rewrite"
      /\ importing'.file = f /\ importing'.loaded = importing.loaded
  BY <1>1, <1>2 DEF Imports
<1>5. /\ PublishedFiles' = PublishedFiles /\ Ledger' = Ledger
      /\ EventsFiled'
  BY <1>1, EventsStayFiled DEF PublishedFiles, Ledger, PipelineInv
<1>6. ImporterKnows'
  <2>1. Filed(importing.file)'
    <3>1. \A g \in Acceptable : Filed(g) => Filed(g)'
      BY FiledStays
    <3> QED BY <1>2, <1>4, <3>1 DEF Filed
  <2>2. \A m \in DOMAIN Rows[importing'.file] : Done(importing.file, m, importing.loaded)'
    BY <1>2, <1>3, <1>4, <1>5 DEF Done
  <2>3. torn' \/ PublishedIn(importing.loaded)'
    BY <1>1, <1>2, <1>4, <1>5 DEF PublishedIn
  <2>4. importing'.file \in Acceptable
    BY <1>2, <1>4
  <2> HIDE DEF f, n
  <2> QED BY <1>4, <2>1, <2>2, <2>3, <2>4 DEF ImporterKnows
<1>7. PipelineType'
  <2>1. records' \in [ids : SUBSET AcceptableRecords, broken : BOOLEAN]
    BY <1>1
  <2> QED BY <1>1, <1>4, <2>1 DEF PipelineInv, PipelineType
<1>8. importing' # NoImport => Importing("rewrite")'
  BY <1>4 DEF Importing
<1>9. CASE importing' # NoImport
  BY <1>1, <1>5, <1>6, <1>7, <1>8, <1>9 DEF PipelineInv
<1>10. CASE importing' = NoImport
  BY <1>4, <1>10, NoImportAssumption
<1> QED BY <1>9, <1>10

LEMMA PublishStep ==
  ASSUME PipelineInv, ObjectsStay, ImportPublishes
  PROVE  PipelineInv'
<1> DEFINE f == importing.file
<1>1. /\ importing # NoImport /\ importing.step = "rewrite"
      /\ records' = [ids |-> importing.loaded, broken |-> FALSE]
      /\ Returns("PUBLISHED", f, importing.inserted)
      /\ UNCHANGED <<ledger, torn>>
  BY DEF ImportPublishes, Importing
<1>2. /\ importing \in Imports /\ f \in Files /\ importing.inserted \in Nat
      /\ importing.loaded \in SUBSET AcceptableRecords
      /\ \A m \in DOMAIN Rows[f] : Done(f, m, importing.loaded)
      /\ torn \/ PublishedIn(importing.loaded)
  BY <1>1 DEF PipelineInv, PipelineType, ImporterKnows, Imports
<1>3. /\ results' \in Seq(Results) /\ importing' = NoImport
      /\ PublishedFiles' = PublishedFiles \cup {f}
  BY <1>1, <1>2, ReturnsFacts DEF PipelineInv
<1>4. Ledger' = Ledger /\ EventsFiled'
  BY <1>1, EventsStayFiled DEF Ledger, PipelineInv
<1>5. EventsOf(f) \subseteq Ledger /\ RecordsOf(f) \subseteq importing.loaded
  BY <1>2 DEF EventsOf, RecordsOf, Done
<1>6. records'.ids = importing.loaded
  BY <1>1
<1>7. torn' \/ PublishedIn(records.ids)'
  BY <1>1, <1>2, <1>3, <1>5, <1>6 DEF PublishedIn
<1>8. PipelineType'
  <2>1. records' \in [ids : SUBSET AcceptableRecords, broken : BOOLEAN]
    BY <1>1, <1>2
  <2> QED BY <1>1, <1>3, <2>1 DEF PipelineInv, PipelineType
<1>9. \A g \in PublishedFiles' : EventsOf(g) \subseteq Ledger'
  BY <1>3, <1>4, <1>5 DEF PipelineInv
<1> QED BY <1>3, <1>4, <1>7, <1>8, <1>9 DEF PipelineInv

LEMMA CrashStep ==
  ASSUME PipelineInv, ObjectsStay, ImporterCrash
  PROVE  PipelineInv'
<1>1. importing' = NoImport /\ UNCHANGED <<ledger, results>>
  BY DEF ImporterCrash
<1>2. /\ PublishedFiles' = PublishedFiles /\ Ledger' = Ledger
      /\ EventsFiled'
  BY <1>1, EventsStayFiled DEF PublishedFiles, Ledger, PipelineInv
<1>3. CASE Importing("rewrite")
  <2>1. /\ records' \in CutOff
        /\ torn' = (records'.ids # importing.loaded \/ torn)
    BY <1>3 DEF ImporterCrash
  <2>2. /\ importing.loaded \in SUBSET AcceptableRecords
        /\ torn \/ PublishedIn(importing.loaded)
    BY <1>3 DEF PipelineInv, PipelineType, ImporterKnows, Imports, Importing
  <2>3. records' \in [ids : SUBSET AcceptableRecords, broken : BOOLEAN]
    BY <2>1, <2>2 DEF CutOff
  <2>4. PipelineType'
    BY <1>1, <2>1, <2>3 DEF PipelineInv, PipelineType
  <2>5. torn' \/ PublishedIn(records.ids)'
    BY <1>2, <2>1, <2>2 DEF PublishedIn
  <2> QED BY <1>1, <1>2, <2>4, <2>5 DEF PipelineInv
<1>4. CASE ~Importing("rewrite")
  <2>1. records' = records /\ torn' = torn
    BY <1>4 DEF ImporterCrash
  <2>2. PipelineType'
    BY <1>1, <2>1 DEF PipelineInv, PipelineType
  <2> QED BY <1>1, <1>2, <1>4, <2>1, <2>2 DEF PipelineInv, PublishedIn
<1> QED BY <1>3, <1>4

(* What other writers do, and the steps of its own put, leave the importer *)
(* with the put it has begun.                                              *)
LEMMA PutStays ==
  ASSUME StoreInv, putting'[Importer] # NoJob,
         \/ \E w \in Writers : StoreStep(w)
         \/ \E w \in Writers, put \in OtherPuts : OtherPut(w, put)
         \/ \E pid \in Pids : OtherCrash(pid)
         \/ UNCHANGED putting
  PROVE  putting[Importer] # NoJob /\ Put(Importer)' = Put(Importer)
<1> USE ImporterAssumption
<1>0. putting \in [Writers -> Jobs \cup {NoJob}]
  BY DEF StoreInv, StoreType
<1>1. ASSUME NEW w \in Writers, StoreStep(w), w # Importer
      PROVE  putting'[Importer] = putting[Importer]
  BY <1>0, <1>1 DEF StoreStep, PutStep, PutOpen, PutWrite, PutLink, PutUnlink, PutEnd, Goes, GoesWith
<1>2. ASSUME PutStep(Importer)
      PROVE  putting[Importer] # NoJob /\ putting'[Importer].put = putting[Importer].put
  <2>1. putting[Importer] # NoJob /\ putting[Importer] \in Jobs
    BY <1>0, <1>2 DEF PutStep, PutOpen, PutWrite, PutLink, PutUnlink, At
  <2>2. \A s : Goes(Importer, s) => putting'[Importer].put = putting[Importer].put
    BY <1>0, <2>1 DEF Goes, Jobs
  <2>3. \A a : GoesWith(Importer, a) => putting'[Importer].put = putting[Importer].put
    BY <1>0, <2>1 DEF GoesWith, Jobs
  <2>4. CASE PutOpen(Importer)
    BY <1>0, <2>1, <2>3, <2>4 DEF PutOpen, Jobs
  <2> QED BY <1>2, <2>1, <2>2, <2>3, <2>4 DEF PutStep, PutWrite, PutLink, PutUnlink
<1>3. ASSUME NEW w \in Writers, NEW put \in OtherPuts, OtherPut(w, put)
      PROVE  putting'[Importer] = putting[Importer]
  BY <1>0, <1>3 DEF OtherPut, PutBegin
<1>4. ASSUME NEW pid \in Pids, OtherCrash(pid)
      PROVE  putting'[Importer] = putting[Importer]
  BY <1>0, <1>4 DEF OtherCrash, StoreCrash
<1>5. CASE \E w \in Writers : StoreStep(w)
  <2>1. PICK w \in Writers : StoreStep(w)
    BY <1>5
  <2>2. CASE w = Importer
    BY <1>2, <2>1, <2>2 DEF StoreStep, Put
  <2>3. CASE w # Importer
    BY <1>1, <2>1, <2>3 DEF Put
  <2> QED BY <2>2, <2>3
<1> QED BY <1>3, <1>4, <1>5 DEF Put

LEMMA OtherSteps ==
  ASSUME StoreInv, PipelineInv, ObjectsStay,
         \/ \E w \in Writers : StoreStep(w)
         \/ \E w \in Writers, put \in OtherPuts : OtherPut(w, put)
         \/ \E pid \in Pids : OtherCrash(pid)
         \/ UNCHANGED vars
  PROVE  PipelineInv'
<1>1. UNCHANGED <<ledger, records, importing, results, torn>>
  BY DEF StoreStep, OtherPut, OtherCrash, vars, pipelineVars
<1>2. /\ PublishedFiles' = PublishedFiles /\ Ledger' = Ledger
      /\ EventsFiled'
  BY <1>1, EventsStayFiled DEF PublishedFiles, Ledger, PipelineInv
<1>3. \A g \in Acceptable : Filed(g) => Filed(g)'
  BY FiledStays
<1>4. putting'[Importer] # NoJob => putting[Importer] # NoJob /\ Put(Importer)' = Put(Importer)
  BY PutStays DEF vars, storeVars
<1>5. ASSUME importing # NoImport PROVE ImporterKnows'
  <2>1. ImporterKnows
    BY <1>5 DEF PipelineInv
  <2>2. importing.step \in {"load", "rows", "rewrite"} => Filed(importing.file)'
    BY <1>1, <1>3, <2>1 DEF ImporterKnows, Filed
  <2>3. \A g, m, ids : Done(g, m, ids)' <=> Done(g, m, ids)
    BY <1>2 DEF Done
  <2>4. \A ids : PublishedIn(ids)' <=> PublishedIn(ids)
    BY <1>2 DEF PublishedIn
  <2> QED BY <1>1, <1>4, <2>1, <2>2, <2>3, <2>4 DEF ImporterKnows, Done, PublishedIn
<1>6. PipelineType'
  BY <1>1 DEF PipelineInv, PipelineType
<1> QED BY <1>1, <1>2, <1>5, <1>6 DEF PipelineInv, PublishedIn, Importing

LEMMA PipelineNext ==
  ASSUME StoreInv, PipelineInv, [Next]_vars
  PROVE  PipelineInv'
<1>1. ObjectsStay
  BY StoreNext
<1>2. CASE \E f \in Files : ImportQuarantines(f) \/ ImportStores(f)
  BY <1>1, <1>2, QuarantineSteps, StoringSteps
<1>3. CASE ImportExplains
  BY <1>1, <1>3, QuarantineSteps
<1>4. CASE ImportStored
  BY <1>1, <1>4, StoringSteps
<1>5. CASE ImportLoads
  BY <1>1, <1>5, LoadStep
<1>6. CASE ImportRow
  BY <1>1, <1>6, RowStep
<1>7. CASE ImportTruncates
  BY <1>1, <1>7, TruncateStep
<1>8. CASE ImportPublishes
  BY <1>1, <1>8, PublishStep
<1>9. CASE ImporterCrash
  BY <1>1, <1>9, CrashStep
<1>10. CASE \/ \E w \in Writers : StoreStep(w)
            \/ \E w \in Writers, put \in OtherPuts : OtherPut(w, put)
            \/ \E pid \in Pids : OtherCrash(pid)
            \/ UNCHANGED vars
  BY <1>1, <1>10, OtherSteps
<1> QED
  BY <1>2, <1>3, <1>4, <1>5, <1>6, <1>7, <1>8, <1>9, <1>10 DEF Next

LEMMA PipelineSafety == Spec => [](StoreInv /\ PipelineInv)
<1>1. Init => StoreInv /\ PipelineInv
  BY StoreInitInv, PipelineInitInv DEF Init
<1>2. StoreInv /\ PipelineInv /\ [Next]_vars => StoreInv' /\ PipelineInv'
  BY StoreNext, PipelineNext
<1> QED BY <1>1, <1>2, PTL DEF Spec

-----------------------------------------------------------------------------
(* However imports fail, crash, repeat or overlap with the puts of others, *)
(* each event in the JSON ledger was read from an acceptable file whose    *)
(* own bytes are stored under its digest: import_csv_for_proof stores the  *)
(* object first and put_bytes never replaces one.                          *)
THEOREM EventsFiledAlways == Spec => []EventsHaveTheirFile
<1>1. PipelineInv => EventsHaveTheirFile
  <2> SUFFICES ASSUME PipelineInv, NEW e \in Ledger
               PROVE  /\ e.file \in Acceptable /\ e \in EventsOf(e.file)
                      /\ Object(e.file) = e.file
    BY DEF EventsHaveTheirFile
  <2> QED BY DEF PipelineInv, EventsFiled, Filed, Object
<1> QED BY <1>1, PipelineSafety, PTL

(* An import that has returned PUBLISHED has all its events in the ledger, *)
(* and its source records stay in their file, through later imports that   *)
(* rewrite it, until a crash cuts such a rewrite off.                      *)
THEOREM PublishedStays == Spec => []PublishedIsThere
<1>1. PipelineInv => PublishedIsThere
  <2> SUFFICES ASSUME PipelineInv, NEW r \in ToSet(results), r.status = "PUBLISHED"
               PROVE  /\ EventsOf(r.file) \subseteq Ledger
                      /\ torn \/ Importing("rewrite") \/ RecordsOf(r.file) \subseteq records.ids
    BY DEF PublishedIsThere
  <2>1. r.file \in PublishedFiles
    BY DEF PublishedFiles
  <2> QED BY <2>1 DEF PipelineInv, PublishedIn
<1> QED BY <1>1, PipelineSafety, PTL

-----------------------------------------------------------------------------
(* The ledger only grows, so what a metric excludes stays excluded.        *)
ExclusionsStep ==
  /\ ActiveSales' \ ActiveSales \subseteq Ledger' \ Ledger
  /\ ActiveSales \ ActiveSales' \subseteq {e \in Ledger' : e.id \in Excluded'}

LEMMA LedgerGrows ==
  ASSUME PipelineInv, [Next]_vars
  PROVE  Ledger \subseteq Ledger'
<1>1. ASSUME NEW e, AddIfAbsent(e) PROVE Ledger \subseteq Ledger'
  <2>1. ledger \in Seq(AcceptableEvents \cup {e})
    BY DEF PipelineInv, PipelineType
  <2> QED BY <1>1, <2>1, ToSetAppend DEF AddIfAbsent, Ledger
<1>2. CASE ImportRow
  BY <1>1, <1>2 DEF ImportRow, Ledger
<1>3. ledger' = ledger => Ledger' = Ledger
  BY DEF Ledger
<1>4. CASE ~ImportRow
  <2>1. ledger' = ledger
    BY <1>4 DEF Next, vars, pipelineVars, ImportQuarantines, ImportStores, ImportExplains,
                ImportStored, ImportLoads, ImportTruncates, ImportPublishes, OtherPut,
                StoreStep, OtherCrash, ImporterCrash
  <2> QED BY <1>3, <2>1
<1> QED BY <1>2, <1>4

LEMMA ExclusionsKeptByStep ==
  ASSUME PipelineInv, [Next]_vars
  PROVE  ExclusionsStep
<1>1. Ledger \subseteq Ledger'
  BY LedgerGrows
<1>2. Excluded \subseteq Excluded'
  BY <1>1 DEF Excluded
<1> QED BY <1>1, <1>2 DEF ExclusionsStep, ActiveSales

(* No step brings a sale that build_metric_evidence excludes back into the *)
(* metric, and a sale it counts only leaves when an event excludes it.     *)
THEOREM ExclusionsKept == Spec => ExclusionsStand
<1>1. PipelineInv /\ [Next]_vars => [ExclusionsStep]_vars
  BY ExclusionsKeptByStep
<1>2. ExclusionsStand <=> [][ExclusionsStep]_vars
  BY PTL DEF ExclusionsStand, ExclusionsStep
<1> QED BY <1>1, <1>2, PipelineSafety, PTL DEF Spec

-----------------------------------------------------------------------------
(* Counting.  What results and the import under way claim of a file is no  *)
(* more than the events of that file in the ledger.                        *)
Claims(f) == {i \in DOMAIN results : results[i].file = f}
ClaimUnits(f) == UNION {{i} \X (1 .. results[i].inserted) : i \in Claims(f)}
Underway(f) == IF importing # NoImport /\ importing.file = f THEN importing.inserted ELSE 0
LedgerOf(f) == Ledger \cap EventsOf(f)

CountInv ==
  /\ IsFiniteSet(Ledger)
  /\ \A f \in Files : /\ IsFiniteSet(ClaimUnits(f))
                      /\ Cardinality(ClaimUnits(f)) + Underway(f) <= Cardinality(LedgerOf(f))

LEMMA InsertedInIsClaims == \A f : InsertedIn(f) = Cardinality(ClaimUnits(f))
BY DEF InsertedIn, ClaimUnits, Claims

LEMMA CountTypes ==
  ASSUME PipelineType, CountInv, NEW f \in Files
  PROVE  /\ Cardinality(ClaimUnits(f)) \in Nat /\ Underway(f) \in Nat
         /\ IsFiniteSet(LedgerOf(f)) /\ Cardinality(LedgerOf(f)) \in Nat
<1>1. IsFiniteSet(LedgerOf(f)) /\ IsFiniteSet(ClaimUnits(f))
  BY FS_Subset DEF CountInv, LedgerOf
<1>2. Underway(f) \in Nat
  BY DEF PipelineType, Imports, Underway
<1> QED BY <1>1, <1>2, FS_CardinalityType

LEMMA CountInit == Init => CountInv
<1> SUFFICES ASSUME Init PROVE CountInv
  OBVIOUS
<1>1. Ledger = {}
  BY DEF Init, Ledger, ToSet
<1>2. \A f : ClaimUnits(f) = {} /\ Underway(f) = 0 /\ LedgerOf(f) = {}
  BY <1>1 DEF Init, Claims, ClaimUnits, Underway, LedgerOf
<1> QED BY <1>1, <1>2, FS_EmptySet DEF CountInv

(* Nothing new is claimed.                                                 *)
LEMMA CountStays ==
  ASSUME PipelineType, CountInv, UNCHANGED <<ledger, results>>,
         \A f \in Files : Underway(f)' \in Nat /\ Underway(f)' <= Underway(f)
  PROVE  CountInv'
<1>1. Ledger' = Ledger
  BY DEF Ledger
<1>2. \A f : ClaimUnits(f)' = ClaimUnits(f) /\ LedgerOf(f)' = LedgerOf(f)
  BY <1>1 DEF ClaimUnits, Claims, LedgerOf
<1>3. ASSUME NEW f \in Files
      PROVE  Cardinality(ClaimUnits(f)) + Underway(f)' <= Cardinality(LedgerOf(f))
  <2>1. /\ Cardinality(ClaimUnits(f)) \in Nat /\ Underway(f) \in Nat
        /\ Cardinality(LedgerOf(f)) \in Nat
    BY CountTypes
  <2>2. Cardinality(ClaimUnits(f)) + Underway(f) <= Cardinality(LedgerOf(f))
    BY DEF CountInv
  <2>3. Underway(f)' \in Nat /\ Underway(f)' <= Underway(f)
    OBVIOUS
  <2> QED BY <2>1, <2>2, <2>3
<1> QED BY <1>1, <1>2, <1>3 DEF CountInv

(* An import returns and claims what it has inserted.                      *)
LEMMA CountReturns ==
  ASSUME PipelineType, CountInv, importing # NoImport, UNCHANGED ledger,
         NEW status \in {"QUARANTINED", "PUBLISHED"}, NEW inserted \in Nat,
         inserted <= importing.inserted, Returns(status, importing.file, inserted)
  PROVE  CountInv'
<1>0. PICK g \in Files, n \in Nat : g = importing.file /\ n = Len(results)
  BY DEF PipelineType, Imports
<1> DEFINE r == [status |-> status, file |-> g, inserted |-> inserted]
<1>1. importing \in Imports /\ importing.inserted \in Nat
  BY DEF PipelineType, Imports
<1>2. r \in Results /\ results' = Append(results, r) /\ importing' = NoImport
  BY <1>0, <1>1 DEF Returns, Results
<1>3. r.file = g /\ r.inserted = inserted
  OBVIOUS
<1> HIDE DEF r
<1>4. /\ DOMAIN results' = DOMAIN results \cup {n + 1} /\ n + 1 \notin DOMAIN results
      /\ \A i \in DOMAIN results : results'[i] = results[i]
      /\ results'[n + 1] = r
  BY <1>0, <1>2 DEF PipelineType
<1>5. Ledger' = Ledger /\ \A f : LedgerOf(f)' = LedgerOf(f)
  BY DEF Ledger, LedgerOf
<1>6. \A f : Underway(f)' = 0
  BY <1>2 DEF Underway
<1>7. ASSUME NEW f \in Files, f # g PROVE ClaimUnits(f)' = ClaimUnits(f)
  <2>1. Claims(f)' = Claims(f)
    BY <1>3, <1>4, <1>7 DEF Claims
  <2>2. \A i \in Claims(f) : results'[i] = results[i]
    BY <1>4 DEF Claims
  <2> QED BY <2>1, <2>2 DEF ClaimUnits
<1> DEFINE V == {n + 1} \X (1 .. inserted)
<1>8. ClaimUnits(g)' = ClaimUnits(g) \cup V
  <2>1. Claims(g)' = Claims(g) \cup {n + 1}
    BY <1>3, <1>4 DEF Claims
  <2>2. \A i \in Claims(g) : results'[i] = results[i]
    BY <1>4 DEF Claims
  <2>3. \A z : z \in ClaimUnits(g)' <=> z \in ClaimUnits(g) \cup V
    <3>1. \A z : z \in ClaimUnits(g)' <=>
                   \E i \in Claims(g) \cup {n + 1} : z \in {i} \X (1 .. results'[i].inserted)
      BY <2>1, Zenon DEF ClaimUnits
    <3>2. \A z : z \in ClaimUnits(g) <=> \E i \in Claims(g) : z \in {i} \X (1 .. results[i].inserted)
      BY Zenon DEF ClaimUnits
    <3>3. results'[n + 1].inserted = inserted
      BY <1>3, <1>4
    <3> QED BY <2>2, <3>1, <3>2, <3>3, Zenon
  <2> QED BY <2>3
<1>9. IsFiniteSet(V) /\ Cardinality(V) = inserted
  <2>1. IsFiniteSet({n + 1}) /\ Cardinality({n + 1}) = 1
    BY FS_Singleton
  <2>2. IsFiniteSet(1 .. inserted) /\ Cardinality(1 .. inserted) = inserted
    BY FS_Interval
  <2>3. IsFiniteSet(V) /\ Cardinality(V) = 1 * inserted
    BY <2>1, <2>2, FS_Product
  <2> QED BY <2>3
<1> HIDE DEF V
<1>10. ASSUME NEW f \in Files
       PROVE  /\ IsFiniteSet(ClaimUnits(f)')
              /\ Cardinality(ClaimUnits(f)') <= Cardinality(LedgerOf(f))
  <2>1. /\ Cardinality(ClaimUnits(f)) \in Nat /\ Underway(f) \in Nat
        /\ Cardinality(LedgerOf(f)) \in Nat
    BY CountTypes
  <2>2. /\ Cardinality(ClaimUnits(f)) + Underway(f) <= Cardinality(LedgerOf(f))
        /\ IsFiniteSet(ClaimUnits(f))
    BY DEF CountInv
  <2>3. CASE f # g
    BY <1>7, <2>1, <2>2, <2>3
  <2>4. CASE f = g
    <3>1. Underway(f) = importing.inserted
      BY <1>0, <2>4 DEF Underway
    <3>2. /\ IsFiniteSet(ClaimUnits(f) \cup V)
          /\ Cardinality(ClaimUnits(f) \cup V)
               = Cardinality(ClaimUnits(f)) + Cardinality(V) - Cardinality(ClaimUnits(f) \cap V)
      BY <1>9, <2>2, FS_Union
    <3>3. Cardinality(ClaimUnits(f) \cap V) \in Nat
      BY <1>9, FS_Subset, FS_CardinalityType
    <3>4. Cardinality(ClaimUnits(f) \cup V) <= Cardinality(LedgerOf(f))
      BY <1>1, <1>9, <2>1, <2>2, <3>1, <3>2, <3>3
    <3> QED BY <1>8, <2>4, <3>2, <3>4
  <2> QED BY <2>3, <2>4
<1>11. ASSUME NEW f \in Files
       PROVE  Cardinality(ClaimUnits(f)') + Underway(f)' <= Cardinality(LedgerOf(f)')
  <2>1. Cardinality(ClaimUnits(f)') \in Nat
    BY <1>10, FS_CardinalityType
  <2>2. Underway(f)' = 0 /\ LedgerOf(f)' = LedgerOf(f)
    BY <1>5, <1>6
  <2> QED BY <1>10, <2>1, <2>2
<1> QED BY <1>5, <1>10, <1>11 DEF CountInv

(* A row adds its event and is counted, or finds it and is not.            *)
LEMMA CountRow ==
  ASSUME PipelineInv, PipelineType', CountInv, ImportRow
  PROVE  CountInv'
<1>0. PICK g \in Files, k \in Nat : g = importing.file /\ k = importing.inserted
  BY DEF ImportRow, Importing, PipelineInv, PipelineType, Imports
<1> DEFINE event == Event(g, Rows[g][importing.line])
<1>1. /\ importing # NoImport /\ importing \in Imports /\ results' = results
      /\ importing.line \in DOMAIN Rows[g] /\ PipelineType
  BY <1>0 DEF ImportRow, Raises, Importing, PipelineInv, PipelineType
<1>2. CASE importing' = NoImport /\ ledger' = ledger
  <2>1. \A f \in Files : Underway(f) \in Nat /\ Underway(f)' = 0
    BY <1>1, <1>2, CountTypes DEF Underway
  <2> QED BY <1>1, <1>2, <2>1, CountStays
<1>3. CASE /\ AddIfAbsent(event)
           /\ importing' = [importing EXCEPT
                !.line = @ + 1,
                !.loaded = @ \cup {SourceRecordId(importing.file, Rows[g][importing.line])},
                !.inserted = @ + IF Known(event) THEN 0 ELSE 1]
  <2>0. PICK e : e = event
    OBVIOUS
  <2>1. e \in EventsOf(g) /\ e \in AcceptableEvents /\ AddIfAbsent(e)
    <3>1. g \in Acceptable
      BY <1>0, <1>1 DEF ImportRow, Importing, PipelineInv, ImporterKnows
    <3> QED BY <1>1, <1>3, <2>0, <3>1 DEF EventsOf, AcceptableEvents
  <2>2. Ledger' = Ledger \cup {e}
    BY <1>1, <2>1, AddFacts
  <2>3. Known(e) => e \in Ledger
    BY <2>1 DEF Known, AddIfAbsent, Collides
  <2>4. e \in Ledger => Known(e)
    BY DEF Known
  <2> DEFINE more == IF e \in Ledger THEN 0 ELSE 1
  <2>5. importing'.file = g /\ importing'.inserted = k + more
    BY <1>0, <1>1, <1>3, <2>0, <2>3, <2>4 DEF Imports
  <2>6. \A f \in Files : Underway(f)' <= Underway(f) + (IF f = g THEN more ELSE 0)
                         /\ Underway(f)' \in Nat
    BY <1>0, <1>1, <2>5, CountTypes DEF Underway
  <2>7. \A f \in Files : ClaimUnits(f)' = ClaimUnits(f)
    BY <1>1 DEF ClaimUnits, Claims
  <2>8. IsFiniteSet(Ledger')
    BY <2>2, FS_AddElement DEF CountInv
  <2>9. ASSUME NEW f \in Files
        PROVE  Cardinality(ClaimUnits(f)) + Underway(f)' <= Cardinality(LedgerOf(f)')
    <3>1. /\ Cardinality(ClaimUnits(f)) \in Nat /\ Underway(f) \in Nat
          /\ IsFiniteSet(LedgerOf(f)) /\ Cardinality(LedgerOf(f)) \in Nat
      BY <1>1, CountTypes
    <3>2. Cardinality(ClaimUnits(f)) + Underway(f) <= Cardinality(LedgerOf(f))
      BY DEF CountInv
    <3>3. LedgerOf(f) \subseteq LedgerOf(f)' /\ IsFiniteSet(LedgerOf(f)')
      BY <2>2, <2>8, FS_Subset DEF LedgerOf
    <3>4. Cardinality(LedgerOf(f)) <= Cardinality(LedgerOf(f)') /\ Cardinality(LedgerOf(f)') \in Nat
      BY <3>3, FS_Subset, FS_CardinalityType
    <3>5. Underway(f)' \in Nat
      BY <2>6
    <3>6. CASE f # g \/ e \in Ledger
      <4>1. Underway(f)' <= Underway(f)
        BY <2>6, <3>1, <3>6
      <4> QED BY <3>1, <3>2, <3>4, <3>5, <4>1
    <3>7. CASE f = g /\ e \notin Ledger
      <4>1. LedgerOf(f)' = LedgerOf(f) \cup {e} /\ e \notin LedgerOf(f)
        BY <2>1, <2>2, <3>7 DEF LedgerOf
      <4>2. Cardinality(LedgerOf(f)') = Cardinality(LedgerOf(f)) + 1
        BY <3>1, <4>1, FS_AddElement
      <4>3. Underway(f)' <= Underway(f) + 1
        BY <2>6, <3>7
      <4> QED BY <3>1, <3>2, <3>5, <4>2, <4>3
    <3> QED BY <3>6, <3>7
  <2>10. \A f \in Files : IsFiniteSet(ClaimUnits(f))
    BY DEF CountInv
  <2> QED BY <2>7, <2>8, <2>9, <2>10 DEF CountInv
<1> QED BY <1>0, <1>2, <1>3 DEF ImportRow, Raises

LEMMA CountNext ==
  ASSUME StoreInv, PipelineInv, CountInv, [Next]_vars
  PROVE  CountInv'
<1>1. PipelineType /\ PipelineType'
  BY PipelineNext DEF PipelineInv
<1>2. \A f \in Files : Underway(f) \in Nat /\ 0 <= Underway(f)
  BY <1>1, CountTypes
<1>3. CASE ImportRow
  BY <1>1, <1>3, CountRow
<1>4. CASE ImportExplains
  <2>1. /\ importing # NoImport /\ ledger' = ledger
        /\ Returns("QUARANTINED", importing.file, 0)
    BY <1>4 DEF ImportExplains, Importing
  <2>2. 0 <= importing.inserted
    BY <1>1, <2>1 DEF PipelineType, Imports
  <2> QED BY <1>1, <2>1, <2>2, CountReturns
<1>5. CASE ImportPublishes
  <2>1. /\ importing # NoImport /\ ledger' = ledger
        /\ Returns("PUBLISHED", importing.file, importing.inserted)
    BY <1>5 DEF ImportPublishes, Importing
  <2>2. PICK k \in Nat : k = importing.inserted
    BY <1>1, <2>1 DEF PipelineType, Imports
  <2> QED BY <1>1, <2>1, <2>2, CountReturns
<1>6. CASE \/ \E f \in Files : ImportQuarantines(f) \/ ImportStores(f)
           \/ ImportStored \/ ImportLoads \/ ImportTruncates \/ ImporterCrash
           \/ \E w \in Writers, put \in OtherPuts : OtherPut(w, put)
           \/ \E w \in Writers : StoreStep(w)
           \/ \E pid \in Pids : OtherCrash(pid)
           \/ UNCHANGED vars
  <2>1. UNCHANGED <<ledger, results>>
    BY <1>6 DEF ImportQuarantines, ImportStores, ImportStored, ImportLoads, ImportTruncates,
                ImporterCrash, OtherPut, StoreStep, OtherCrash, vars, pipelineVars, Raises
  <2>2. \/ importing' = NoImport
        \/ importing'.inserted = 0
        \/ importing # NoImport /\ importing'.file = importing.file
           /\ importing'.inserted = importing.inserted
    <3>1. ASSUME NEW f \in Files, ImportQuarantines(f) \/ ImportStores(f)
          PROVE  importing'.inserted = 0
      BY <3>1 DEF ImportQuarantines, ImportStores, Import
    <3>2. CASE ImportStored \/ ImportLoads \/ ImportTruncates
      <4>1. importing # NoImport /\ importing \in Imports
        BY <1>1, <3>2 DEF ImportStored, ImportLoads, ImportTruncates, Importing, PipelineType
      <4>2. \/ importing' = NoImport
            \/ \E s : importing' = [importing EXCEPT !.step = s]
            \/ \E s, ids : importing' = [importing EXCEPT !.step = s, !.loaded = ids]
        BY <3>2 DEF ImportStored, ImportLoads, ImportTruncates, Raises
      <4> QED BY <4>1, <4>2 DEF Imports
    <3>3. CASE ImporterCrash
      BY <3>3 DEF ImporterCrash
    <3>4. CASE \/ \E w \in Writers, put \in OtherPuts : OtherPut(w, put)
               \/ \E w \in Writers : StoreStep(w)
               \/ \E pid \in Pids : OtherCrash(pid)
               \/ UNCHANGED vars
      BY <3>4 DEF OtherPut, StoreStep, OtherCrash, vars, pipelineVars
    <3> QED BY <1>6, <3>1, <3>2, <3>3, <3>4
  <2>3. \A f \in Files : Underway(f)' \in Nat /\ Underway(f)' <= Underway(f)
    BY <1>1, <1>2, <2>2 DEF Underway, PipelineType, Imports
  <2> QED BY <1>1, <2>1, <2>3, CountStays
<1> QED BY <1>3, <1>4, <1>5, <1>6 DEF Next

(* No event is reported as inserted twice: through replays, retries and    *)
(* crashes the results claim no more events of a file than the ledger has, *)
(* and what was reported as PUBLISHED is there (import_csv_for_proof).     *)
THEOREM PublishedCompletely == Spec => []PublishedIsComplete
<1>1. Init => CountInv
  BY CountInit
<1>2. StoreInv /\ PipelineInv /\ CountInv /\ [Next]_vars => CountInv'
  BY CountNext
<1>3. CountInv /\ StoreInv /\ PipelineInv => InsertedOnce
  <2> SUFFICES ASSUME CountInv, PipelineInv, NEW f \in Files
               PROVE  Cardinality(ClaimUnits(f)) <= Cardinality(LedgerOf(f))
    BY InsertedInIsClaims DEF InsertedOnce, LedgerOf
  <2>1. /\ Cardinality(ClaimUnits(f)) \in Nat /\ Underway(f) \in Nat
        /\ Cardinality(LedgerOf(f)) \in Nat
    BY CountTypes DEF PipelineInv
  <2>2. Cardinality(ClaimUnits(f)) + Underway(f) <= Cardinality(LedgerOf(f))
    BY DEF CountInv
  <2> QED BY <2>1, <2>2
<1>4. Spec => []CountInv
  BY <1>1, <1>2, PipelineSafety, PTL DEF Spec
<1>5. PublishedIsThere /\ InsertedOnce => PublishedIsComplete
  BY DEF PublishedIsComplete
<1> QED BY <1>3, <1>4, <1>5, PipelineSafety, PublishedStays, PTL
=============================================================================
