--------------------------- MODULE ObjectStore ----------------------------
(***************************************************************************)
(* LocalImmutableRawStorage.put_immutable, one file system operation at a  *)
(* time: writers in processes fill a temporary file and publish it with a  *)
(* hard link.  A name leads to an inode and an inode holds bytes, so a     *)
(* file that is still being written may already have its final name.       *)
(***************************************************************************)
EXTENDS Naturals, FiniteSets

CONSTANTS
  Writers,        \* threads that call put_immutable
  Pid,            \* the process of each writer
  Keys, Bytes,
  Inodes,         \* bound: files there can be at a time
  NoInode, NoJob,
  Partial         \* the bytes of a file that is not completely written

ASSUME PartialAssumption == Partial \notin Bytes
ASSUME NoInodeAssumption == NoInode \notin Inodes
(* The temporary name holds the process id: threads of one process would   *)
(* share it, so of the writers every one is the only one of its process.   *)
ASSUME PidAssumption == \A v, w \in Writers : Pid[v] = Pid[w] => v = w

Pids == {Pid[w] : w \in Writers}

(* A put: its key, what its stream holds, what its caller expects of it.   *)
Puts == [key : Keys, stream : Bytes, expected : Bytes]
PutSteps == {"open", "write", "link", "unlink"}
Answers == {"stored", "mismatch", "conflict", "failed"}

VARIABLES
  destination,   \* inode of each key, where its object is
  temporary,     \* inode of the temporary name of each key and process
  data,          \* bytes of each inode
  putting,       \* what each writer is doing
  acknowledged   \* history: keys and bytes of puts that returned a path

storeVars == <<destination, temporary, data, putting, acknowledged>>

StoreInit ==
  /\ destination = [k \in Keys |-> NoInode]
  /\ temporary = [n \in Keys \X Pids |-> NoInode]
  /\ data = [i \in Inodes |-> Partial]
  /\ putting = [w \in Writers |-> NoJob]
  /\ acknowledged = {}

At(w, step) == putting[w] # NoJob /\ putting[w].step = step
Put(w) == putting[w].put
TempName(w) == <<Put(w).key, Pid[w]>>
Goes(w, step) == putting' = [putting EXCEPT ![w].step = step]
GoesWith(w, answer) ==
  putting' = [putting EXCEPT ![w].step = "unlink", ![w].answer = answer]

InUse ==
  {destination[k] : k \in Keys} \cup {temporary[n] : n \in Keys \X Pids}
    \cup {putting[w].inode : w \in {v \in Writers : putting[v] # NoJob}}
FreshInode == CHOOSE i \in Inodes : i \notin InUse

(* put_immutable up to the check that the key is taken: by the expected    *)
(* bytes, which ends the call well, or by others.                          *)
Compared(k, expected) ==
  IF data[destination[k]] = expected THEN "stored" ELSE "conflict"

PutBegin(w, put) ==
  /\ putting[w] = NoJob
  /\ LET taken == destination[put.key] # NoInode IN
       putting' = [putting EXCEPT ![w] =
         [put |-> put, inode |-> NoInode,
          step |-> IF taken THEN "done" ELSE "open",
          answer |-> IF taken THEN Compared(put.key, put.expected) ELSE "failed"]]
  /\ UNCHANGED <<destination, temporary, data, acknowledged>>

(* open("xb") of a name that is there fails, and the call goes on to its   *)
(* finally clause.                                                         *)
PutOpen(w) ==
  /\ At(w, "open")
  /\ \/ /\ temporary[TempName(w)] # NoInode
        /\ GoesWith(w, "failed")
        /\ UNCHANGED <<temporary, data>>
     \/ /\ temporary[TempName(w)] = NoInode
        /\ \E i \in Inodes \ InUse :
             /\ i = FreshInode
             /\ temporary' = [temporary EXCEPT ![TempName(w)] = i]
             /\ data' = [data EXCEPT ![i] = Partial]
             /\ putting' = [putting EXCEPT ![w].step = "write", ![w].inode = i]
  /\ UNCHANGED <<destination, acknowledged>>

(* The stream is copied and its digest compared; it may also break off.    *)
PutWrite(w) ==
  /\ At(w, "write")
  /\ \/ /\ data' = [data EXCEPT ![putting[w].inode] = Put(w).stream]
        /\ IF Put(w).stream = Put(w).expected THEN Goes(w, "link")
                                               ELSE GoesWith(w, "mismatch")
     \/ GoesWith(w, "failed") /\ UNCHANGED data
  /\ UNCHANGED <<destination, temporary, acknowledged>>

(* Slip: os.replace instead of os.link.                                    *)
PutLinkReplaces(w) ==
  /\ At(w, "link")
  /\ destination' = [destination EXCEPT ![Put(w).key] = temporary[TempName(w)]]
  /\ GoesWith(w, "stored")
  /\ UNCHANGED <<temporary, data, acknowledged>>

(* os.link of whatever file has the temporary name by now.                 *)
PutLink(w) ==
  /\ At(w, "link")
  /\ \/ /\ temporary[TempName(w)] = NoInode
        /\ GoesWith(w, "failed")
        /\ UNCHANGED destination
     \/ /\ temporary[TempName(w)] # NoInode
        /\ destination[Put(w).key] = NoInode
        /\ destination' = [destination EXCEPT ![Put(w).key] = temporary[TempName(w)]]
        /\ GoesWith(w, "stored")
     \/ /\ temporary[TempName(w)] # NoInode
        /\ destination[Put(w).key] # NoInode
        /\ GoesWith(w, Compared(Put(w).key, Put(w).expected))
        /\ UNCHANGED destination
  /\ UNCHANGED <<temporary, data, acknowledged>>

(* finally: the temporary name goes, whoever made the file.                *)
PutUnlink(w) ==
  /\ At(w, "unlink")
  /\ temporary' = [temporary EXCEPT ![TempName(w)] = NoInode]
  /\ Goes(w, "done")
  /\ UNCHANGED <<destination, data, acknowledged>>

PutEnd(w) ==
  /\ At(w, "done")
  /\ acknowledged' =
       IF putting[w].answer = "stored"
       THEN acknowledged \cup {<<Put(w).key, Put(w).expected>>}
       ELSE acknowledged
  /\ putting' = [putting EXCEPT ![w] = NoJob]
  /\ UNCHANGED <<destination, temporary, data>>

(* The writers of a process die with it; its temporary files remain.       *)
StoreCrash(pid) ==
  /\ putting' = [w \in Writers |-> IF Pid[w] = pid THEN NoJob ELSE putting[w]]
  /\ UNCHANGED <<destination, temporary, data, acknowledged>>

PutStep(w) == PutOpen(w) \/ PutWrite(w) \/ PutLink(w) \/ PutUnlink(w)

-----------------------------------------------------------------------------
Object(k) == IF destination[k] = NoInode THEN NoInode ELSE data[destination[k]]

WriteOnce ==
  INSTANCE WriteOnceStore WITH
    NoObject <- NoInode, objects <- [k \in Keys |-> Object(k)]

(* The store keeps the promise of an immutable object store: a key never   *)
(* shows bytes that are incomplete, unexpected or different from those it  *)
(* had, whatever writers of other processes, broken streams and leftovers  *)
(* of crashed processes are there, and an acknowledged put stays.          *)
StoresOnce == WriteOnce!Spec
=============================================================================
