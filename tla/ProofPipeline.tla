--------------------------- MODULE ProofPipeline --------------------------
(***************************************************************************)
(* import_csv_for_proof: a file is quarantined, or stored in the object    *)
(* store and its rows added to the JSON event ledger one by one, after     *)
(* which the source records file is rewritten.  One importer works on the  *)
(* ledger (nothing locks it); other processes put objects at the same      *)
(* time; any process may crash between two file operations.                *)
(***************************************************************************)
EXTENDS ObjectStore, Sequences, SequencesExt

CONSTANTS
  Importer,       \* the writer that imports
  Files,          \* files, named by the SHA-256 of their bytes
  Acceptable,     \* files whose schema is known and whose rows are all valid
  Rows,           \* the rows of each file
  OtherPuts,      \* what other clients put
  NoImport, NoEventId,
  RecordPlace,    \* place of each source record id in sorted order
  Bound           \* bound: imports, puts, crashes

ASSUME FilesAssumption ==
  Acceptable \subseteq Files \cap Keys \cap Bytes
ASSUME RowsAssumption ==
  \A f \in Acceptable : Rows[f] \in Seq(ToSet(Rows[f]))
ASSUME ImporterAssumption == Importer \in Writers
ASSUME OtherPutsAssumption == OtherPuts \subseteq Puts

VARIABLES
  ledger,        \* events.json
  records,       \* ids in source-records.jsonl, and whether its end is cut off
  quarantine,    \* of each file: nothing, its copy, its copy and diagnostics
  importing,     \* the import that is running
  results,       \* history: what finished imports returned
  torn,          \* history: a crash has cut a rewrite of the records off
  left           \* how much of Bound is left

pipelineVars == <<ledger, records, quarantine, importing, results, torn, left>>
vars == <<storeVars, pipelineVars>>

(* normalize_row: the id of an event is made of its operation and its      *)
(* revision; the event also names the file and the row it was read from.   *)
Event(f, row) ==
  [id |-> row.id, sale |-> row.sale, supersedes |-> row.supersedes,
   reverses |-> row.reverses, file |-> f, row |-> row.row]
EventsOf(f) == {Event(f, Rows[f][n]) : n \in DOMAIN Rows[f]}
Ledger == ToSet(ledger)

SourceRecordId(f, row) == <<f, row.row>>
RecordsOf(f) == {SourceRecordId(f, Rows[f][n]) : n \in DOMAIN Rows[f]}
AcceptableRecords == UNION {RecordsOf(f) : f \in Acceptable}

(* An import: the step it is about to take, its line and, from the load on,*)
(* the source records in memory and the number of events inserted.         *)
Imports ==
  [step : {"explain", "store", "load", "rows", "rewrite"}, file : Files,
   line : Nat \ {0}, loaded : SUBSET AcceptableRecords, inserted : Nat]
ASSUME NoImportAssumption == NoImport \notin Imports

Spend(what) ==
  /\ left[what] > 0
  /\ left' = [left EXCEPT ![what] = @ - 1]

Init ==
  /\ StoreInit
  /\ ledger = <<>>
  /\ records = [ids |-> {}, broken |-> FALSE]
  /\ quarantine = [f \in Files |-> "none"]
  /\ importing = NoImport
  /\ results = <<>>
  /\ torn = FALSE
  /\ left = Bound

Importing(step) == importing # NoImport /\ importing.step = step
Import(step, f) ==
  [step |-> step, file |-> f, line |-> 1, loaded |-> {}, inserted |-> 0]
Returns(status, f, inserted) ==
  /\ importing' = NoImport
  /\ results' = Append(results, [status |-> status, file |-> f, inserted |-> inserted])
Raises == importing' = NoImport /\ UNCHANGED results

-----------------------------------------------------------------------------
(* JsonEventLedger.add_if_absent.  The idempotency key contains operation  *)
(* and revision, so an equal key is found under an equal event id already. *)
(* The file is replaced by os.replace, hence at once.                      *)
Known(event) == \E e \in Ledger : e.id = event.id
Collides(event) == \E e \in Ledger : e.id = event.id /\ e # event

(* Slip: a colliding event takes the place of the earlier one.             *)
AddReplacing(event) ==
  ledger' = Append(SelectSeq(ledger, LAMBDA e : e.id # event.id), event)

AddIfAbsent(event) ==
  /\ ~Collides(event)
  /\ ledger' = IF Known(event) THEN ledger ELSE Append(ledger, event)

-----------------------------------------------------------------------------
(* A file of an unknown schema or with an invalid row is copied aside.     *)
ImportQuarantines(f) ==
  /\ importing = NoImport
  /\ f \notin Acceptable
  /\ Spend("imports")
  /\ quarantine' = [quarantine EXCEPT ![f] = "copied"]
  /\ importing' = Import("explain", f)
  /\ UNCHANGED <<storeVars, ledger, records, results, torn>>

ImportExplains ==
  /\ Importing("explain")
  /\ quarantine' = [quarantine EXCEPT ![importing.file] = "explained"]
  /\ Returns("QUARANTINED", importing.file, 0)
  /\ UNCHANGED <<storeVars, ledger, records, torn, left>>

(* Any other file is put under its digest first.                           *)
ImportStores(f) ==
  /\ importing = NoImport
  /\ f \in Acceptable
  /\ Spend("imports")
  /\ PutBegin(Importer, [key |-> f, stream |-> f, expected |-> f])
  /\ importing' = Import("store", f)
  /\ UNCHANGED <<ledger, records, quarantine, results, torn>>

(* Slip: the events are written even if the file could not be stored.      *)
ImportStoredOrNot ==
  /\ Importing("store")
  /\ PutEnd(Importer)
  /\ importing' = [importing EXCEPT !.step = "load"]
  /\ UNCHANGED <<ledger, records, quarantine, results, torn, left>>

ImportStored ==
  /\ Importing("store")
  /\ PutEnd(Importer)
  /\ IF putting[Importer].answer = "stored"
     THEN /\ importing' = [importing EXCEPT !.step = "load"]
          /\ UNCHANGED results
     ELSE Raises
  /\ UNCHANGED <<ledger, records, quarantine, torn, left>>

(* Slip: the source records that are there are not read.                   *)
ImportForgets ==
  /\ Importing("load")
  /\ importing' = [importing EXCEPT !.step = "rows"]
  /\ UNCHANGED <<storeVars, ledger, records, quarantine, results, torn, left>>

(* A line that was cut off cannot be parsed: the import raises.            *)
ImportLoads ==
  /\ Importing("load")
  /\ IF records.broken
     THEN Raises
     ELSE /\ importing' = [importing EXCEPT !.step = "rows", !.loaded = records.ids]
          /\ UNCHANGED results
  /\ UNCHANGED <<storeVars, ledger, records, quarantine, torn, left>>

(* One row: its source record is noted and its event added; an event id    *)
(* that the ledger has with another content ends the import, and the       *)
(* events of the rows before it stay.                                      *)
ImportRow ==
  /\ Importing("rows")
  /\ importing.line \in DOMAIN Rows[importing.file]
  /\ LET row == Rows[importing.file][importing.line]
         event == Event(importing.file, row)
     IN \/ /\ AddIfAbsent(event)
           /\ importing' = [importing EXCEPT
                !.line = @ + 1,
                !.loaded = @ \cup {SourceRecordId(importing.file, row)},
                !.inserted = @ + IF Known(event) THEN 0 ELSE 1]
           /\ UNCHANGED results
        \/ Collides(event) /\ Raises /\ UNCHANGED ledger
  /\ UNCHANGED <<storeVars, records, quarantine, torn, left>>

(* open("w") empties the source records file ...                           *)
ImportTruncates ==
  /\ Importing("rows")
  /\ importing.line \notin DOMAIN Rows[importing.file]
  /\ records' = [ids |-> {}, broken |-> FALSE]
  /\ importing' = [importing EXCEPT !.step = "rewrite"]
  /\ UNCHANGED <<storeVars, ledger, quarantine, results, torn, left>>

(* ... and all records are written in the order of their ids.              *)
ImportPublishes ==
  /\ Importing("rewrite")
  /\ records' = [ids |-> importing.loaded, broken |-> FALSE]
  /\ Returns("PUBLISHED", importing.file, importing.inserted)
  /\ UNCHANGED <<storeVars, ledger, quarantine, torn, left>>

-----------------------------------------------------------------------------
OtherPut(w, put) ==
  /\ w # Importer
  /\ Spend("puts")
  /\ PutBegin(w, put)
  /\ UNCHANGED <<ledger, records, quarantine, importing, results, torn>>

StoreStep(w) ==
  /\ PutStep(w) \/ (w # Importer /\ PutEnd(w))
  /\ UNCHANGED pipelineVars

OtherCrash(pid) ==
  /\ pid # Pid[Importer]
  /\ Spend("crashes")
  /\ StoreCrash(pid)
  /\ UNCHANGED <<ledger, records, quarantine, importing, results, torn>>

(* The source records that fit before a crash, in their order; one more    *)
(* may be cut off in the middle.                                           *)
CutOff ==
  {[ids |-> {r \in importing.loaded : RecordPlace[r] <= n}, broken |-> b] :
     n \in 0..Cardinality(DOMAIN RecordPlace), b \in BOOLEAN}

ImporterCrash ==
  /\ Spend("crashes")
  /\ StoreCrash(Pid[Importer])
  /\ importing' = NoImport
  /\ IF Importing("rewrite")
     THEN /\ records' \in {c \in CutOff : c.broken => c.ids # importing.loaded}
          /\ torn' = (records'.ids # importing.loaded \/ torn)
     ELSE UNCHANGED <<records, torn>>
  /\ UNCHANGED <<ledger, quarantine, results>>

Next ==
  \/ \E f \in Files : ImportQuarantines(f) \/ ImportStores(f)
  \/ ImportExplains
  \/ ImportStored
  \/ ImportLoads
  \/ ImportRow
  \/ ImportTruncates
  \/ ImportPublishes
  \/ \E w \in Writers, put \in OtherPuts : OtherPut(w, put)
  \/ \E w \in Writers : StoreStep(w)
  \/ \E pid \in Pids : OtherCrash(pid)
  \/ ImporterCrash

Spec == Init /\ [][Next]_vars

-----------------------------------------------------------------------------
(* Every event was read from a file that passed all checks and whose bytes *)
(* are in the object store, also when the import that wrote it failed or   *)
(* crashed later: the object comes first.                                  *)
EventsHaveTheirFile ==
  \A e \in Ledger :
     /\ e.file \in Acceptable /\ e \in EventsOf(e.file)
     /\ Object(e.file) = e.file

(* How many events of a file finished imports have reported as inserted,   *)
(* summed up one by one.                                                   *)
InsertedIn(f) ==
  LET ofFile == {i \in DOMAIN results : results[i].file = f}
  IN Cardinality(UNION {{i} \X (1..results[i].inserted) : i \in ofFile})

PublishedIsThere ==
  \A r \in ToSet(results) : r.status = "PUBLISHED" =>
    /\ EventsOf(r.file) \subseteq Ledger
    /\ torn \/ Importing("rewrite") \/ RecordsOf(r.file) \subseteq records.ids
InsertedOnce == \A f \in Files : InsertedIn(f) <= Cardinality(Ledger \cap EventsOf(f))

(* An import that returned PUBLISHED has all its events in the ledger, each*)
(* event was reported as inserted at most once over replays and retries,   *)
(* and all source records are there unless a crash has cut the file off.   *)
PublishedIsComplete == PublishedIsThere /\ InsertedOnce

(* build_metric_evidence counts the sales that no event supersedes or      *)
(* reverses.                                                               *)
Excluded == {e.supersedes : e \in Ledger} \cup {e.reverses : e \in Ledger}
ActiveSales == {e \in Ledger : e.sale /\ e.id \notin Excluded}

(* What the metric has excluded never counts again and what it counts only *)
(* changes by new events, whichever file fails, repeats or collides.       *)
ExclusionsStand ==
  [][/\ ActiveSales' \ ActiveSales \subseteq Ledger' \ Ledger
     /\ ActiveSales \ ActiveSales' \subseteq {e \in Ledger' : e.id \in Excluded'}]_vars

(* "Source records are append-only": whatever a finished import has        *)
(* recorded is still there when no import is rewriting the file.           *)
SourceRecordsAppendOnly ==
  ~Importing("rewrite") =>
     \A r \in ToSet(results) :
        r.status = "PUBLISHED" => RecordsOf(r.file) \subseteq records.ids
=============================================================================
