--------------------------- MODULE ReportDelivery ---------------------------
(***************************************************************************)
(* quantum.reporting, the way of the records out of the system: a client   *)
(* reads them page by page while they change, and exports leave as a       *)
(* bundle, as JSON lines or as CSV, may lose or change something on the    *)
(* way, and are imported again.                                            *)
(*                                                                         *)
(* A record has an id, a tenant, a mode, one text of its own and `intact', *)
(* whether its hash is right.  A digest or a hash stands for what it is    *)
(* taken of.  The characters of a text: "a" stands for itself, "=" begins  *)
(* a formula, "LF" is a line feed and "LS" one of the separators U+0085,   *)
(* U+2028 and U+2029.                                                      *)
(***************************************************************************)
EXTENDS Integers, Sequences, SequencesExt, FiniteSets, FiniteSetsExt

CONSTANTS
  ReportRecords,       \* every record there may be
  Collections,         \* the sequences of records a caller may hold
  PageLimits,          \* the page sizes clients ask for
  MaxPageSize, MaxExportRecords,
  CollectionLimit      \* bound on the changes of the collection

VARIABLES
  collection, collectionChanges,
  client,              \* read, first, cursor, state
  export               \* format, exported, payload, imported, state

deliveryVars == <<collection, collectionChanges, client, export>>

TextCharacters == {"a", "=", "LF", "LS"}

ASSUME PageSizeAssumption == MaxPageSize \in Nat \ {0}
ASSUME RecordsAssumption ==
  \A r \in ReportRecords :
    /\ r \in [id : {r.id}, tenant : {r.tenant}, mode : {r.mode},
              text : Seq(TextCharacters), intact : BOOLEAN]
    /\ {r.id, r.tenant, r.mode} \cap ({"{", "}"} \cup TextCharacters) = {}
ASSUME CollectionsAssumption == \A rs \in Collections : rs \in Seq(ReportRecords)

(* _validate_record_collection.                                            *)
ValidCollection(rs) ==
  /\ \A i \in DOMAIN rs : rs[i].intact
  /\ \A i, j \in DOMAIN rs : rs[i].id = rs[j].id => i = j
-----------------------------------------------------------------------------
NoCursor == [offset |-> 0, digest |-> << >>, given |-> FALSE]
NewClient == [read |-> << >>, first |-> << >>, cursor |-> NoCursor, state |-> "READING"]

(* A slip: a cursor is good as long as its records' ids are the same.      *)
SameIds(rs, cursor) ==
  [i \in DOMAIN rs |-> rs[i].id] = [i \in DOMAIN cursor.digest |-> cursor.digest[i].id]

(* _decode_cursor: the digest in the cursor is of all records, in order.   *)
SameRecords(rs, cursor) == cursor.digest = rs

(* page_records, asked by a client that goes on from the cursor it got.    *)
PageRecords(limit) ==
  LET offset == client.cursor.offset
      ok == /\ limit \in 1..MaxPageSize
            /\ ValidCollection(collection)
            /\ client.cursor.given => SameRecords(collection, client.cursor)
            /\ offset <= Len(collection)
      page == SubSeq(collection, offset + 1, Min({offset + limit, Len(collection)}))
      next == offset + Len(page)
  IN /\ client.state = "READING"
     /\ client' =
          IF ~ok THEN [client EXCEPT !.state = "REFUSED"]
          ELSE [read |-> client.read \o page,
                first |-> IF client.cursor.given THEN client.first ELSE collection,
                cursor |-> [offset |-> next, digest |-> collection, given |-> TRUE],
                state |-> IF next < Len(collection) THEN "READING" ELSE "DONE"]
     /\ UNCHANGED <<collection, collectionChanges, export>>

(* External: records are added, revised, withdrawn or ordered anew.        *)
ReplaceCollection(rs) ==
  /\ collectionChanges < CollectionLimit
  /\ collection' = rs
  /\ collectionChanges' = collectionChanges + 1
  /\ UNCHANGED <<client, export>>
-----------------------------------------------------------------------------
(* _canonical_json: control characters are escaped, the separators are     *)
(* written as they are.                                                    *)
Json(r) ==
  <<"{", r.id, r.tenant, r.mode, IF r.intact THEN "intact" ELSE "torn">>
    \o [i \in DOMAIN r.text |-> IF r.text[i] = "LF" THEN "\\n" ELSE r.text[i]] \o <<"}">>

Parsed(json) == {r \in ReportRecords : Json(r) = json}

JsonLines(rs) == FlattenSeq([i \in DOMAIN rs |-> Append(Json(rs[i]), "LF")])

(* str.splitlines, without the empty lines: it ends a line at every line   *)
(* separator, not only at the line feed.                                   *)
LineEnded(s) ==
  [lines |-> IF s.line = << >> THEN s.lines ELSE Append(s.lines, s.line), line |-> << >>]
Read(s, c) == IF c \in {"LF", "LS"} THEN LineEnded(s) ELSE [s EXCEPT !.line = Append(@, c)]

ReadAll(text) ==
  LET read[i \in 0..Len(text)] ==
        IF i = 0 THEN [lines |-> << >>, line |-> << >>] ELSE Read(read[i - 1], text[i])
  IN read[Len(text)]
SplitLines(text) == LineEnded(ReadAll(text)).lines

(* _csv_safe_cell and _csv_projection, of the cells with free text.        *)
SafeCell(text) ==
  LET isFormula == \E i \in DOMAIN text :
                     text[i] = "=" /\ \A j \in 1..(i - 1) : text[j] = "LF"
  IN IF isFormula \/ (text # << >> /\ Head(text) = "LF") THEN <<"'">> \o text ELSE text

Projection(r) == [id |-> <<r.id>>, tenant |-> <<r.tenant>>, mode |-> <<r.mode>>, text |-> SafeCell(r.text)]

CsvRow(r) == [cells |-> Projection(r), json |-> Json(r)]

(* build_export_bundle and validate_export_bundle.                         *)
Bundle(rs) ==
  [tenant |-> rs[1].tenant, mode |-> rs[1].mode, count |-> Len(rs), records |-> rs, hash |-> rs]

MayBundle(rs) ==
  /\ rs # << >>
  /\ \A i, j \in DOMAIN rs : <<rs[i].tenant, rs[i].mode>> = <<rs[j].tenant, rs[j].mode>>

ValidBundle(b) ==
  /\ b.records # << >> /\ Len(b.records) <= MaxExportRecords
  /\ b.count = Len(b.records) /\ b.hash = b.records
  /\ ValidCollection(b.records)
  /\ \A i \in DOMAIN b.records : b.records[i].tenant = b.tenant /\ b.records[i].mode = b.mode

NoExport ==
  [format |-> "NONE", exported |-> << >>, payload |-> << >>, imported |-> << >>, state |-> "NONE"]

(* export_bundle_json, export_records_jsonl and export_records_csv.        *)
ExportRecords(format) ==
  LET rs == collection
      ok == /\ Len(rs) <= MaxExportRecords
            /\ ValidCollection(rs)
            /\ format = "JSON" => MayBundle(rs)
      payload == CASE format = "JSON"  -> <<Bundle(rs)>>
                   [] format = "JSONL" -> JsonLines(rs)
                   [] format = "CSV"   -> [i \in DOMAIN rs |-> CsvRow(rs[i])]
  IN /\ export.state \notin {"SENT", "DAMAGED"}
     /\ export' = IF ok THEN [NoExport EXCEPT !.format = format, !.exported = rs,
                                              !.payload = payload, !.state = "SENT"]
                  ELSE [NoExport EXCEPT !.format = format, !.state = "REFUSED"]
     /\ UNCHANGED <<collection, collectionChanges, client>>

(* External: on the way a row is lost or repeated, a cell of a row is      *)
(* retyped, or a bundle loses a record.                                    *)
Damage ==
  LET p == export.payload
  IN /\ export.state = "SENT" /\ p # << >>
     /\ \/ /\ export.format = "CSV"
           /\ \E i \in DOMAIN p :
                export' \in {[export EXCEPT !.payload = RemoveAt(p, i), !.state = "DAMAGED"],
                             [export EXCEPT !.payload = Append(p, p[i]), !.state = "DAMAGED"],
                             [export EXCEPT !.payload[i].cells.text = <<"a", "a">>,
                                            !.state = "DAMAGED"]}
        \/ /\ export.format = "JSON"
           /\ \E i \in DOMAIN p[1].records :
                export' = [export EXCEPT !.payload[1].records = RemoveAt(p[1].records, i),
                                         !.state = "DAMAGED"]
     /\ UNCHANGED <<collection, collectionChanges, client>>

(* import_records_jsonl: every line is a record.                           *)
FromLines(text) ==
  LET lines == SplitLines(text)
  IN IF \E i \in DOMAIN lines : Parsed(lines[i]) = {} THEN {}
     ELSE {[i \in DOMAIN lines |-> CHOOSE r \in Parsed(lines[i]) : TRUE]}

(* A slip: the cells beside the JSON are not looked at.                    *)
RecordOfRow(rows) ==
  {[i \in DOMAIN rows |-> CHOOSE r \in Parsed(rows[i].json) : TRUE]}

(* import_records_csv: the JSON is the record, and the cells are what the  *)
(* projection makes of it.                                                 *)
FromRows(rows) ==
  {rs \in RecordOfRow(rows) : \A i \in DOMAIN rows : rows[i].cells = Projection(rs[i])}

(* The three imports: they return the records, or raise.                   *)
ImportRecords ==
  LET p == export.payload
      read == CASE export.format = "JSON"  -> {p[1].records}
                [] export.format = "JSONL" -> FromLines(p)
                [] export.format = "CSV"   -> FromRows(p)
      accepted == {rs \in read : /\ Len(rs) <= MaxExportRecords
                                 /\ ValidCollection(rs)
                                 /\ export.format = "JSON" => ValidBundle(p[1])}
  IN /\ export.state \in {"SENT", "DAMAGED"}
     /\ export' = IF accepted = {}
                  THEN [export EXCEPT !.state = IF @ = "SENT" THEN "LOST" ELSE "REFUSED"]
                  ELSE [export EXCEPT !.state = "IMPORTED",
                                      !.imported = CHOOSE rs \in accepted : TRUE]
     /\ UNCHANGED <<collection, collectionChanges, client>>

DeliveryInit ==
  /\ collection \in Collections
  /\ collectionChanges = 0
  /\ client = NewClient
  /\ export = NoExport

DeliveryNext ==
  \/ \E limit \in PageLimits : PageRecords(limit)
  \/ \E rs \in Collections : ReplaceCollection(rs)
  \/ \E format \in {"JSON", "JSONL", "CSV"} : ExportRecords(format)
  \/ Damage
  \/ ImportRecords

DeliverySpec == DeliveryInit /\ [][DeliveryNext]_deliveryVars
-----------------------------------------------------------------------------
(* A client that reads page after page, in pages of any size, while the    *)
(* records change, reads a beginning of one collection that was there as a *)
(* whole; when there is no further cursor it has read all of it, every     *)
(* record once.  A change between two pages is refused or was undone.      *)
PagedExactly ==
  /\ IsPrefix(client.read, client.first)
  /\ client.state = "DONE" => client.read = client.first /\ ValidCollection(client.first)

(* What an import accepts was exported: each record of it, once, and all   *)
(* of them for a bundle; and the cells a reader of the CSV sees are the    *)
(* record's own, never one that a spreadsheet would take for a formula.    *)
ImportedWasExported ==
  export.state = "IMPORTED" =>
    /\ Range(export.imported) \subseteq Range(export.exported)
    /\ Cardinality(Range(export.imported)) = Len(export.imported)
    /\ export.format \in {"JSON", "JSONL"} => export.imported = export.exported
    /\ export.format = "CSV" =>
         \A i \in DOMAIN export.payload :
           LET cell == export.payload[i].cells.text
               text == export.imported[i].text
           IN /\ cell = text \/ cell = <<"'">> \o text
              /\ cell # << >> => Head(cell) \notin {"=", "LF"}

(* docs/reporting: JSON, JSONL and CSV round trips preserve the records.   *)
(* An export that arrives as it was sent is imported.                      *)
RoundTrips == export.state # "LOST"
=============================================================================
