---------------------------- MODULE ReportRecord ----------------------------
(***************************************************************************)
(* quantum.reporting, the record of a metric snapshot: the snapshot is     *)
(* verified, the evidence chain if there is one, and the record that is    *)
(* built is validated once more by rules of its own.                       *)
(*                                                                         *)
(* A reference stands for id, version and hash; a mode for mode and        *)
(* scenario; a value for the form it is written in.                        *)
(***************************************************************************)
EXTENDS EvidenceChain

CONSTANT Snapshots           \* the snapshots a caller may hand over

ASSUME SnapshotAssumption == \A s \in Snapshots : s.limitations \in Seq(STRING)

VARIABLES
  snapshot,
  report                     \* the last call of build_report_record

recordVars == <<evidenceVars, snapshot, report>>

NotVerified == "EVIDENCE_NOT_VERIFIED_FOR_PUBLICATION"
MoneyUnits == {"MONEY", "MONEY_PER_ITEM"}
ValueTypes == {"MONEY", "INTEGER", "DECIMAL", "RATE"}
OtherUnits == {"ITEM", "ORDER", "EVENT", "PERCENT", "RATIO", "COUNT"}
OtherStates == {"EMPTY", "BLOCKED", "UNAVAILABLE", "CONFLICT", "INVALID", "NOT_APPLICABLE"}

Repeated(s) == \E i, j \in DOMAIN s : i < j /\ s[i] = s[j]

(* verify_metric_snapshot: a valid value has the form, the unit and the    *)
(* currency of its type ...                                                *)
SnapshotValueInvalid(s) ==
  \/ s.value = "none" \/ s.type \notin ValueTypes
  \/ s.unit \notin MoneyUnits \cup OtherUnits \/ s.reason
  \/ s.type = "MONEY" /\ (s.value # "decimal" \/ s.unit \notin MoneyUnits \/ ~s.currency)
  \/ s.type = "INTEGER" /\ (s.value # "integer" \/ s.currency \/ s.unit \in MoneyUnits)
  \/ s.type \in {"DECIMAL", "RATE"}
       /\ (s.value # "decimal" \/ s.currency \/ s.unit \in MoneyUnits)

(* ... and any other state has a reason and no value at all.               *)
SnapshotErrors(s) ==
  {e \in {"VERSION_OR_REFERENCE_INVALID", "MODE_CONTAMINATION", "TIMESTAMP_INVALID",
          "PERIOD_INVALID", "HASH_MISMATCH", "STATE_INVALID", "VALUE_INVALID",
          "NON_VALID_VALUE", "MALFORMED"} :
     CASE e = "VERSION_OR_REFERENCE_INVALID" -> s.chain = "none"
       [] e = "MODE_CONTAMINATION" -> s.mode = "contaminated"
       [] e = "TIMESTAMP_INVALID" -> s.period = "malformed"
       [] e = "PERIOD_INVALID" -> s.period = "reversed"
       [] e = "HASH_MISMATCH" -> ~s.sealed
       [] e = "STATE_INVALID" -> s.state \notin {"VALID"} \cup OtherStates
       [] e = "VALUE_INVALID" -> s.state = "VALID" /\ SnapshotValueInvalid(s)
       [] e = "NON_VALID_VALUE" ->
            s.state \in OtherStates
              /\ (<<s.value, s.type, s.unit>> # <<"none", "none", "none">> \/ s.currency \/ ~s.reason)
       [] e = "MALFORMED" -> Repeated(s.limitations)}

(* _validate_evidence_binding: the verifier runs without a loader, so the  *)
(* retained bytes are not looked at; then the chain must be the one the    *)
(* snapshot names and its root the snapshot.                               *)
Bound(s, g) ==
  /\ g.id = s.chain
  /\ g.tenant = s.tenant /\ g.mode = s.mode
  /\ g.root = s.ref

(* The items of a list but the one.                                        *)
AddedUnless(item, kept, next) == IF next = item THEN kept ELSE Append(kept, next)
Without(items, item) ==
  LET kept[i \in 0..Len(items)] ==
        IF i = 0 THEN << >> ELSE AddedUnless(item, kept[i - 1], items[i])
  IN kept[Len(items)]

(* A slip: the limitation is added without looking whether it is there.    *)
LimitationsAppended(s, withChain) ==
  IF withChain THEN Without(s.limitations, NotVerified)
  ELSE Append(s.limitations, NotVerified)

Limitations(s, withChain) ==
  IF withChain THEN Without(s.limitations, NotVerified)
  ELSE IF NotVerified \in Range(s.limitations) THEN s.limitations
  ELSE Append(s.limitations, NotVerified)

RecordOf(s, g, withChain) ==
  [ref |-> s.ref, tenant |-> s.tenant, mode |-> s.mode, chain |-> s.chain,
   chainHash |-> IF withChain THEN g.id ELSE "none",
   publication |-> IF withChain THEN "EVIDENCE_VERIFIED" ELSE "PREVIEW_ONLY",
   limitations |-> Limitations(s, withChain),
   state |-> s.state, value |-> s.value, type |-> s.type, unit |-> s.unit,
   currency |-> s.currency, reason |-> s.reason, sealed |-> TRUE]

(* validate_report_record.                                                 *)
RecordValueInvalid(r) ==
  \/ r.type \notin ValueTypes \/ r.unit \notin MoneyUnits \cup OtherUnits \/ r.reason
  \/ r.type = "MONEY" /\ (r.value # "decimal" \/ r.unit \notin MoneyUnits \/ ~r.currency)
  \/ r.type = "INTEGER" /\ (r.value # "integer" \/ r.unit \in MoneyUnits \/ r.currency)
  \/ r.type \in {"DECIMAL", "RATE"}
       /\ (r.value # "decimal" \/ r.unit \in MoneyUnits \/ r.currency)

PublicationInvalid(r) ==
  IF r.publication = "PREVIEW_ONLY"
  THEN r.chainHash # "none" \/ NotVerified \notin Range(r.limitations)
  ELSE r.chainHash = "none" \/ NotVerified \in Range(r.limitations)

ValidRecord(r) ==
  /\ r.mode # "contaminated" /\ r.chain # "none"
  /\ r.state \in {"VALID"} \cup OtherStates
  /\ ~Repeated(r.limitations) /\ ~PublicationInvalid(r)
  /\ IF r.state = "VALID" THEN ~RecordValueInvalid(r)
     ELSE /\ <<r.value, r.type, r.unit>> = <<"none", "none", "none">>
          /\ ~r.currency /\ r.reason
  /\ r.sealed

NoReport == [withChain |-> FALSE, result |-> "NONE", record |-> << >>]

(* build_report_record, with the chain or without one.                     *)
BuildReportRecord(withChain) ==
  LET record == RecordOf(snapshot, graph, withChain)
      result == CASE SnapshotErrors(snapshot) # {} -> "REPORT_SNAPSHOT_INVALID"
                  [] SnapshotErrors(snapshot) = {} /\ withChain
                       /\ Errors(graph, store, FALSE, FALSE) # {} -> "REPORT_EVIDENCE_INVALID"
                  [] SnapshotErrors(snapshot) = {} /\ withChain
                       /\ Errors(graph, store, FALSE, FALSE) = {}
                       /\ ~Bound(snapshot, graph) -> "REPORT_EVIDENCE_BINDING_MISMATCH"
                  [] OTHER -> IF ValidRecord(record) THEN "BUILT" ELSE "REPORT_RECORD_INVALID"
  IN /\ report' = [withChain |-> withChain, result |-> result,
                   record |-> IF result = "BUILT" THEN <<record>> ELSE << >>]
     /\ UNCHANGED <<evidenceVars, snapshot>>

RecordInit == EvidenceInit /\ snapshot \in Snapshots /\ report = NoReport

RecordNext ==
  \/ EvidenceChange /\ report' = NoReport /\ UNCHANGED snapshot
  \/ \E withChain \in BOOLEAN : BuildReportRecord(withChain)

RecordSpec == RecordInit /\ [][RecordNext]_recordVars
-----------------------------------------------------------------------------
(* The two validators agree: a snapshot the evidence verifier accepts      *)
(* always becomes a record, a preview without a chain, and a verified      *)
(* record with a chain that is right and has this snapshot as its root.    *)
(* The record has the snapshot's value, and says that its evidence is not  *)
(* verified if and only if no chain was verified for it.                   *)
EverySnapshotReports ==
  LET r == report.record[1]
      acceptable == /\ SnapshotErrors(snapshot) = {}
                    /\ report.withChain =>
                         /\ Errors(graph, store, FALSE, FALSE) = {}
                         /\ Bound(snapshot, graph)
  IN report.result # "NONE" =>
       /\ report.result = "BUILT" <=> acceptable
       /\ report.result = "BUILT" =>
            /\ <<r.ref, r.tenant, r.mode>> = <<snapshot.ref, snapshot.tenant, snapshot.mode>>
            /\ <<r.state, r.value, r.type, r.unit>>
                 = <<snapshot.state, snapshot.value, snapshot.type, snapshot.unit>>
            /\ Cardinality({i \in DOMAIN r.limitations : r.limitations[i] = NotVerified})
                 = IF report.withChain THEN 0 ELSE 1
=============================================================================
