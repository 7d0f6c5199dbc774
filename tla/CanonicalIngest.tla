-------------------------- MODULE CanonicalIngest --------------------------
(***************************************************************************)
(* SyntheticCsvCanonicalIngestor: several ingestors publish report files   *)
(* into one ledger.  ingest plans on a fork of the ledger, taken under its *)
(* lock, and later hands the plan to append_batch, which checks it again   *)
(* against whatever the ledger has become.                                 *)
(***************************************************************************)
EXTENDS LedgerRules, SequencesExt

CONSTANTS
  Ingestors,       \* threads that call ingest
  Requests,        \* the calls they make: [upload, account]
  Malformed,       \* a row that normalize_row refuses
  EventIdPlace,    \* place of each event id in string order
  NoPlan, NoResult

(* A line of a report normalize_row can read.                              *)
ReportLine == [operation : BusinessKeys, type : {Sale, Return}, revision : Nat \ {0},
               supersedes : EventIds \cup {NoId}, reversalOf : EventIds \cup {NoId},
               good : Goods, quantity : Nat \ {0}, amount : Nat, time : Nat]

(* An uploaded file: its raw file id, its tenant, its bytes (standing for  *)
(* their SHA-256), the rows they parse to, and what the schema gate said.  *)
ReportFile == [id : Files, tenant : Tenants, bytes : Contents, valid : BOOLEAN,
               rows : Seq({Malformed} \cup ReportLine)]

(* A call whose lines have the ids the rest of the model knows.            *)
Readable(r) ==
  /\ r \in [upload : ReportFile, account : Accounts]
  /\ \A n \in DOMAIN r.upload.rows :
       /\ n + 1 \in Lines
       /\ r.upload.rows[n] # Malformed =>
            LET id == <<r.upload.rows[n].operation, r.upload.rows[n].revision>>
            IN id \in EventIds /\ EventIdPlace[id] \in Nat

ASSUME RequestsAssumption == \A r \in Requests : Readable(r)
ASSUME PlacesAssumption ==
  \A a, b \in EventIds : EventIdPlace[a] = EventIdPlace[b] => a = b

(* RawStorage.store refuses other bytes under a raw file id it knows.      *)
ASSUME SameFileSameBytes ==
  \A a, b \in {r.upload : r \in Requests} :
     a.tenant = b.tenant /\ a.id = b.id => a.bytes = b.bytes
ASSUME SameBytesSameRows ==
  \A a, b \in {r.upload : r \in Requests} : a.bytes = b.bytes => a.rows = b.rows

(* Ids are digests, diagnostics the codes of the errors they report.       *)
ASSUME DigestsAssumption ==
  /\ Tenants \X Contents \X Lines \subseteq SourceIds
  /\ Accounts \X EventIds \X SourceIds \subseteq IdempotencyKeys
ASSUME DiagnosticsAssumption ==
  {"NORMALIZATION_FAILED", "EVENT_SUPERSESSION_INVALID", "EVENT_REVERSAL_INVALID",
   "EVENT_REVERSAL_REQUIRED", "EVENT_REVERSAL_EXCEEDS_ORIGINAL",
   "EVENT_REVERSAL_UNIT_MISMATCH"} \subseteq Diagnostics

VARIABLES
  ledger,
  plan,        \* per ingestor: what it has planned and not yet published
  last,        \* the result of the latest call to return or raise
  reported     \* history: rows and events all results claim as inserted

vars == <<ledger, plan, last, reported>>

-----------------------------------------------------------------------------
(* From a file to source rows and events.                                  *)

(* Slip: the raw file id takes part in the source record id.               *)
SourceRecordIdOfUpload(u, n) == <<u.tenant, u.id, n + 1>>

(* A digest of tenant, file hash, row number and row hash.                 *)
SourceRecordId(u, n) == <<u.tenant, u.bytes, n + 1>>

(* Slip: rows are numbered from 1, as if the file had no header.           *)
RowOfNumberedFromOne(u, n, diagnostics) ==
  [tenant |-> u.tenant, id |-> SourceRecordId(u, n), file |-> u.id,
   line |-> n, diagnostics |-> diagnostics, content |-> u.bytes]

RowOf(u, n, diagnostics) ==
  [tenant |-> u.tenant, id |-> SourceRecordId(u, n), file |-> u.id,
   line |-> n + 1, diagnostics |-> diagnostics, content |-> u.bytes]

ReportEventId(line) == <<line.operation, line.revision>>

(* normalize_row.  The payload names the source record, so the idempotency *)
(* key, a digest of it, differs between files that repeat an operation.    *)
EventOf(r, n) ==
  LET line == r.upload.rows[n] IN
  [tenant |-> r.upload.tenant, id |-> ReportEventId(line),
   account |-> r.account, key |-> line.operation, type |-> line.type,
   revision |-> line.revision,
   idem |-> <<r.account, ReportEventId(line), SourceRecordId(r.upload, n)>>,
   supersedes |-> line.supersedes, reversalOf |-> line.reversalOf,
   source |-> SourceRecordId(r.upload, n), content |-> r.upload.bytes,
   sound |-> TRUE, typed |-> TRUE,
   good |-> line.good, quantity |-> line.quantity, amount |-> line.amount]

-----------------------------------------------------------------------------
(* _resolve_batch, on a staging ledger.                                    *)

MissingDependencyCodes ==
  {"EVENT_SUPERSEDED_TARGET_MISSING", "EVENT_REVERSAL_TARGET_MISSING"}
RowQuarantineCodes ==
  {"EVENT_SUPERSESSION_INVALID", "EVENT_REVERSAL_INVALID",
   "EVENT_REVERSAL_REQUIRED", "EVENT_REVERSAL_EXCEEDS_ORIGINAL",
   "EVENT_REVERSAL_UNIT_MISMATCH"}

(* staging.append of one item that goes to the plan if it is accepted.     *)
Stage(st, t, n, row, e) ==
  LET verdict == Verdict(st.staging, t, row, e) IN
  IF st.code # "OK" THEN st
  ELSE IF verdict # "OK" THEN [st EXCEPT !.code = verdict]
  ELSE [staging |-> Insert(st.staging, row, e),
        pending |-> st.pending \ {n},
        items   |-> Append(st.items, [row |-> row, event |-> e]),
        code    |-> "OK"]

(* _candidate_order: superseding events first, then those a pending event  *)
(* supersedes, then by time and id; the sort is stable.                    *)
CandidateOrder(u, pending, n) ==
  LET line == u.rows[n]
      rank == IF line.supersedes # NoId THEN 0
              ELSE IF \E m \in pending : u.rows[m].supersedes = ReportEventId(line)
                THEN 1
              ELSE 2
  IN <<rank, line.time, EventIdPlace[ReportEventId(line)], n>>

Precedes(a, b) ==
  \E i \in DOMAIN a : a[i] < b[i] /\ \A j \in 1..(i - 1) : a[j] = b[j]

(* Slip: the candidates are tried in the order of the file.                *)
FirstReadyInFile(u, pending, ready) ==
  CHOOSE n \in ready : \A m \in ready : n <= m

FirstReady(u, pending, ready) ==
  CHOOSE n \in ready : \A m \in ready \ {n} :
     Precedes(CandidateOrder(u, pending, n), CandidateOrder(u, pending, m))

(* The rows normalize_row can read.                                        *)
Candidates(u) == {n \in DOMAIN u.rows : u.rows[n] # Malformed}

(* One round of the while loop: the first candidate whose references are   *)
(* there is planned, or quarantined, or its error ends the call.           *)
Round(r, st) ==
  LET u == r.upload
      verdict(n) == Verdict(st.staging, u.tenant,
                            RowOf(u, n, NoDiagnostics), EventOf(r, n))
      ready == {n \in st.pending : verdict(n) \notin MissingDependencyCodes}
      n == FirstReady(u, st.pending, ready)
  IN IF st.code # "OK" THEN st
     ELSE IF ready = {} THEN [st EXCEPT !.code = "BATCH_DEPENDENCY_UNRESOLVED"]
     ELSE IF verdict(n) \in RowQuarantineCodes
       THEN Stage(st, u.tenant, n, RowOf(u, n, verdict(n)), NoEvent)
     ELSE Stage(st, u.tenant, n, RowOf(u, n, NoDiagnostics), EventOf(r, n))

(* The rows normalize_row refuses are quarantined first, in file order.    *)
Immediate(L, r) ==
  LET u == r.upload
      staged[n \in 0..Len(u.rows)] ==
        IF n = 0
          THEN [staging |-> L, pending |-> Candidates(u), items |-> <<>>, code |-> "OK"]
        ELSE IF u.rows[n] # Malformed THEN staged[n - 1]
        ELSE Stage(staged[n - 1], u.tenant, n,
                   RowOf(u, n, "NORMALIZATION_FAILED"), NoEvent)
  IN staged[Len(u.rows)]

(* Then the candidates, one round for each of them.                        *)
PlanOn(L, r) ==
  LET rounds == Cardinality(Candidates(r.upload))
      resolved[i \in 0..rounds] ==
        IF i = 0 THEN Immediate(L, r) ELSE Round(r, resolved[i - 1])
  IN resolved[rounds]

(* Slip: every accepted item counts as inserted, duplicates included.      *)
AppendBatchCountingItems(L, t, items) ==
  LET apply(acc, o) ==
        LET verdict == Verdict(acc.ledger, t, o.row, o.event) IN
        IF acc.code # "OK" THEN acc
        ELSE IF verdict # "OK"
          THEN [ledger |-> L, code |-> verdict, rows |-> 0, events |-> 0]
        ELSE [ledger |-> Insert(acc.ledger, o.row, o.event), code |-> "OK",
              rows |-> acc.rows + 1,
              events |-> acc.events + (IF o.event = NoEvent THEN 0 ELSE 1)]
  IN FoldLeft(apply, [ledger |-> L, code |-> "OK", rows |-> 0, events |-> 0], items)

(* append_batch: all items, or the first error and the ledger as it was.   *)
ApplyItem(L, t, acc, o) ==
  LET verdict == Verdict(acc.ledger, t, o.row, o.event) IN
  IF acc.code # "OK" THEN acc
  ELSE IF verdict # "OK"
    THEN [ledger |-> L, code |-> verdict, rows |-> 0, events |-> 0]
  ELSE [ledger |-> Insert(acc.ledger, o.row, o.event), code |-> "OK",
        rows |-> acc.rows + NewRows(acc.ledger, o.row),
        events |-> acc.events + NewEvents(acc.ledger, o.event)]

AppendBatch(L, t, items) ==
  LET applied[i \in 0..Len(items)] ==
        IF i = 0 THEN [ledger |-> L, code |-> "OK", rows |-> 0, events |-> 0]
        ELSE ApplyItem(L, t, applied[i - 1], items[i])
  IN applied[Len(items)]

-----------------------------------------------------------------------------
Result(r, code, rows, events) ==
  [request |-> r, code |-> code, rows |-> rows, events |-> events]

Init ==
  /\ ledger = EmptyLedger
  /\ plan = [p \in Ingestors |-> NoPlan]
  /\ last = NoResult
  /\ reported = [rows |-> 0, events |-> 0]

(* ingest up to append_batch: the file must be VALID, then the batch is    *)
(* resolved on a fork; only this ingestor sees the plan.                   *)
Plan(p, r) ==
  /\ plan[p] = NoPlan
  /\ r.upload.valid
  /\ PlanOn(ledger, r).code = "OK"
  /\ plan' = [plan EXCEPT ![p] =
                [request |-> r, items |-> PlanOn(ledger, r).items]]
  /\ UNCHANGED <<ledger, last, reported>>

PlanRaises(p, r) ==
  /\ plan[p] = NoPlan
  /\ ~r.upload.valid \/ PlanOn(ledger, r).code # "OK"
  /\ last' = Result(r, IF r.upload.valid THEN PlanOn(ledger, r).code
                                         ELSE "RAW_FILE_NOT_VALID", 0, 0)
  /\ UNCHANGED <<ledger, plan, reported>>

(* Slip: the plan is written as it was made, without a second look.        *)
PublishUnchecked(p) ==
  LET items == plan[p].items
      events == SelectSeq(items, LAMBDA o : o.event # NoEvent)
  IN
  /\ plan[p] # NoPlan
  /\ ledger' = FoldLeft(LAMBDA L, o : Insert(L, o.row, o.event), ledger, items)
  /\ plan' = [plan EXCEPT ![p] = NoPlan]
  /\ last' = Result(plan[p].request, "OK", Len(items), Len(events))
  /\ reported' = [rows   |-> reported.rows + Len(items),
                  events |-> reported.events + Len(events)]

(* Slip: a refused item ends the batch and what went before it stays.      *)
PublishUpToRefusal(p) ==
  LET r == plan[p].request
      apply(L, o) == IF Verdict(L, r.upload.tenant, o.row, o.event) = "OK"
                       THEN Insert(L, o.row, o.event) ELSE L
  IN
  /\ plan[p] # NoPlan
  /\ ledger' = FoldLeft(apply, ledger, plan[p].items)
  /\ plan' = [plan EXCEPT ![p] = NoPlan]
  /\ last' = Result(r, "OK", 0, 0)
  /\ UNCHANGED reported

(* append_batch and the counting of its results.                           *)
Publish(p) ==
  LET r == plan[p].request
      done == AppendBatch(ledger, r.upload.tenant, plan[p].items)
  IN
  /\ plan[p] # NoPlan
  /\ ledger' = done.ledger
  /\ plan' = [plan EXCEPT ![p] = NoPlan]
  /\ last' = Result(r, done.code, done.rows, done.events)
  /\ reported' = [rows |-> reported.rows + done.rows,
                  events |-> reported.events + done.events]

Next ==
  \/ \E p \in Ingestors, r \in Requests : Plan(p, r)
  \/ \E p \in Ingestors, r \in Requests : PlanRaises(p, r)
  \/ \E p \in Ingestors : Publish(p)

Spec == Init /\ [][Next]_vars

-----------------------------------------------------------------------------
RowsOf(u) == {x \in Rows(ledger) : x.tenant = u.tenant /\ x.content = u.bytes}

(* Every variable has its type.                                            *)
TypeOK ==
  /\ Rows(ledger) \subseteq SourceRow
  /\ Events(ledger) \subseteq CanonicalEvent
  /\ \A p \in Ingestors :
        plan[p] # NoPlan =>
          /\ plan[p].request \in Requests
          /\ \A i \in DOMAIN plan[p].items :
                /\ plan[p].items[i].row \in SourceRow
                /\ plan[p].items[i].event \in CanonicalEvent \cup {NoEvent}
  /\ last # NoResult => last.request \in Requests
  /\ reported \in [rows : Nat, events : Nat]

(* A file is published as a whole or not at all: a row of it is in the     *)
(* ledger only if all of its rows are, malformed ones included, however    *)
(* plans made on old forks fail.                                           *)
WholeFileOrNothing ==
  \A u \in {r.upload : r \in Requests} :
     RowsOf(u) # {} => {x.line : x \in RowsOf(u)} = {n + 1 : n \in DOMAIN u.rows}

(* The same bytes are one source file: two ingestors, a second upload of   *)
(* the file or a retry never store a line of it twice.                     *)
OneRowPerLine ==
  \A x, y \in Rows(ledger) :
     /\ x.tenant = y.tenant /\ x.content = y.content /\ x.line = y.line
     => x = y

(* A VALID row has exactly one event, a quarantined row has none: nothing  *)
(* quarantined is published and nothing valid is lost.                     *)
OneEventPerValidRow ==
  \A x \in Rows(ledger) :
     Cardinality({e \in Events(ledger) : e.tenant = x.tenant /\ e.source = x.id})
       = IF IsValid(x) THEN 1 ELSE 0

(* Returns stay within their sale although each was planned against a fork *)
(* that may have missed the others.                                        *)
ReturnsWithinSale == WithinOriginalIn(ledger)

(* What all results together claim to have inserted is what the ledger     *)
(* holds: concurrent imports of one file are not counted twice.            *)
ReportedOnce ==
  /\ reported.rows = Cardinality(Rows(ledger))
  /\ reported.events = Cardinality(Events(ledger))

(* Importing a published file again, for the same account, returns the     *)
(* existing publication.                                                   *)
ReplayReturnsPublication ==
  last # NoResult =>
    LET u == last.request.upload
        published == /\ u.valid
                     /\ RowsOf(u) # {}
                     /\ \A e \in Events(ledger) :
                          e.source \in {x.id : x \in RowsOf(u)}
                            => e.account = last.request.account
    IN published => last.code = "OK"

-----------------------------------------------------------------------------
(* The order of the rows in a file does not matter: for a file whose       *)
(* events are all different, exchanging two neighbouring rows changes      *)
(* neither the code nor what is published and quarantined.                 *)
Swapped(rows, n) ==
  [rows EXCEPT ![n] = rows[n + 1], ![n + 1] = rows[n]]

OutcomeOf(st) ==
  [code |-> st.code,
   published |-> {o.event.id : o \in {st.items[i] : i \in {j \in DOMAIN st.items :
                                        st.items[j].event # NoEvent}}},
   quarantined |-> Cardinality({i \in DOMAIN st.items : st.items[i].event = NoEvent})]

DistinctEvents(rows) ==
  \A m, n \in DOMAIN rows :
     m # n /\ rows[m] # Malformed /\ rows[n] # Malformed
       => ReportEventId(rows[m]) # ReportEventId(rows[n])

RowOrderIrrelevant ==
  \A r \in Requests :
     RowsOf(r.upload) = {} /\ DistinctEvents(r.upload.rows) =>
       \A n \in 1..(Len(r.upload.rows) - 1) :
          OutcomeOf(PlanOn(ledger, [r EXCEPT !.upload.rows = Swapped(@, n)]))
            = OutcomeOf(PlanOn(ledger, r))
=============================================================================
