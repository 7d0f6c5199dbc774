# A TLA+ model of quantum-analytics

The repository is a Python backend (under `src/quantum/`) that takes marketplace
report files from upload to a canonical, append-only ledger of events, and computes and
reports money from it. This directory holds TLA+ modules for its components, TLC
configurations for them, and proofs.

## 1. The system

| Component | State | Operations | Interaction | What is hard, and what makes it correct |
|---|---|---|---|---|
| Canonical ledger (`infrastructure/in_memory_canonical_ledger.py`, `domain/`) | five dictionaries, one `RLock` | `append`, `append_batch`, `fork`, `get_event`, `get_source_row`, `trace_event`, `list_*` | called by the ingestors | batch rollback, chains of revisions, cumulative returns, two-step trace; the indexes agree, every event is traceable, history is append-only, readers see whole batches |
| Canonical ingest (`ingestion/canonical_pipeline.py`, `adapters/wildberries/synthetic.py`) | none between calls | `ingest` | reads raw storage, plans on a fork of the ledger, publishes with `append_batch` | stale plans, concurrent imports and retries, rows that refer to each other in any order; whole file or nothing, no double counting |
| Receipts, raw storage, schema gate (`ingestion/receipts.py`, `storage.py`, `schema_registry.py`, `fingerprints.py`) | receipts in memory; a content file per digest, a record file per raw id; two kinds of locks | `receive`, `store`, `read`, `transition`, `inspect` | gate drives the record's state; ingest accepts only VALID records | crash between files, a write that fails after `os.replace`, a stale VALIDATING record, damaged contents; the gate fails closed, verdicts stand |
| Immutable object store (`infrastructure/local_raw_storage.py`) | files | `put_immutable`, `open_read` | used by the proof pipeline | temporary names that outlive their process, hard-link publication, broken streams; a key takes one value for ever |
| JSON event ledger, proof pipeline (`infrastructure/json_event_ledger.py`, `ingestion/proof_pipeline.py`) | one JSON file, one JSONL file, a quarantine | `add_if_absent`, `import_csv_for_proof`, `build_metric_evidence` | pipeline puts the object, then events one by one, then source records | a crash or a collision between two files; no event without its file, nothing counted twice |
| Access registry (`access/contracts.py`) | invites, accounts, one lock | issue, activate, verify, account | gives the `TenantContext` used everywhere | racing activations, times taken before the lock; an invite opens one account and only before it expires |
| Dataset admission (`ingestion/_admission_*_v2.py`, `admission_v2.py`) | records with their decisions, five dictionaries of owners, one lock | `declare`, `inspect_and_validate`, `admit`, `revoke`, `require_admitted` | inspects XLSX files, gates reconciliation | retried inspections, claims that outlive a rejection, order of evidence and decisions; admitted only on evidence about the last inspection, nothing admitted twice |
| XLSX inspection (`ingestion/_xlsx_*.py`) | none | inspect a package | before admission | many passes over one archive, each with its own way to resolve names; what was matched is all there is |
| Finance (`finance/`) | bounded cache of trusted rule resolutions | resolve rules, evaluate rules and expressions, calculate profit | rules come with the call | resolutions kept across changes, eviction, rewriting of IF, rounding; only the rule that applies now gives a value, and results equal the reference |
| Reconciliation (`reconciliation/`) | none | reconcile totals | after calculation, on an admission record passed by value | tolerance and precision |
| Evidence (`evidence/`) | none | verify a chain, verify a snapshot | over the results of the others | cycles, missing links, bytes that changed |
| Reporting (`reporting/`) | none | records, pages, export and import | reads snapshots and chains | two validators that must agree, cursors against changed records, damage on the way |
| UX (`ux/`) | none | build forms, apply values, exception inbox, drill-down | on top of reports and raw file records | status, problems and exceptions that must say the same; nothing missed by the inbox |
| Dependency admission, scripts, API, worker, migrations | none | | | build-time checks and stubs |

`PROJECT.json` lists every component with its status and every hazard at its line.

## 2. The modules

```
LedgerRules                     admission rules as operators on a ledger value
  |-- LedgerRulesProofs         what these operators preserve
  |-- LedgerContract            what the ledger promises: a growing, consistent history
  |-- CanonicalLedger           the ledger under threads; implements LedgerContract
  |     |-- MCCanonicalLedger   a small pool of submissions
  |     `-- CanonicalLedgerProofs
  `-- CanonicalIngest           ingestors that plan on a fork and publish later
        |-- MCCanonicalIngest   small report files
        `-- CanonicalIngestProofs
RawStorage                      receipts, files, schema gate, crashes
  |-- MCRawStorage
  `-- UploadProofs             RawStorage and XlsxInspection
ObjectStore                     put_immutable; implements WriteOnceStore
  `-- ProofPipeline             import with object, events and source records; crashes
        |-- MCProofPipeline
        `-- ProofPipelineProofs both modules
AccessRegistry                  invites and accounts
  `-- DatasetAdmission          declarations, inspections, evidence, admission
        |-- MCDatasetAdmission
        `-- DatasetAdmissionProofs   both modules
TypedValues                     states, signatures, numbers
  |-- SafeExpression            expressions: validation, IF, evaluation
  `-- FinancialKernel           the profit waterfall and its reference
RuleResolution                  which rule applies; the cache of resolutions
        |-- MCFinance           RuleResolution, SafeExpression and FinancialKernel
        `-- FinanceProofs       the same three
EvidenceChain                   the evidence graph and its verifier
  `-- ReportRecord              from snapshot to record
ReportDelivery                  pages, exports, imports
  `-- MCReportDelivery
Reconciliation                  totals within tolerance
Presentation                    forms, views, inbox
        |-- MCPublication       all of the last five
        `-- PublicationProofs   all of the last five
XlsxInspection                  from an archive to a matched sheet
  `-- MCXlsxInspection          proofs in UploadProofs
        `-- MCFiles             MCProofPipeline and MCXlsxInspection
```

**LedgerRules.** A ledger value is a record of the five dictionaries. `Verdict` is
`_append_locked` up to its first assignment and returns the error code the code raises,
`Insert` is the rest of it. Rows and events are records with the fields the rules compare.
The checks that concern one event alone (syntax, time zones, hashes of the payload) are one
boolean `sound`, a payload with readable quantity and amount is `typed`. The operators
marked *Slip* are plausible errors of this code, used only to show that each property
notices one of them.

**CanonicalLedger.** `append` is one action, or two: accepted and refused. `append_batch` is
several: it takes the lock and backs up, applies item by item, and returns or restores.
What a reader, who needs the lock, may see is `Committed`, which is the backup while a batch
runs. `trace_event` is two actions, because it takes the lock twice. Threads are not named:
the lock admits one batch at a time, and a batch keeps nothing of its thread.

**LedgerContract.** Two sets, rows and events, which grow by whole batches and always form a
history: agreeing keys, traceable, chained, within the sale; and the answer of the latest call,
which tells exactly how much it has inserted, nothing if it raised. It knows no dictionary, lock
or rollback. `CanonicalLedger` implements it with `rows <- Rows(Committed)`,
`events <- Events(Committed)` and the sums of the results as `answer`, which a batch collects
item by item.

**CanonicalIngest.** `Plan` is `ingest` up to `_resolve_batch` on a fork taken at that moment,
`Publish` is `append_batch` with its counting. Between the two anything may happen, and a plan
may be lost by never being published. `append_batch` is one step here, since CanonicalLedger
shows that it looks like one. `Round` is one turn of the `while` loop: since the body removes
one candidate and starts over, one round per candidate is the whole loop. A file
is a sequence of parsed rows; equal bytes have equal rows (`SameBytesSameRows`), a raw file id keeps
its bytes, since `store` refuses others (`SameFileSameBytes`), and a row may be one that
`normalize_row` refuses. Fingerprints, batch ids and hashes depend on the bytes
alone and are represented by them.

**RawStorage.** One tenant. A call is a sequence of steps of a thread, one per time it takes
the storage lock; inside `store` the lock is held over the two writes. `os.replace` makes a
write atomic, but a write may also fail *after* it, when the directory is synced: a
failing action therefore leaves either the old or the new file. `Crash` empties what is in
memory. `Damage` changes or removes a content file behind the program's back; `damaged`
remembers where. Errors are injected in writes; a failing read of a content leads where a
damaged content leads.

**ObjectStore, WriteOnceStore.** A name leads to an inode and an inode holds bytes, so that a
file which is still being written can be seen under its final name if it was linked too early.
A put is a sequence of file operations: look at the key, open the temporary name (`"xb"`),
copy and compare the digest, link, unlink. Processes may die between any two and leave their
temporary file. `StoresOnce` says that what the keys show behaves like `WriteOnceStore`, in
which a key takes one value, for ever, and what was acknowledged can be read.

**ProofPipeline.** Extends the store. An import quarantines a file (copy, then diagnostics) or
puts it, reads the source records, adds events row by row, each an atomic replacement of the
JSON file (`AddIfAbsent`), and rewrites the source records. A row that collides with another
event of the same id ends the import with what it has written so far. `ImporterCrash` may fall
between any two of these; in the middle of the rewrite it leaves a prefix of the sorted
records, perhaps with a broken last line. A second process puts objects meanwhile.

**AccessRegistry, DatasetAdmission.** `activate_invite` is two actions, since its time is an
argument that is checked only under the lock. The admission registry does everything
under one lock, so that each call is one action; calls that raise change nothing and are no
actions. A file stands for its bytes; `Inspect` is what the XLSX inspection makes of it under a
policy. `owner` is the five dictionaries of owners in one, with the kind in the key. Times are
the callers', as in the code. The two registries share no state and their calls commute; the
run opens the accounts first.

**TypedValues, SafeExpression, FinancialKernel, RuleResolution.** A value is a state, a
signature and a number; numbers are exact rationals, and rounding (`Quantized`) happens where
the code rounds. Expressions are built bottom up on a stack, by every program of pushes. What the
code does by recursion over an expression is a recursive function on `Trees`, the trees no higher than
`BuildLimit`, which bounds their nodes too:
`ValidExpression` is the validation of the whole tree, `Resolved` the rewriting of the IFs, `Eager`
the evaluation of what is left, and `Meaning` what the expression says. `Calculation` is the
kernel; `Oracle` is `finance/oracle.py`, which the repository tests the kernel with, on the amounts
as they are given. A synthetic variable of the rewriting is a kind of leaf of its own in the trees; that
its name, `if_state.0` and so on, is one of the caller's dependencies too is in `NoRoom`, which
makes the evaluation raise when that name is declared already or the list gets too long. The source ids
a value carries are left out, and so is that those beginning with `if_state.` are dropped.
`RuleResolution` has the catalogue change freely between a resolution and its evaluation. It
takes the expression evaluator as operators, which `MCFinance` binds to `SafeExpression`. A
behaviour of `MCFinance` exercises one of the three.

**EvidenceChain, ReportRecord.** A graph is a function of node ids, a set of edges and a root.
`SearchStep` is one round of the loop of `_has_cycle`, with its stack and the targets each node on it has
left; edges are of the 18 types of `EDGE_SIGNATURES`; `Searched` goes as many rounds as the graph can
need, as a recursive function that proofs can use. `Errors` is what `verify_evidence_chain` collects.
`SnapshotErrors` and `ValidRecord` are the two validators a snapshot has to pass on its way to a record.

**ReportDelivery.** Text is a short sequence of characters of four kinds, because two
conversions are about them: the CSV guard for cells that a spreadsheet would take for formulas,
and the splitting into lines. A payload is a bundle, a sequence of lines or rows with cells and
JSON; `Damage` drops, repeats or changes something in it.

**Reconciliation.** A decimal is a coefficient and an exponent; `ToPrecision` is what a decimal
context does to a difference, and `Precision` the number of digits the code asks for.

**Presentation.** Forms are built, filled again and again, and looked at in the inbox together
with records and imported files.

**XlsxInspection.** A package is a set of parts with their place in the archive, the list of sheets and
the relationships; names and targets are sequences of path segments, so that doubled folders, other cases
and relative targets exist. A part holds a worksheet or shared strings, the latter under
`xl/sharedStrings.xml` in any letter case, as the checks of part names and content admit; `SharedStrings`
is what the readers find, under that name as it is spelled. Changes that a program could make are applied
one by one, and `Inspect` runs the checks in the code's order.

## 3. The runs

| Run | Bounds | Distinct states | Shows |
|---|---|---|---|
| `ledger` | 11 submissions (a sale and its revision, a return and its revision, a competing return, a second tenant, a quarantined row, a second raw file id, three submissions to be refused), batches of up to 2 | 115,971 | the invariants below for every order of these calls, and the refinement |
| `ingest` | 2 ingestors, 10 requests over 6 files of up to 4 rows | 81,346 (with symmetry of the ingestors) | files published from stale plans, twice, under a second id, for a second account |
| `storage` | 2 threads, 3 files (one of each kind), 2 raw ids, 2 uploads, 1 failed write, 1 crash, 1 damage | 74,628 | safety and liveness through each of these failures |
| `files` | an importer and another process, 4 files with up to 3 rows (one collides, one corrects, one is quarantined), 3 imports, 1 put, 1 crash, 6 inodes; or 3 changes of a package with a sheet or a sheet and shared strings, 5 schemas | 1,530,149 | refinement and safety of the import through a crash at every point; the inspection |
| `admission` | 2 threads, 2 invites, times 0 and 1, 2 tenants, 7 declarations over 3 files with 2 workbooks, 2 policies, evidence right and wrong in each part, 9 decisions | 64,230 | claims, evidence, history |
| `finance` | 10 catalogues, 2 contexts, a cache of 2, 4 calls; expressions of up to 7 nodes (limit 6), dependencies at the limit and with the name `if_state.0`; 2 edits of a request | 1,277,595 | values come from the right rule, expression and amounts |
| `publication` | 2 edits of a graph of 17 nodes; 444 snapshots; 10 collections of up to 4 records, pages of 1 and 2; coefficients of up to 3 digits, 1 guard digit; 2 forms, 2 fillings | 95,120 | the way of a result to its readers |
| `source_records` | as the import part of `files` | | a counterexample, see below |
| `shared_strings` | as the inspection part of `files` | | a counterexample, see below |
| `jsonl_round_trip` | as the delivery part of `publication` | | a counterexample, see below |
| `revised_sale` | as `ledger`, single submissions | | a counterexample, see below |
| `replay` | as `ingest` | | a counterexample, see below |

*Why these bounds.* Every rule of the ledger compares one candidate with events of at most one
chain and one sale, so a chain of two, two competing returns and a second tenant reach every
branch. A batch of two is the smallest that can be refused halfway, with something to
roll back. Two ingestors are enough for a stale plan: any number of publications can come
between the plan and its publication, because the other ingestor may act many times. The
sources of failure in `RawStorage` leave the state in a form that the next step must cope
with; one of each, in every order and at every point, covers each pair of steps, and two
threads are enough for two callers on one file or one on each. In `files` one crash suffices
because it leaves files only, and three imports allow a failing one, its retry and a replay. In
`admission` two times are before and after, and nine decisions are a dataset that was inspected
twice, admitted and revoked, next to a second that competes with it. A cache of two with four calls evicts, and
uses what would have been evicted. Seven nodes are one more than the limit, and enough for an IF
whose condition or branch is an operation. Two edits reach each pair of things that can be wrong with a graph
or a request. The limits of the code (128 dependencies, 1000 digits, 10,000 records and
others) are constants here, given small values so that behaviours reach them.

*Properties of `ledger`*: `TypeOK`; `IndexesAgree`, the three event indexes hold the same
events; `Traceable`, each event has its VALID row and each locator a row; `RevisionsFormChains`;
`ReversalsWithinOriginal`; `TracedSourceStays`, a half-done trace can be completed;
`AppendOnly`; `ImplementsContract`.
*Of `ingest`*: `TypeOK`; `WholeFileOrNothing`; `OneRowPerLine`, the same bytes are never stored
twice; `OneEventPerValidRow`; `ReturnsWithinSale`; `ReportedOnce`, what results claim adds up
to what is stored; `RowOrderIrrelevant`, exchanging neighbouring rows of a file changes
nothing that is published.
*Of `storage`*: `TypeOK`; `RecordHasContent`; `GateFailsClosed`; `VerdictsStand`;
`EveryFileDecided`; `EveryCallReturns`.
*Of `files`*: `EventsHaveTheirFile`, also after failed imports; `PublishedIsComplete`, what an import
reported is in the ledger and in the records, once; `StoresOnce`, the refinement;
`ExclusionsStand`, a sale that was superseded or reversed never counts again;
`MatchedIsAllThereIs`, every byte is in one part and all content in the sheet that
was matched. Content is the cells of all parts and the strings of `xl/sharedStrings.xml`; strings in a part
of that name in another letter case are not spoken of, see `shared_strings` below. A shared string
without a text may be used by a cell of another sheet: such a cell has no content.
*Of `admission`*: `OneAccountPerInvite`; `EachAdmittedOnce`, no file, source, workbook or piece of
evidence serves two datasets; `AdmittedOnEvidence`, verified after the validation it is about and
before the admission; `HistoryStands`.
*Of `finance`*: `EvaluatedIsCurrent`; `RecentlyUsedAccepted`, the cache keeps what is used;
`ShortCircuit`, evaluation gives the meaning of the expression, and valid expressions raise for no
inputs of the declared signatures; `AgreesWithOracle`.
*Of `publication`*: `VerifiedIsEvidence`; `EverySnapshotReports`, the two validators agree;
`PagedExactly`; `ImportedWasExported`; `ReconciledWithinTolerance`, with a bound on the error of a
difference too long for its precision; `InboxIsComplete`.

`ShortCircuit` says of every evaluation that a result is the meaning of the expression, and of
those whose dependencies leave room for the synthetic variables that there is a result. The
synthetic variable of a condition without a value is one more dependency, and there is no room for it
if the rule already declares as many as the limit allows, or one of that name: nothing reserves the
prefix `if_state.`, which is a proper beginning of a name (`_expression_validation.py:24`). The caller's
variable is overwritten then, but never read, because the list of dependencies has its name twice and the
evaluation raises `EXPRESSION_DEPENDENCY_UNDECLARED`, although `docs/finance/SAFE_EXPRESSION_CONTRACT.md:205`
has a condition in `CONFLICT`, for instance, propagate as `CONFLICT`.

`AgreesWithOracle` compares the metrics with the reference on the amounts *at calculation scale*. The
kernel rounds every amount to that scale on its way in, as `RULE_INPUT_NORMALIZATION` of
`docs/finance/ROUNDING_POLICY.md` asks; `oracle.py` does not, and rounds once, at money scale. On amounts
with more digits than the calculation scale the two may publish different numbers: rent 5 and wages 5/2
of one unit, at whole numbers and half to even, are 7 from the kernel and 8 from the reference. The
repository compares them on amounts that have no such digits. Which requests get a profit at all is
compared on the amounts as they are given.

*Deadlock* is checked in the runs on ledger and ingest. In the others a bounded number of uploads,
imports, decisions, calls or changes can be used up, and a behaviour in which they are has come to
its end.

*Fairness* is assumed in `RawStorage` only. A thread inside a call is eventually scheduled
(weak fairness of `Step` per thread): nothing in the code waits for anything but a lock that
another thread releases in its own next step. `InspectBegin` is weakly fair per file: the
repository has no scheduler of its own, and the property says that a file whose verdict its
caller *keeps asking for* gets one, whatever state an earlier attempt left it in. Failures and
crashes are finite in number; nothing is claimed about a disk that fails for ever.

### Where the code and its documents disagree

* `replay` / `ReplayReturnsPublication`. `docs/data/IDEMPOTENCY_CONTRACT.md:44`: "Exact replay
  returns the existing publication outcome." A file with a sale, a return, a revision of that
  return and a second return is published. On a second import the superseded return is
  checked again, beside its own successor and the second return; the sum now exceeds the sale, the
  row is quarantined in the plan, and that version of the row conflicts with the stored one:
  `SOURCE_RECORD_CONFLICT`.
* `revised_sale` / `ReversalsWithinCurrentSale`.
  `docs/data/REVISION_REVERSAL_SUPERSESSION_CONTRACT.md:45`: "Total reversal cannot exceed the
  reversible economic quantity unless the event type explicitly permits over-adjustment and
  reconciliation flags it." Returns are counted per *revision* of the sale, and a sale may be
  revised without regard to what was returned of it.
* `source_records` / `SourceRecordsAppendOnly`. `docs/data/PROVENANCE_CONTRACT.md:40`: "Source
  records are append-only." `import_csv_for_proof` empties the file and writes all records again. A process
  that dies in between leaves a part of them, and those of files that were published earlier may be
  missing; if the last line was cut off, every later import fails on it, although
  `docs/data/IDEMPOTENCY_CONTRACT.md:47` says "Retry after worker crash resumes from durable checkpoints."
* `jsonl_round_trip` / `RoundTrips`. `docs/reporting/REPORTING_API_EXPORT_CONTRACT.md:76`: "JSON,
  JSONL, and CSV round trips preserve typed states, record hashes, Evidence Chain identifiers and
  content hashes". Lines are joined with a line feed and taken apart with `str.splitlines`, which
  also breaks at U+0085, U+2028 and U+2029: a record with one of them in a text, a limitation for
  instance, cannot be imported from its own export.
* `shared_strings` / `EverySharedStringIsUsed`. `tests/test_p16_rt_shared_strings.py:56`,
  `test_unreferenced_shared_string_is_rejected`: a package with a shared string that no cell uses
  raises `XLSX_SHARED_STRING_UNUSED`. The test has the string in `xl/sharedStrings.xml`. A part
  `xl/SharedStrings.xml` is admitted by the checks, which fold names (`_xlsx_package_parts.py:145`,
  `_xlsx_content_model.py:310`), and not found by the readers, which do not (`_xlsx_cell_structure.py:26`,
  `_xlsx_archive.py:239`): the package counts as one without shared strings, and is matched.

## 4. The proofs

TLC checks the small instances of section 3; the eight modules named `...Proofs` state the
same definitions as theorems, for every value of the constants that satisfies the named
assumptions, and TLAPS checks every step. `PROJECT.json` lists the theorems with the properties
they state. The inductive invariants were checked with TLC on the runs first.

**Ledger** (`LedgerRulesProofs`, `CanonicalLedgerProofs`). For any sets of tenants, ids and values,
any set of offers and any length of batches, `Spec` implies always `TypeOK`, `IndexesAgree`,
`Traceable`, `RevisionsFormChains`, `ReversalsWithinOriginal` and `TracedSourceStays`; every step
satisfies `AppendOnly`, and the ledger implements `LedgerContract`. Assumed is that the values
that stand for `None` are none of the proper values, that offers are pairs of rows and events,
and that a batch may hold at least one item.

None of these invariants is inductive alone. A rollback must restore a ledger that was already
consistent, and `AppendOnly` compares what readers saw before a batch with what they see after
it. The inductive invariant is

```
LedgerInv == TypeOK /\ Sound(ledger) /\ Sound(backup)
             /\ (inBatch => Extends(ledger, backup))
             /\ (traced # NoEvent => traced \in Events(Committed))
```

where `Sound` joins, of one ledger value, agreement of indexes, traceability, chains, finiteness,
the limit on returns and `ReturnsFollowIn`: a return is there only after its sale. The
argument goes: `Insert` of a pair that `Verdict` accepts keeps `Sound` and `Extends`
(lemmas, one per part); every action either does this, copies a ledger, restores one or leaves all
alone. Traceability is the subtle part: the row of an accepted pair may be dropped in
favour of a stored one with the same fingerprint, and the fingerprint must determine all that
lineage looks at. `RevisionsFormChains` needs `IndexesAgree`: the check finds the superseded event
by id, the invariant finds it by revision. The limit on returns needs `ReturnsFollowIn`, since a new
sale must not find returns of itself, and a lemma on sums: a sum of quantities is counted unit by
unit, as the size of a set of pairs, so that the theorems on finite sets apply to it.

For the refinement the contract has to see a whole batch appear at once. `BatchInv` says that while a
batch runs there is a set of offers, of one tenant and no more than the batch may hold, such that
the ledger is what publishing this set on top of the backup leaves, and the counters say how much
that inserts. The release of the lock is then one step of the contract, and all other
steps inside a batch are stutters.

**Ingest** (`CanonicalIngestProofs`). For any files, rows, ingestors and orders of rows: `TypeOK`,
`WholeFileOrNothing`, `OneRowPerLine`, `OneEventPerValidRow`, `ReturnsWithinSale`, `ReportedOnce`
and `RowOrderIrrelevant`. Assumed is that requests have their types, that equal bytes parse to equal
rows and one raw file id has one content, that different event ids have different places in the
order of strings, and that the digests and error codes the code makes are among the ids and diagnostics.

A plan is the result of a loop, and so is a publication. Both are recursive functions in the
model, one round per candidate and one per item. The proofs about them use induction
on the number of rounds, with the set of numbers for which the claim holds in place of a predicate,
and the least number outside of it (`BoundedInduction`); `Recursion` shows that
the functions exist and satisfy their equations. What the loop over candidates guarantees is
that the plan has an item for every line (`Covers`): the candidate taken in a round exists because
the order of the code, a number and the place of an id, has a least element on a nonempty set.
The inductive invariant `IngestInv` is

```
Filed(ledger)    Sound; every row, event and locator was made from a line of an uploaded
                 file; every VALID row has its event; a file is there with all lines or none
PlanMade         a plan that waits has items of its own request only, and covers every line
ReportedOnce     what results claim is what is stored
```

Plans are stale by the time they are published, and nothing in `PlanMade` is about the ledger: all
guarantees come from `append_batch` checking everything again, which is what the proof shows
to be enough. `OneRowPerLine` and `OneEventPerValidRow` come from `Filed`, because a line of given bytes
has one source record id whatever raw file id it was uploaded under.

`RowOrderNeverMatters` is proved for any permutation of the rows of a file and used for the
exchange of two neighbours. The two files are planned side by side, and after every round the two
states are `Twins`: the pending rows correspond under the permutation, the items agree in what they
publish, and the two forks of the ledger hold the same events but for the source rows these name
(`Similar`). Three things make a round keep that:

```
NewAlike          what the checks say of an event depends on the source row only where it looks
                  for a replay; for a line that is new to the ledger (Fresh) nothing of that kind
                  is left, and all other checks say the same on similar ledgers (ActiveAlike: the
                  active returns correspond one to one, so quantities and amounts add up alike)
FirstReadyMoves   of several ready candidates the one taken is the same row wherever it stands: rank,
                  time and id decide before the line number does, because different rows of the
                  file have different event ids
UnpublishedIsNew  a file with no row in the ledger has left no event, key or locator there; this is
                  where IngestInv is needed, and that a raw file id keeps its bytes
```

**Raw storage** (`UploadProofs`). `TypeOK`, `RecordHasContent`, `GateFailsClosed` and
`VerdictsStand` for any numbers of threads, files, ids, failures, crashes and damages, from the
assumptions that `Kind` and `Bound` have their types and that the three null values are no
threads, jobs or records. None of the three safety properties is inductive: each rests on what a
thread in the middle of a call may still rely on. The inductive invariant `StorageInv` adds

```
DamageKnown      a content that fails its digest is one somebody damaged
WriterSafe       between its two writes store holds the lock, and the content is there
OneInspector     one thread at a time inspects a raw id
InspectorKnows   the record is in the state the step expects; a verdict about to be
                 written is the one the file deserves
```

`InspectorKnows` is stable although the storage lock is free between two steps of an
inspection: a concurrent `store` of the same file only writes a record that is missing, and other
inspectors are kept out by the validation lock of the raw id, which is `OneInspector`. A
process that has died leaves no thread behind, so the clauses about threads hold trivially after
`Crash` and those about files survive it. The same lemmas give the step formula of
`VerdictsStand`. Locks are per process in the code and in the model: two processes on one root
are outside both.

**Object store and proof pipeline** (`ProofPipelineProofs`). `StoresOnce` (the refinement of
`WriteOnceStore`), `EventsHaveTheirFile`, `PublishedIsComplete` and the steps of `ExclusionsStand`, for any
files, rows, writers, inodes and crashes. `PidAssumption` says what the code needs and does not
enforce: writers that act at once are in processes of their own, since the temporary name is made of the
key and the process id. The others give constants their types. The invariants are

```
StoreInv      an inode has at most one temporary name; the inode a writer fills is the one
              under its name, and no key leads to it before it is complete; the answer
              "stored" is given only when the key shows the bytes
PipelineInv   at each step of an import: the file is stored before its first event; the rows up
              to the current line are in the ledger and in memory; what is in memory contains
              the records of all published files, unless a crash cut a rewrite off
CountInv      what results of a file and the import under way have counted is no more than
              the events of that file in the ledger
```

A temporary file left by a dead process is harmless because `open("xb")` refuses its name and the
inode stays under one name: that is why `OneTempName` is needed.

**Access and admission** (`DatasetAdmissionProofs`). `OneAccountPerInvite`, `EachAdmittedOnce`,
`AdmittedOnEvidence` and the steps of `HistoryStands`, for any invites, accounts, times, files, inspection
outcomes and evidence; assumed is that times are integers and what stands for "unused" is none of them.
`AdmissionInv` says of each record that the dictionaries of owners have everything it holds under
its dataset, that the last decision is its state, and why it is in that state. `EachAdmittedOnce`
follows from dictionaries being functions, provided that no key ever changes hands
(`KeepsOwners`) and that a claim outlives a rejection; `AdmittedOnEvidence` from what
`VALIDATED` guarantees about the inspection at the moment evidence is compared with it.

**Finance** (`FinanceProofs`). *Rules*: `RecentlyUsedAccepted` and `EvaluatedIsCurrent`, for any
catalogues of finite size with integer instants, priorities and versions, any cache limit and any
evaluator of expressions. `CacheInv`: the cache is the newest part of the sequence of distinct
resolutions by last use, and each entry is the resolution of the catalogue stored with it. The
second theorem also needs that the nine parts of the ordering of rules, compared place by place,
say the same as the property's wording of which of two rules applies before the other.

*Kernel*: `AgreesWithOracle`, for any request, any edits, any number of expense components, and any of
the six rounding modes with any positive scales; assumed is that the values of a request are typed, as
parsing leaves them. The invariant is small, since the results are a function of the request, and the
reference is taken of the request at calculation scale; the work is in that function. For each metric a
lemma says when it is VALID and which number it then has (`CostUnitsFacts`, `IncomeFacts`, `TaxFacts`
...). `Sound` collects what a request needs for a profit, and is shown to be exactly what the reference
accepts (`SoundIsAccepted`); `ProfitIsSound` gives one direction, `SoundAgrees` the other. Three steps
are not obvious. A compensation that passes the check on the amount as given passes the second check on
the rounded amount, because rounding turns no number negative and leaves zero alone (`QuantizedType`,
`QuantizedZero`), whereas the converse fails, which is what the prevalidation is for. The kernel
subtracts by adding products with -1 in one sum, the reference subtracts step by step (`SumOfFour`). And
a number of units as the base of the tax is refused for its signature alone. Sums are recursive
functions; that they exist and are numbers is shown by the same induction over sets as for the ingest
loops. The attempt also corrected the property: an unknown base of the tax was not yet an incomplete
request, and the run had no such request.

*Expressions*: `ShortCircuit`, for any literals, variables, signatures, inputs, dependencies and
limits, and for trees to any bound. `ExpressionAssumption` has leaves that are literals or variables, the
operators of the code, inputs with a state and finite sets of dependencies, all of which parsing and
validation see to. The invariant,
`ExpressionInv`, says that the stack holds trees and the last evaluation is the answer of the evaluator
to its tree; the work is in the evaluator, by induction on the height of a tree:

```
TreeRecursion             the functions on trees exist: one proof for all of them, which takes the name
                          of the function as a parameter, because the provers take no operators
WellTyped -> MeansWell    (MeaningFacts) a tree that passed validation means a value with its declared
                          signature, and raises only if a variable of it is not given
OperationFacts, EagerState   an evaluated tree raises or has one of the states
KeptRewritten, SelectedRewritten   of an operation and of an IF, from what holds of the arguments
RewritingKeepsMeaning     the rewritten tree is a tree, took no more synthetic variables than the
                          expression has IFs, and evaluates to the meaning of the expression; the
                          rewriting raises only where the meaning does
RoomForFewer              room for a synthetic variable per IF is room for those it took
AnswerIsMeaning           hence the answer, after the validation and the last rounding
```

That a branch has the signature of its IF, and a synthetic variable carries the same one, is what gives
the answer the declared signature when the IF is gone.

**Evidence** (`PublicationProofs`). `VerifiedIsEvidence`, for any graph with finitely many nodes and
edges, edges of any of the 18 types, any bytes and any edits. The invariant adds to it only that the
graph stays one: a verdict is about the graph there is, since every edit takes it back. The work is in
`NoErrorsIsEvidence`. The property speaks of what a node leads to along paths of any length; the verifier
looks at edges of certain types, at one search for cycles and one for orphans. Between the two are

```
ReachedClosed, ReachedWithin   a round that adds nothing ends the growth and every other adds a node, so
                          after as many rounds as nodes the set is closed, and it is the least such
GoodStates                the invariant of the search for cycles: a target of a node on the stack is still
                          to be followed, finished, or next on the stack; and the finished nodes
                          can be numbered so that their targets are finished with smaller numbers
NoCycleNoReturn           when all are finished, what a node leads to has smaller numbers than it
RootLeadsToAll            then what the root reaches, itself left out, is what it leads to
TypedTargets, BelowFlat, BelowEvent   by the table of signatures, the nodes of a type below a profile, a
                          resolution or an event are at the end of the typed paths that are checked
```

`EverySnapshotReports`, for any snapshots whose limitations are a sequence of texts: the record built from
what the first validator accepts passes the second (`AcceptedRecord`). That takes that a filtered list
without repetitions has none (`WithoutFacts`), by induction along the list.

**Delivery, presentation** (`PublicationProofs`). `PagedExactly` for any collections and page sizes.
`PagingInv`: a client has read exactly the records before its cursor, and a cursor it was
given is bound to the records it was made for.

`ImportedWasExported` for any records, exports and damage, from `RecordsAssumption`: texts are sequences of
the characters of the model, and an id, a tenant and a mode, which are one element each, are none of them.
`ExportInv` says what a payload under way still tells of the records exported: a bundle has their
hash, JSON lines are as written, a row of CSV has the JSON of one of them. The formats need different
arguments. A bundle is accepted when its hash is that of its records. A row is accepted when its cells
are the projection of its JSON, and JSON tells records apart (`JsonInjective`). JSON lines are taken
apart by `splitlines`, which also ends a line at U+2028 inside a text, so a text that was exported may
well not come back (the run `jsonl_round_trip`); what is proved is that it cannot come back as other
records. Such a line begins with a fragment of JSON that is not empty and does not end in a closing
bracket (`CutOff`), so it is no record, it stays among the lines whatever is read after it (`BadLater`),
and the import raises (`LinesRead`, by induction over the characters of a line and over the lines).

`InboxIsComplete` for any forms, fillings, records and imported files, from the assumption that records
and imports come in sequences and that the value of a VALID record is not the dash shown for a
missing one. `PresentationInv` adds that the status and the problems of a form agree with its fields:
it is ready exactly when every field is VALID and it has a start, and a form with problems has no
start or a field that is INVALID or BLOCKED. This is needed because status and problems are set when
the form is filled, whereas the inbox takes its exceptions from the fields and the start.

**Reconciliation** (`PublicationProofs`). `ReconciledWithinTolerance`, for any requests of decimals and any limits,
provided that the most digits a number may have are more than the guard digits, which is so in the
code (1000 and 8). Powers of ten and numbers of digits are recursive functions on the natural
numbers and are shown to exist (`RecursionExists`). The property has two sides:

```
DigitsBound      a positive number of d digits is less than 10 to the d and at least 10 to the d - 1
RoundedToMultiple, NothingRounded   what a decimal context makes of a number: the multiple of its unit
                 just below or just above, no farther than half a unit; itself if it is short enough
MatchIsNear      the unit times 10 to the GuardDigits is no more than the difference, because a difference
                 is given GuardDigits + 1 digits at least: so an accepted one is nearly within tolerance
NearIsMatch      the tolerance is a multiple of the unit, because the precision counts its digits too:
                 so rounding cannot lift a difference over it
```

**XLSX inspection** (`UploadProofs`). `MatchedIsAllThereIs`, for any packages, worksheets, names,
targets, schemas and number of changes. Assumed is that packages are well formed (`PackageAssumption`:
records of parts are not empty, parts that are not worksheets have no cells, only parts that are named so
in some letter case have shared strings, no cell is beyond the limit of columns), that casefolding leaves
`xl` alone and that headers are sequences of texts. The invariant `InspectedAsIs` is small: the package
is one, and what was matched was matched by the checks on the package that is still there. The work is in
the checks:

```
TilesCover                every byte is in one part: a record ends where the next begins, so the part
                          with the last offset up to the byte holds it and no other does
FoldedDistinct            no two parts of an accepted archive are equal when folded
ReaderFindsPart           the reader, which takes a target that begins with xl for one from the root,
                          finds the part the relationship means, because the part such a
                          target would lead to, xl/xl/..., is not among the allowed parts
OthersAreEmpty            a part is a sheet of the workbook, and found empty, or too short a name
                          to be a worksheet
SharedStringsHaveCells    a shared string with a text is used by a cell with content, hence in the
                          sheet that was matched
```

*Only model-checked.* Liveness (`EveryFileDecided`, `EveryCallReturns`) is out of the prover's
reach. Every safety property the runs check is a theorem.

## 5. Not modelled

* Parsing, syntax checks and hashing are reduced to what they decide. Decimal arithmetic is
  replaced by integers or exact rationals, except in `Reconciliation`, which is about its rounding. The
  ledger's sums of amounts are exact here; the code adds in a context of 28 digits.
* XLSX: the checks of XML syntax, attributes, formulas and content models, which look at one part
  each, and the size limits. Their input is text, and a model of them would be a second parser.
* Evidence: a node id that occurs twice, time stamps inside nodes, the syntax of ids.
* Two threads of one process that put one key at once share a temporary name: the name is in
  the model, the writers of the run are in different processes. Two importers on one JSON ledger lose
  updates. Nothing in the repository does either and no document promises it.
* Loss of power, as opposed to death of the process, would need a model of the file system's cache.
* Reads that change nothing: `verify_recovery_key`, `account`, the summary of the evidence of a dataset;
  the metric `profitability_of_costs`, which is BLOCKED in every result.
* A revocation after `require_admitted` has returned: reconciliation works on the copy it was given.
* The first version of dataset admission, which nothing imports; dependency admission and the
  scripts, which check the repository at build time; API and worker, which are stubs; the
  database schema, which no code uses.

## 6. Plan

All components with behaviour of their own are modelled, and what the provers can do is proved. What
is left is a matter of what the repository grows into: its API, worker and database are stubs, and a
model of them has to wait for code.
