------------------------- MODULE DatasetAdmission -------------------------
(***************************************************************************)
(* RealDatasetAdmissionRegistryV2: declare, inspect_and_validate, admit,   *)
(* revoke and require_admitted.  Every call runs under the lock of the     *)
(* registry, so a call is one action; what interleaves are the calls of    *)
(* several accounts, with times the callers choose.  A call that raises    *)
(* changes nothing and is not an action.                                   *)
(***************************************************************************)
EXTENDS AccessRegistry, Integers, Sequences

CONSTANTS
  Declarations,     \* declarations callers may make
  Files,            \* payloads; a file stands for its bytes and their digest
  Policies,
  Inspect,          \* XlsxPackageInspector.inspect: file -> policy -> outcome
  InspectionFails,  \* the outcome of an inspection that raises
  DatasetEvidence, StorageEvidence,   \* evidence verifiers may submit
  Direct,           \* contexts built without an activation
  InviteTimes,      \* bound: the times of the access registry's calls
  None,
  DecisionLimit     \* bound: decisions of all records together

ASSUME TimesAssumption ==
  /\ Times \subseteq Int /\ InviteTimes \subseteq Times
  /\ \A d \in Declarations : d.declared \in Times /\ d.retention \in Int
  /\ \A e \in DatasetEvidence \cup StorageEvidence : e.verified \in Int

VARIABLES
  records,   \* records by <<tenant, dataset>>
  owner      \* the five dictionaries of owners: <<kind, tenant, what>> to dataset

admissionVars == <<records, owner>>
vars == <<accessVars, admissionVars>>

AllowedTransitions ==
  [DECLARED |-> {"QUARANTINED", "REJECTED"}, QUARANTINED |-> {"VALIDATED", "REJECTED"},
   VALIDATED |-> {"ADMITTED", "REJECTED"}, ADMITTED |-> {"REVOKED"},
   REJECTED |-> {}, REVOKED |-> {}]

Key(d) == <<d.tenant, d.dataset>>
Latest(record) == record.decisions[Len(record.decisions)]
Decision(state, c, at) == [state |-> state, actor |-> c.account, at |-> at]
NumberOfDecisions ==
  LET Total[ks \in SUBSET DOMAIN records] ==
        IF ks = {} THEN 0
        ELSE LET k == CHOOSE k \in ks : TRUE
             IN  Len(records[k].decisions) + Total[ks \ {k}]
  IN  Total[DOMAIN records]
HasRoomFor(n) == NumberOfDecisions + n <= DecisionLimit

(* A slip: the owners of workbooks are not looked up.                      *)
FreeUnlessWorkbook(key, dataset) ==
  key \in DOMAIN owner /\ key[1] # "workbook" => owner[key] = dataset

(* Nobody else owns the key; claiming it records the dataset as its owner. *)
FreeFor(key, dataset) == key \in DOMAIN owner => owner[key] = dataset
Claims(keys, dataset) ==
  owner' = [k \in DOMAIN owner \cup keys |-> IF k \in keys THEN dataset ELSE owner[k]]

FileKey(d) == <<"file", d.tenant, d.file>>
SourceKey(d) == <<"source", d.tenant, <<d.uploader, d.source>>>>
WorkbookKey(tenant, workbook) == <<"workbook", tenant, workbook>>
EvidenceKeys(tenant, e, s) ==
  {<<"datasetEvidence", tenant, e.id>>, <<"storageEvidence", tenant, s.id>>}

Saves(key, record) ==
  records' = [k \in DOMAIN records \cup {key} |-> IF k = key THEN record ELSE records[k]]

(* What a declaration must say to be one: its authority is attested, it    *)
(* names no personal data, and it is kept longer than it is old.           *)
WellFormed(d) == d.attested /\ ~d.personal /\ d.retention > d.declared

(* declare, of a dataset that is new.  A repetition returns the record.    *)
Declare(c, d) ==
  /\ WellFormed(d)
  /\ d.tenant = c.tenant /\ d.uploader = c.account
  /\ Key(d) \notin DOMAIN records
  /\ FreeFor(FileKey(d), d.dataset) /\ FreeFor(SourceKey(d), d.dataset)
  /\ HasRoomFor(1)
  /\ Saves(Key(d), [declaration |-> d, state |-> "DECLARED", policy |-> None,
                    inspection |-> None, evidence |-> None,
                    decisions |-> <<Decision("DECLARED", c, d.declared)>>])
  /\ Claims({FileKey(d), SourceKey(d)}, d.dataset)

(* A slip: every account of the tenant finds the record.                   *)
FoundInTenant(c, dataset) == <<c.tenant, dataset>> \in DOMAIN records

(* get: a record is found by its uploader only.                            *)
Found(c, dataset) ==
  /\ <<c.tenant, dataset>> \in DOMAIN records
  /\ records[<<c.tenant, dataset>>].declaration.uploader = c.account

Decides(record, state, c, at) ==
  [record EXCEPT !.state = state, !.decisions = Append(@, Decision(state, c, at))]

(* A slip: a dataset examined again keeps the policy it had.               *)
QuarantinedAsBefore(record, c, policy, at) ==
  IF record.state = "DECLARED"
  THEN [Decides(record, "QUARANTINED", c, at) EXCEPT !.policy = policy]
  ELSE record

(* inspect_and_validate begins: a declared dataset is quarantined, one in  *)
(* quarantine is examined again, under the policy of this call.            *)
Quarantined(record, c, policy, at) ==
  IF record.state = "DECLARED"
  THEN [Decides(record, "QUARANTINED", c, at) EXCEPT !.policy = policy]
  ELSE [record EXCEPT !.policy = policy]

(* What the code makes of the payload: the state, and the inspection the   *)
(* record keeps.                                                           *)
Examined(d, file, policy) ==
  LET outcome == Inspect[file][policy]
      inspection == [outcome |-> outcome, file |-> file, under |-> policy]
      workbook == WorkbookKey(d.tenant, outcome.workbook)
      clean == outcome.clean /\ d.rows \in {None, outcome.rows}
  IN  IF file # d.file \/ outcome = InspectionFails
      THEN [state |-> "REJECTED", keeps |-> FALSE]
      ELSE IF ~FreeFor(workbook, d.dataset)
      THEN [state |-> "REJECTED", keeps |-> FALSE]
      ELSE [state |-> IF clean THEN "VALIDATED" ELSE "QUARANTINED",
            keeps |-> TRUE, inspection |-> inspection, workbook |-> workbook]

InspectAndValidate(c, dataset, file, policy, at) ==
  LET key == <<c.tenant, dataset>>
      record == records[key]
      result == Examined(record.declaration, file, policy)
      decided == Decides(Quarantined(record, c, policy, at), result.state, c, at)
  IN  /\ Found(c, dataset)
      /\ at >= Latest(record).at
      /\ record.state \in {"DECLARED", "QUARANTINED"}
      /\ HasRoomFor(2)
      /\ \/ /\ ~result.keeps
            /\ Saves(key, decided)
            /\ UNCHANGED owner
         \/ /\ result.keeps
            /\ Saves(key, [decided EXCEPT !.inspection = result.inspection])
            /\ Claims({result.workbook}, dataset)

(* The controls a piece of evidence must have found in order, all of them. *)
DatasetControls ==
  {"source_authority", "report_period", "control_totals", "identifiers", "malware_scan"}
StorageControls ==
  {"transport_encrypted", "encryption_at_rest", "tenant_scoped_paths",
   "immutable_original", "separated_zones", "least_privilege"}

(* require_evidence_binding, and the tenants and completeness admit checks *)
Binds(record, e, s) ==
  LET d == record.declaration IN
  /\ e.controls = DatasetControls /\ s.controls = StorageControls
  /\ e.tenant = d.tenant /\ s.tenant = d.tenant
  /\ e.verifier # d.uploader /\ s.verifier # d.uploader
  /\ e.dataset = d.dataset /\ s.dataset = d.dataset
  /\ e.file = d.file /\ s.file = d.file
  /\ e.terms = d.terms
  /\ e.policy = record.policy
  /\ e.workbook = record.inspection.outcome.workbook

(* require_evidence_times: between the validation and the admission.       *)
Timely(record, e, s, at) ==
  {e.verified, s.verified} \subseteq Latest(record).at .. at

Admit(c, dataset, e, s, at) ==
  LET record == records[<<c.tenant, dataset>>] IN
  /\ Found(c, dataset)
  /\ at >= Latest(record).at
  /\ record.state = "VALIDATED"
  /\ at < record.declaration.retention
  /\ Binds(record, e, s)
  /\ Timely(record, e, s, at)
  /\ \A key \in EvidenceKeys(c.tenant, e, s) : FreeFor(key, dataset)
  /\ HasRoomFor(1)
  /\ Saves(<<c.tenant, dataset>>,
           [Decides(record, "ADMITTED", c, at) EXCEPT !.evidence = [data |-> e, storage |-> s]])
  /\ Claims(EvidenceKeys(c.tenant, e, s), dataset)

Revoke(c, dataset, at) ==
  LET record == records[<<c.tenant, dataset>>] IN
  /\ Found(c, dataset)
  /\ at >= Latest(record).at
  /\ record.state = "ADMITTED"
  /\ HasRoomFor(1)
  /\ Saves(<<c.tenant, dataset>>, Decides(record, "REVOKED", c, at))
  /\ UNCHANGED owner

(* require_admitted returns the record: it may be read as of this time.    *)
MayRead(c, dataset, asOf) ==
  LET record == records[<<c.tenant, dataset>>] IN
  /\ Found(c, dataset)
  /\ record.state = "ADMITTED"
  /\ asOf >= Latest(record).at
  /\ asOf < record.declaration.retention
-----------------------------------------------------------------------------
Init ==
  /\ AccessInit
  /\ records = << >>
  /\ owner = << >>

(* The registries share no state, so their calls commute: it is enough to  *)
(* look at behaviours in which the accounts are opened first (a bound).    *)
AccountsOpened == \A t \in Threads : activating[t] = NoCall

AccessStep ==
  /\ \/ \E v \in Invites, expiry, current \in InviteTimes : IssueInvite(v, expiry, current)
     \/ \E t \in Threads, v \in Invites, current \in InviteTimes : ActivateBegin(t, v, current)
     \/ \E t \in Threads : Activate(t)
     \/ \E t \in Threads : ActivateRaises(t)
  /\ records = << >>
  /\ UNCHANGED admissionVars

Datasets == {d.dataset : d \in Declarations}

AdmissionStep(c) ==
  /\ AccountsOpened
  /\ \/ \E d \in Declarations : Declare(c, d)
     \/ \E i \in Datasets, file \in Files, policy \in Policies, at \in Times :
          InspectAndValidate(c, i, file, policy, at)
     \/ \E i \in Datasets, e \in DatasetEvidence, s \in StorageEvidence, at \in Times :
          Admit(c, i, e, s, at)
     \/ \E i \in Datasets, at \in Times : Revoke(c, i, at)
  /\ UNCHANGED accessVars

Next == AccessStep \/ \E c \in ActivatedContexts \cup Direct : AdmissionStep(c)

Spec == Init /\ [][Next]_vars
-----------------------------------------------------------------------------
(* Distinct datasets of a tenant never share what the registry admits once *)
(* (declare, _claim_workbook_digest, finalize_validated_record): a file, a *)
(* source of one uploader, an accepted workbook, or a piece of evidence.   *)
EachAdmittedOnce ==
  \A k, m \in DOMAIN records :
    k[1] = m[1] /\ k # m =>
      LET r == records[k]
          q == records[m]
      IN  /\ r.declaration.file # q.declaration.file
          /\ SourceKey(r.declaration) # SourceKey(q.declaration)
          /\ r.inspection # None /\ q.inspection # None =>
               r.inspection.outcome.workbook # q.inspection.outcome.workbook
          /\ r.evidence # None /\ q.evidence # None =>
               /\ r.evidence.data.id # q.evidence.data.id
               /\ r.evidence.storage.id # q.evidence.storage.id

(* A dataset that has been admitted was validated on its own file, under   *)
(* the policy the record names, and evidence of others than its uploader   *)
(* about that very inspection was verified after it and before the         *)
(* admission (inspect_and_validate's retries, require_evidence_binding and *)
(* require_evidence_times); it is read in its retention period only.       *)
AdmittedOnEvidence ==
  /\ \A k \in DOMAIN records :
       LET r == records[k] IN
       r.state \in {"ADMITTED", "REVOKED"} =>
         \E v, a \in DOMAIN r.decisions :
           /\ v < a /\ r.decisions[v].state = "VALIDATED" /\ r.decisions[a].state = "ADMITTED"
           /\ r.inspection.file = r.declaration.file
           /\ {r.inspection.under, r.evidence.data.policy} = {r.policy}
           /\ Inspect[r.declaration.file][r.policy].clean
           /\ r.declaration.uploader \notin {r.evidence.data.verifier, r.evidence.storage.verifier}
           /\ {r.evidence.data.verified, r.evidence.storage.verified}
                \subseteq r.decisions[v].at .. r.decisions[a].at
  /\ \A c \in ActivatedContexts \cup Direct, i \in Datasets, t \in Times :
       MayRead(c, i, t) =>
         LET r == records[<<c.tenant, i>>] IN
         /\ r.declaration.uploader = c.account
         /\ t \in Latest(r).at .. r.declaration.retention - 1

(* The history of a dataset only grows, by decisions of its uploader in    *)
(* the order of their times and along the allowed transitions; its         *)
(* declaration stands (_transition, _record_same_state_decision, get).     *)
HistoryStands ==
  [][\A k \in DOMAIN records :
       LET r == records[k]
           n == Len(r.decisions)
           new == records'[k].decisions
       IN  /\ records'[k].declaration = r.declaration
           /\ SubSeq(new, 1, n) = r.decisions
           /\ \A i \in n + 1 .. Len(new) :
                /\ new[i].actor = r.declaration.uploader
                /\ new[i].at >= new[i - 1].at
                /\ \/ new[i].state \in AllowedTransitions[new[i - 1].state]
                   \/ new[i].state = "QUARANTINED" /\ new[i - 1].state = "QUARANTINED"]_vars
=============================================================================
