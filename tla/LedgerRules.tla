---------------------------- MODULE LedgerRules ----------------------------
(***************************************************************************)
(* The admission rules of InMemoryCanonicalLedger as pure operators on a   *)
(* ledger value: which (source row, event) pair _append_locked accepts,    *)
(* with which error code it refuses the others, and the ledger it leaves.  *)
(*                                                                         *)
(* A ledger L is a record of the five dictionaries of the class:           *)
(*   L.source   _source_by_id           <<tenant, source id>>              *)
(*   L.locator  _source_by_locator      <<tenant, raw file, line>>         *)
(*   L.event    _event_by_id            <<tenant, event id>>               *)
(*   L.idem     _event_by_idempotency   <<tenant, idempotency key>>        *)
(*   L.rev      _event_by_revision      <<tenant, account, key, revision>> *)
(***************************************************************************)
EXTENDS Integers, FiniteSetsExt

CONSTANTS
  Tenants, SourceIds, Files, Lines,
  Contents,        \* what a row says besides its place: key, payload, batch,
                   \* schema, adapter and file hash
  Diagnostics,     \* diagnostics of a quarantined row
  EventIds, IdempotencyKeys, Accounts, BusinessKeys,
  Goods,           \* product, quantity unit and currency of an event
  NoDiagnostics,   \* the empty diagnostics of a VALID row
  NoId,            \* None in supersedes_event_id and reversal_of_event_id
  NoEvent          \* None in place of an event

Sale   == "SALE_RECOGNIZED"
Return == "RETURN_ACCEPTED"

(* ImmutableSourceRow: a row is VALID exactly when it has no diagnostics.  *)
SourceRow == [tenant : Tenants, id : SourceIds, file : Files, line : Lines,
              diagnostics : Diagnostics \cup {NoDiagnostics},
              content : Contents]

(* CanonicalEvent.  `sound` stands for what only _validate_lineage looks   *)
(* at (status, time zones, key syntax, payload hash, provenance), `typed`  *)
(* for a payload whose product, quantity and amount _typed_* can read.     *)
CanonicalEvent == [tenant : Tenants, id : EventIds, account : Accounts,
                   key : BusinessKeys, type : {Sale, Return},
                   revision : Nat \ {0}, idem : IdempotencyKeys,
                   supersedes : EventIds \cup {NoId},
                   reversalOf : EventIds \cup {NoId},
                   source : SourceIds, content : Contents,
                   sound : BOOLEAN, typed : BOOLEAN,
                   good : Goods, quantity : Nat \ {0}, amount : Nat]

ASSUME NoEventAssumption == NoEvent \notin CanonicalEvent
ASSUME NoIdAssumption == NoId \notin EventIds
ASSUME NoDiagnosticsAssumption == NoDiagnostics \notin Diagnostics

IsValid(row) == row.diagnostics = NoDiagnostics

(* Slip: a fingerprint that leaves the validation outcome out.             *)
FingerprintWithoutOutcome(row) ==
  [tenant |-> row.tenant, id |-> row.id, line |-> row.line,
   content |-> row.content]

(* content_fingerprint: everything but raw_file_id and ingested_at.        *)
Fingerprint(row) == [tenant |-> row.tenant, id |-> row.id, line |-> row.line,
                     diagnostics |-> row.diagnostics, content |-> row.content]

SourceKey(row)  == <<row.tenant, row.id>>
LocatorKey(row) == <<row.tenant, row.file, row.line>>
EventKey(e)     == <<e.tenant, e.id>>
IdemKey(e)      == <<e.tenant, e.idem>>
RevisionKey(e)  == <<e.tenant, e.account, e.key, e.revision>>

EmptyLedger == [source |-> <<>>, locator |-> <<>>, event |-> <<>>,
                idem |-> <<>>, rev |-> <<>>]

Rows(L)   == {L.source[k] : k \in DOMAIN L.source}
Events(L) == {L.event[k] : k \in DOMAIN L.event}

-----------------------------------------------------------------------------
(* What a stored event must satisfy, rule by rule.                         *)

(* _validate_lineage: the event was made from exactly this VALID row.      *)
LineageHolds(row, e) ==
  /\ IsValid(row)
  /\ e.sound
  /\ e.tenant = row.tenant
  /\ e.source = row.id
  /\ e.content = row.content

(* Slip: a missing superseded event is let through.                        *)
RevisionVerdictWithoutTarget(L, e) ==
  LET target == <<e.tenant, e.supersedes>> IN
  IF RevisionKey(e) \in DOMAIN L.rev /\ L.rev[RevisionKey(e)] # e
    THEN "EVENT_REVISION_CONFLICT"
  ELSE IF e.revision = 1 \/ target \notin DOMAIN L.event
    THEN "OK"
  ELSE IF L.event[target].revision + 1 = e.revision
    THEN "OK"
  ELSE "EVENT_SUPERSESSION_INVALID"

(* _validate_revision: revisions of a business key form one chain.         *)
RevisionVerdict(L, e) ==
  LET target == <<e.tenant, e.supersedes>> IN
  IF RevisionKey(e) \in DOMAIN L.rev /\ L.rev[RevisionKey(e)] # e
    THEN "EVENT_REVISION_CONFLICT"
  ELSE IF e.revision = 1
    THEN IF e.supersedes = NoId THEN "OK" ELSE "EVENT_SUPERSESSION_INVALID"
  ELSE IF e.supersedes = NoId
    THEN "EVENT_SUPERSESSION_REQUIRED"
  ELSE IF target \notin DOMAIN L.event
    THEN "EVENT_SUPERSEDED_TARGET_MISSING"
  ELSE IF /\ L.event[target].account = e.account
          /\ L.event[target].key = e.key
          /\ L.event[target].type = e.type
          /\ L.event[target].revision + 1 = e.revision
    THEN "OK"
  ELSE "EVENT_SUPERSESSION_INVALID"

(* Slip: only the earlier revisions of the same return are added up.       *)
ActiveReversalsOfKey(L, original, e) ==
  {x \in Events(L) : /\ x.tenant = e.tenant /\ x.key = e.key
                     /\ x.id # e.id /\ x.id # e.supersedes
                     /\ x.type = Return /\ x.reversalOf = original.id}

(* _active_reversals: the stored returns of `original` that nothing        *)
(* supersedes, the candidate's own supersession counted, itself left out.  *)
ActiveReversals(L, original, e) ==
  LET superseded == {x.supersedes : x \in {y \in Events(L) : y.tenant = e.tenant}}
                      \cup {e.supersedes}
  IN {x \in Events(L) : /\ x.tenant = e.tenant
                        /\ x.id # e.id
                        /\ x.id \notin superseded
                        /\ x.type = Return
                        /\ x.reversalOf = original.id}

(* The sum of the quantities, or amounts, of events, unit by unit.         *)
TotalQuantity(S) == Cardinality(UNION {{x} \X (1..x.quantity) : x \in S})
TotalAmount(S)   == Cardinality(UNION {{x} \X (1..x.amount) : x \in S})

(* _validate_reversal: only returns reverse, only sales are reversed, and  *)
(* active returns together stay within the sale.                           *)
ReversalVerdict(L, e) ==
  LET target == <<e.tenant, e.reversalOf>> IN
  IF e.type = Return /\ e.reversalOf = NoId
    THEN "EVENT_REVERSAL_REQUIRED"
  ELSE IF e.type # Return
    THEN IF e.reversalOf = NoId THEN "OK" ELSE "EVENT_REVERSAL_INVALID"
  ELSE IF target \notin DOMAIN L.event
    THEN "EVENT_REVERSAL_TARGET_MISSING"
  ELSE
    LET original == L.event[target]
        active   == ActiveReversals(L, original, e)
    IN
    IF original.account # e.account \/ original.type # Sale
      THEN "EVENT_REVERSAL_INVALID"
    ELSE IF ~original.typed \/ ~e.typed
      THEN "EVENT_TYPED_VALUE_INVALID"
    ELSE IF \E x \in active \cup {e} : x.good # original.good
      THEN "EVENT_REVERSAL_UNIT_MISMATCH"
    ELSE IF \/ TotalQuantity(active) + e.quantity > original.quantity
            \/ TotalAmount(active) + e.amount > original.amount
      THEN "EVENT_REVERSAL_EXCEEDS_ORIGINAL"
    ELSE "OK"

(* The checks of _append_locked for an event, after its row passed.        *)
EventVerdict(L, e) ==
  IF EventKey(e) \in DOMAIN L.event /\ L.event[EventKey(e)] # e
    THEN "EVENT_ID_CONFLICT"
  ELSE IF IdemKey(e) \in DOMAIN L.idem /\ L.idem[IdemKey(e)] # e
    THEN "EVENT_IDEMPOTENCY_CONFLICT"
  ELSE IF RevisionVerdict(L, e) # "OK"
    THEN RevisionVerdict(L, e)
  ELSE ReversalVerdict(L, e)

(* _append_locked up to its first assignment: the code of the error it     *)
(* raises for caller t, or "OK".                                           *)
Verdict(L, t, row, e) ==
  IF row.tenant # t
    THEN "SOURCE_ROW_NOT_FOUND"
  ELSE IF e = NoEvent /\ IsValid(row)
    THEN "VALID_SOURCE_ROW_EVENT_REQUIRED"
  ELSE IF e # NoEvent /\ ~LineageHolds(row, e)
    THEN "EVENT_LINEAGE_INVALID"
  ELSE IF /\ SourceKey(row) \in DOMAIN L.source
          /\ Fingerprint(L.source[SourceKey(row)]) # Fingerprint(row)
    THEN "SOURCE_RECORD_CONFLICT"
  ELSE IF /\ LocatorKey(row) \in DOMAIN L.locator
          /\ L.locator[LocatorKey(row)] # row.id
    THEN "SOURCE_ROW_LOCATOR_CONFLICT"
  ELSE IF e = NoEvent THEN "OK"
  ELSE EventVerdict(L, e)

(* A dictionary whose values are in S; one with key k set to v; and one    *)
(* that keeps what it has at k.                                            *)
IsDict(f, S) == f \in [DOMAIN f -> S]
Put(f, k, v) ==
  [x \in DOMAIN f \cup {k} |-> IF x = k THEN v ELSE f[x]]
PutIfAbsent(f, k, v) ==
  [x \in DOMAIN f \cup {k} |-> IF x \in DOMAIN f THEN f[x] ELSE v]

(* Slip: the locator dictionary is given the row in place of its id.       *)
InsertWithRowInLocator(L, row, e) ==
  [source  |-> PutIfAbsent(L.source, SourceKey(row), row),
   locator |-> Put(L.locator, LocatorKey(row), row),
   event   |-> IF e = NoEvent THEN L.event ELSE Put(L.event, EventKey(e), e),
   idem    |-> IF e = NoEvent THEN L.idem ELSE Put(L.idem, IdemKey(e), e),
   rev     |-> IF e = NoEvent THEN L.rev ELSE Put(L.rev, RevisionKey(e), e)]

(* Slip: a duplicate row replaces the stored one.                          *)
InsertOverwriting(L, row, e) ==
  [source  |-> Put(L.source, SourceKey(row), row),
   locator |-> Put(L.locator, LocatorKey(row), row.id),
   event   |-> IF e = NoEvent THEN L.event ELSE Put(L.event, EventKey(e), e),
   idem    |-> IF e = NoEvent THEN L.idem ELSE Put(L.idem, IdemKey(e), e),
   rev     |-> IF e = NoEvent THEN L.rev ELSE Put(L.rev, RevisionKey(e), e)]

(* The assignments of _append_locked: a row or an event already there is   *)
(* kept, the locator is written in every case.                             *)
Insert(L, row, e) ==
  LET isNew == e # NoEvent /\ EventKey(e) \notin DOMAIN L.event IN
  [source  |-> PutIfAbsent(L.source, SourceKey(row), row),
   locator |-> Put(L.locator, LocatorKey(row), row.id),
   event   |-> IF isNew THEN Put(L.event, EventKey(e), e) ELSE L.event,
   idem    |-> IF isNew THEN Put(L.idem, IdemKey(e), e) ELSE L.idem,
   rev     |-> IF isNew THEN Put(L.rev, RevisionKey(e), e) ELSE L.rev]

(* LedgerAppendResult: how many rows and events _append_locked inserts.    *)
NewRows(L, row) == IF SourceKey(row) \in DOMAIN L.source THEN 0 ELSE 1
NewEvents(L, e) ==
  IF e = NoEvent \/ EventKey(e) \in DOMAIN L.event THEN 0 ELSE 1

-----------------------------------------------------------------------------
(* What makes a ledger value correct.                                      *)

(* The five dictionaries map keys to rows, row ids and events.             *)
LedgerType(L) ==
  /\ L = [source |-> L.source, locator |-> L.locator, event |-> L.event,
          idem |-> L.idem, rev |-> L.rev]
  /\ IsDict(L.source, SourceRow)
  /\ IsDict(L.locator, SourceIds)
  /\ DOMAIN L.locator \subseteq Tenants \X Files \X Lines
  /\ IsDict(L.event, CanonicalEvent)
  /\ IsDict(L.idem, CanonicalEvent)
  /\ IsDict(L.rev, CanonicalEvent)

(* The three event dictionaries hold the same events, each under the key   *)
(* the event itself gives it.                                              *)
IndexesAgreeIn(L) ==
  /\ \A k \in DOMAIN L.event :
        LET e == L.event[k] IN
        /\ k = EventKey(e)
        /\ IdemKey(e) \in DOMAIN L.idem /\ L.idem[IdemKey(e)] = e
        /\ RevisionKey(e) \in DOMAIN L.rev /\ L.rev[RevisionKey(e)] = e
  /\ \A k \in DOMAIN L.idem : /\ k = IdemKey(L.idem[k])
                              /\ EventKey(L.idem[k]) \in DOMAIN L.event
                              /\ L.event[EventKey(L.idem[k])] = L.idem[k]
  /\ \A k \in DOMAIN L.rev : /\ k = RevisionKey(L.rev[k])
                             /\ EventKey(L.rev[k]) \in DOMAIN L.event
                             /\ L.event[EventKey(L.rev[k])] = L.rev[k]

(* Every event can be traced to the VALID row it was made from, and every  *)
(* locator to a row stored at that line for that tenant.                   *)
TraceableIn(L) ==
  /\ \A k \in DOMAIN L.source : k = SourceKey(L.source[k])
  /\ \A e \in Events(L) :
        /\ <<e.tenant, e.source>> \in DOMAIN L.source
        /\ LineageHolds(L.source[<<e.tenant, e.source>>], e)
  /\ \A k \in DOMAIN L.locator :
        /\ <<k[1], L.locator[k]>> \in DOMAIN L.source
        /\ L.source[<<k[1], L.locator[k]>>].line = k[3]

(* Below every revision n > 1 lies revision n-1 of the same account, key   *)
(* and type, and that is the event it supersedes.                          *)
ChainedIn(L) ==
  \A e \in Events(L) :
     IF e.revision = 1 THEN e.supersedes = NoId
     ELSE LET below == <<e.tenant, e.account, e.key, e.revision - 1>> IN
          /\ below \in DOMAIN L.rev
          /\ L.rev[below].id = e.supersedes
          /\ L.rev[below].type = e.type

(* Returns of a sale that nothing supersedes never add up to more than     *)
(* the sale, in quantity or in amount, and are of the same goods.          *)
WithinOriginalIn(L) ==
  \A s \in Events(L) :
     LET active == {x \in Events(L) : /\ x.tenant = s.tenant
                                      /\ x.type = Return
                                      /\ x.reversalOf = s.id
                                      /\ ~\E y \in Events(L) :
                                            /\ y.tenant = x.tenant
                                            /\ y.supersedes = x.id}
     IN active # {} => /\ s.type = Sale
                       /\ \A x \in active : x.good = s.good /\ x.account = s.account
                       /\ TotalQuantity(active) <= s.quantity
                       /\ TotalAmount(active) <= s.amount

(* The returns nothing supersedes that reverse any revision of the sale s  *)
(* add up to no more than s, the revision that is now current.             *)
WithinCurrentSaleIn(L) ==
  LET current == {x \in Events(L) : ~\E y \in Events(L) :
                                       y.tenant = x.tenant /\ y.supersedes = x.id}
  IN \A s \in {x \in current : x.type = Sale} :
       LET returned == {x \in current :
                          /\ x.tenant = s.tenant /\ x.type = Return
                          /\ \E o \in Events(L) :
                               /\ o.tenant = s.tenant /\ o.account = s.account
                               /\ o.key = s.key /\ o.id = x.reversalOf}
       IN TotalQuantity(returned) <= s.quantity

(* Later ledger M keeps every row, locator and event of L as it was.       *)
Extends(M, L) ==
  /\ \A k \in DOMAIN L.source : k \in DOMAIN M.source /\ M.source[k] = L.source[k]
  /\ \A k \in DOMAIN L.locator : k \in DOMAIN M.locator /\ M.locator[k] = L.locator[k]
  /\ \A k \in DOMAIN L.event : k \in DOMAIN M.event /\ M.event[k] = L.event[k]
=============================================================================
