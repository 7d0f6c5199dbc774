------------------------- MODULE LedgerRulesProofs -------------------------
(***************************************************************************)
(* What the operators of LedgerRules preserve, for every set of tenants,   *)
(* rows and events: an admitted pair keeps every rule of the ledger and    *)
(* only adds to it.  CanonicalLedgerProofs and CanonicalIngestProofs rest  *)
(* on these lemmas.                                                        *)
(***************************************************************************)
EXTENDS LedgerRules, FiniteSetTheorems, TLAPS

(* A return is there only after its sale, so a sale that is new has no     *)
(* returns yet.                                                            *)
ReturnsFollowIn(L) ==
  \A x \in Events(L) : x.type = Return => <<x.tenant, x.reversalOf>> \in DOMAIN L.event

(* A ledger value every rule holds of.                                     *)
Sound(L) ==
  /\ LedgerType(L) /\ IndexesAgreeIn(L) /\ TraceableIn(L) /\ ChainedIn(L)
  /\ IsFiniteSet(Rows(L)) /\ IsFiniteSet(Events(L)) /\ ReturnsFollowIn(L) /\ WithinOriginalIn(L)

(* What the error-free path through _append_locked has established.        *)
Admitted(L, row, e) ==
  /\ SourceKey(row) \in DOMAIN L.source =>
        Fingerprint(L.source[SourceKey(row)]) = Fingerprint(row)
  /\ LocatorKey(row) \in DOMAIN L.locator => L.locator[LocatorKey(row)] = row.id
  /\ e # NoEvent =>
        /\ LineageHolds(row, e)
        /\ EventKey(e) \in DOMAIN L.event => L.event[EventKey(e)] = e
        /\ IdemKey(e) \in DOMAIN L.idem => L.idem[IdemKey(e)] = e
        /\ RevisionVerdict(L, e) = "OK"
        /\ ReversalVerdict(L, e) = "OK"

LEMMA VerdictAdmits ==
  ASSUME NEW L, NEW t, NEW row, NEW e, Verdict(L, t, row, e) = "OK"
  PROVE  Admitted(L, row, e)
BY DEF Verdict, EventVerdict, Admitted

LEMMA PutFacts ==
  ASSUME NEW S, NEW f, IsDict(f, S), NEW k, NEW v \in S
  PROVE  /\ IsDict(Put(f, k, v), S)
         /\ DOMAIN Put(f, k, v) = DOMAIN f \cup {k}
         /\ Put(f, k, v)[k] = v
         /\ \A x \in DOMAIN f : x # k => Put(f, k, v)[x] = f[x]
BY DEF Put, IsDict

LEMMA PutIfAbsentFacts ==
  ASSUME NEW S, NEW f, IsDict(f, S), NEW k, NEW v \in S
  PROVE  /\ IsDict(PutIfAbsent(f, k, v), S)
         /\ DOMAIN PutIfAbsent(f, k, v) = DOMAIN f \cup {k}
         /\ k \notin DOMAIN f => PutIfAbsent(f, k, v)[k] = v
         /\ \A x \in DOMAIN f : PutIfAbsent(f, k, v)[x] = f[x]
BY DEF PutIfAbsent, IsDict

LEMMA EmptyLedgerType == LedgerType(EmptyLedger)
<1>1. \A S : IsDict(<<>>, S)
  BY DEF IsDict
<1>2. DOMAIN <<>> = {}
  OBVIOUS
<1> QED BY <1>1, <1>2, Zenon DEF LedgerType, EmptyLedger

LEMMA RowFields ==
  ASSUME NEW row \in SourceRow
  PROVE  /\ row.tenant \in Tenants /\ row.id \in SourceIds
         /\ row.file \in Files /\ row.line \in Lines
BY DEF SourceRow

LEMMA InsertType ==
  ASSUME NEW L, LedgerType(L), NEW row \in SourceRow,
         NEW e \in CanonicalEvent \cup {NoEvent}
  PROVE  LedgerType(Insert(L, row, e))
<1> DEFINE M == Insert(L, row, e)
<1>0. /\ IsDict(L.source, SourceRow) /\ IsDict(L.locator, SourceIds)
      /\ IsDict(L.event, CanonicalEvent) /\ IsDict(L.idem, CanonicalEvent)
      /\ IsDict(L.rev, CanonicalEvent)
      /\ DOMAIN L.locator \subseteq Tenants \X Files \X Lines
  BY DEF LedgerType
<1>1. M = [source |-> M.source, locator |-> M.locator, event |-> M.event,
           idem |-> M.idem, rev |-> M.rev]
  BY DEF Insert
<1>2. IsDict(M.source, SourceRow)
  <2>1. M.source = PutIfAbsent(L.source, SourceKey(row), row)
    BY DEF Insert
  <2>2. IsDict(PutIfAbsent(L.source, SourceKey(row), row), SourceRow)
    BY <1>0, PutIfAbsentFacts
  <2> QED BY <2>1, <2>2
<1>3. /\ IsDict(M.locator, SourceIds)
      /\ DOMAIN M.locator \subseteq Tenants \X Files \X Lines
  <2>1. M.locator = Put(L.locator, LocatorKey(row), row.id)
    BY DEF Insert
  <2>2. LocatorKey(row) \in Tenants \X Files \X Lines
    BY RowFields DEF LocatorKey
  <2>4. row.id \in SourceIds
    BY RowFields
  <2>3. IsDict(Put(L.locator, LocatorKey(row), row.id), SourceIds)
    BY <1>0, <2>4, PutFacts, Zenon
  <2>5. DOMAIN Put(L.locator, LocatorKey(row), row.id)
              = DOMAIN L.locator \cup {LocatorKey(row)}
    BY DEF Put
  <2> QED BY <1>0, <2>1, <2>2, <2>3, <2>5
<1>4. /\ IsDict(M.event, CanonicalEvent)
      /\ IsDict(M.idem, CanonicalEvent)
      /\ IsDict(M.rev, CanonicalEvent)
  <2>1. CASE e # NoEvent /\ EventKey(e) \notin DOMAIN L.event
    <3>1. /\ M.event = Put(L.event, EventKey(e), e)
          /\ M.idem = Put(L.idem, IdemKey(e), e)
          /\ M.rev = Put(L.rev, RevisionKey(e), e)
      BY <2>1 DEF Insert
    <3>2. e \in CanonicalEvent
      BY <2>1
    <3>3. /\ IsDict(Put(L.event, EventKey(e), e), CanonicalEvent)
          /\ IsDict(Put(L.idem, IdemKey(e), e), CanonicalEvent)
          /\ IsDict(Put(L.rev, RevisionKey(e), e), CanonicalEvent)
      BY <1>0, <3>2, PutFacts, Zenon
    <3> QED BY <3>1, <3>3
  <2>2. CASE ~(e # NoEvent /\ EventKey(e) \notin DOMAIN L.event)
    <3>1. M.event = L.event /\ M.idem = L.idem /\ M.rev = L.rev
      BY <2>2 DEF Insert
    <3> QED BY <1>0, <3>1
  <2> QED BY <2>1, <2>2
<1> HIDE DEF M
<1>5. LedgerType(M)
  BY <1>1, <1>2, <1>3, <1>4, Zenon DEF LedgerType
<1> QED BY <1>5 DEF M

-----------------------------------------------------------------------------
(* Admitting one pair keeps a ledger sound and only adds to it.            *)

LEMMA SameFingerprint ==
  ASSUME NEW r, NEW q, Fingerprint(r) = Fingerprint(q)
  PROVE  /\ r.tenant = q.tenant /\ r.id = q.id /\ r.line = q.line
         /\ r.diagnostics = q.diagnostics /\ r.content = q.content
BY DEF Fingerprint

(* A new event is new to all three indexes at once.                        *)
LEMMA NewEverywhere ==
  ASSUME NEW L, IndexesAgreeIn(L), NEW row, NEW e, Admitted(L, row, e),
         e # NoEvent, EventKey(e) \notin DOMAIN L.event
  PROVE  IdemKey(e) \notin DOMAIN L.idem /\ RevisionKey(e) \notin DOMAIN L.rev
<1>1. RevisionKey(e) \in DOMAIN L.rev => L.rev[RevisionKey(e)] = e
  BY DEF Admitted, RevisionVerdict
<1>2. IdemKey(e) \in DOMAIN L.idem => L.idem[IdemKey(e)] = e
  BY DEF Admitted
<1> QED BY <1>1, <1>2 DEF IndexesAgreeIn

LEMMA InsertEvents ==
  ASSUME NEW L, NEW row, NEW e
  PROVE  /\ Insert(L, row, e).source = PutIfAbsent(L.source, SourceKey(row), row)
         /\ Insert(L, row, e).locator = Put(L.locator, LocatorKey(row), row.id)
         /\ e # NoEvent /\ EventKey(e) \notin DOMAIN L.event =>
              /\ Insert(L, row, e).event = Put(L.event, EventKey(e), e)
              /\ Insert(L, row, e).idem = Put(L.idem, IdemKey(e), e)
              /\ Insert(L, row, e).rev = Put(L.rev, RevisionKey(e), e)
         /\ ~(e # NoEvent /\ EventKey(e) \notin DOMAIN L.event) =>
              /\ Insert(L, row, e).event = L.event
              /\ Insert(L, row, e).idem = L.idem
              /\ Insert(L, row, e).rev = L.rev
BY DEF Insert

LEMMA InsertIndexes ==
  ASSUME NEW L, IndexesAgreeIn(L), NEW row, NEW e, Admitted(L, row, e)
  PROVE  IndexesAgreeIn(Insert(L, row, e))
<1> DEFINE M == Insert(L, row, e)
<1>1. CASE e # NoEvent /\ EventKey(e) \notin DOMAIN L.event
  <2>1. /\ M.event = Put(L.event, EventKey(e), e)
        /\ M.idem = Put(L.idem, IdemKey(e), e)
        /\ M.rev = Put(L.rev, RevisionKey(e), e)
    BY <1>1, InsertEvents
  <2>2. IdemKey(e) \notin DOMAIN L.idem /\ RevisionKey(e) \notin DOMAIN L.rev
    BY <1>1, NewEverywhere
  <2> HIDE DEF M
  <2>3. /\ DOMAIN M.event = DOMAIN L.event \cup {EventKey(e)}
        /\ M.event[EventKey(e)] = e
        /\ \A x \in DOMAIN L.event : M.event[x] = L.event[x]
    BY <1>1, <2>1 DEF Put
  <2>4. /\ DOMAIN M.idem = DOMAIN L.idem \cup {IdemKey(e)}
        /\ M.idem[IdemKey(e)] = e
        /\ \A x \in DOMAIN L.idem : M.idem[x] = L.idem[x]
    BY <2>1, <2>2 DEF Put
  <2>5. /\ DOMAIN M.rev = DOMAIN L.rev \cup {RevisionKey(e)}
        /\ M.rev[RevisionKey(e)] = e
        /\ \A x \in DOMAIN L.rev : M.rev[x] = L.rev[x]
    BY <2>1, <2>2 DEF Put
  <2>6. IndexesAgreeIn(M)
    BY <2>3, <2>4, <2>5 DEF IndexesAgreeIn
  <2> QED BY <2>6 DEF M
<1>2. CASE ~(e # NoEvent /\ EventKey(e) \notin DOMAIN L.event)
  <2>1. M.event = L.event /\ M.idem = L.idem /\ M.rev = L.rev
    BY <1>2, InsertEvents
  <2> QED BY <2>1 DEF IndexesAgreeIn
<1> QED BY <1>1, <1>2

LEMMA InsertExtends ==
  ASSUME NEW L, NEW row, NEW e, Admitted(L, row, e)
  PROVE  Extends(Insert(L, row, e), L)
<1> DEFINE M == Insert(L, row, e)
<1>0. /\ M.source = PutIfAbsent(L.source, SourceKey(row), row)
      /\ M.locator = Put(L.locator, LocatorKey(row), row.id)
      /\ \/ M.event = Put(L.event, EventKey(e), e) /\ EventKey(e) \notin DOMAIN L.event
         \/ M.event = L.event
  BY DEF Insert
<1> HIDE DEF M
<1>1. \A k \in DOMAIN L.source : k \in DOMAIN M.source /\ M.source[k] = L.source[k]
  BY <1>0 DEF PutIfAbsent
<1>2. \A k \in DOMAIN L.locator :
        k \in DOMAIN M.locator /\ M.locator[k] = L.locator[k]
  <2>1. LocatorKey(row) \in DOMAIN L.locator => L.locator[LocatorKey(row)] = row.id
    BY DEF Admitted
  <2> QED BY <1>0, <2>1 DEF Put
<1>3. \A k \in DOMAIN L.event : k \in DOMAIN M.event /\ M.event[k] = L.event[k]
  BY <1>0 DEF Put
<1>4. Extends(M, L)
  BY <1>1, <1>2, <1>3 DEF Extends
<1> QED BY <1>4 DEF M

(* The events after an insertion are the events before and the new one.    *)
LEMMA InsertedEvents ==
  ASSUME NEW L, NEW row, NEW e
  PROVE  \A x \in Events(Insert(L, row, e)) :
            x \in Events(L) \/ (x = e /\ e # NoEvent /\ EventKey(e) \notin DOMAIN L.event)
<1> DEFINE M == Insert(L, row, e)
<1>1. \/ /\ M.event = Put(L.event, EventKey(e), e)
         /\ e # NoEvent /\ EventKey(e) \notin DOMAIN L.event
      \/ M.event = L.event
  BY DEF Insert
<1> HIDE DEF M
<1>2. \A x \in Events(M) :
        x \in Events(L) \/ (x = e /\ e # NoEvent /\ EventKey(e) \notin DOMAIN L.event)
  BY <1>1 DEF Events, Put
<1> QED BY <1>2 DEF M

(* The row a submission is stored under says what the submitted row says.  *)
LEMMA StoredRow ==
  ASSUME NEW L, NEW row, NEW e, Admitted(L, row, e)
  PROVE  /\ SourceKey(row) \in DOMAIN Insert(L, row, e).source
         /\ Fingerprint(Insert(L, row, e).source[SourceKey(row)]) = Fingerprint(row)
<1> DEFINE M == Insert(L, row, e)
<1>1. M.source = PutIfAbsent(L.source, SourceKey(row), row)
  BY DEF Insert
<1> HIDE DEF M
<1>2. SourceKey(row) \in DOMAIN L.source =>
        Fingerprint(L.source[SourceKey(row)]) = Fingerprint(row)
  BY DEF Admitted
<1>3. /\ SourceKey(row) \in DOMAIN M.source
      /\ Fingerprint(M.source[SourceKey(row)]) = Fingerprint(row)
  BY <1>1, <1>2 DEF PutIfAbsent
<1> QED BY <1>3 DEF M

LEMMA SameLineage ==
  ASSUME NEW r, NEW q, NEW e, Fingerprint(r) = Fingerprint(q), LineageHolds(q, e)
  PROVE  LineageHolds(r, e)
BY SameFingerprint DEF LineageHolds, IsValid

LEMMA InsertTraceable ==
  ASSUME NEW L, TraceableIn(L), NEW row, NEW e, Admitted(L, row, e)
  PROVE  TraceableIn(Insert(L, row, e))
<1> DEFINE M == Insert(L, row, e)
<1>1. /\ M.source = PutIfAbsent(L.source, SourceKey(row), row)
      /\ M.locator = Put(L.locator, LocatorKey(row), row.id)
  BY DEF Insert
<1>2. /\ SourceKey(row) \in DOMAIN M.source
      /\ Fingerprint(M.source[SourceKey(row)]) = Fingerprint(row)
  BY StoredRow
<1>3. \A k \in DOMAIN L.source : k \in DOMAIN M.source /\ M.source[k] = L.source[k]
  BY InsertExtends DEF Extends
<1>4. \A x \in Events(M) : x \in Events(L) \/ (x = e /\ e # NoEvent)
  BY InsertedEvents
<1> HIDE DEF M
<1>5. \A k \in DOMAIN M.source : k = SourceKey(M.source[k])
  BY <1>1 DEF PutIfAbsent, TraceableIn
<1>6. ASSUME NEW x \in Events(M)
      PROVE  /\ <<x.tenant, x.source>> \in DOMAIN M.source
             /\ LineageHolds(M.source[<<x.tenant, x.source>>], x)
  <2>1. CASE x \in Events(L)
    <3>1. /\ <<x.tenant, x.source>> \in DOMAIN L.source
          /\ LineageHolds(L.source[<<x.tenant, x.source>>], x)
      BY <2>1 DEF TraceableIn
    <3> QED BY <3>1, <1>3
  <2>2. CASE x = e /\ e # NoEvent
    <3>1. LineageHolds(row, e)
      BY <2>2 DEF Admitted
    <3>2. <<x.tenant, x.source>> = SourceKey(row)
      BY <2>2, <3>1 DEF LineageHolds, SourceKey
    <3>3. LineageHolds(M.source[SourceKey(row)], e)
      BY <1>2, <3>1, SameLineage, Zenon
    <3> QED BY <1>2, <2>2, <3>2, <3>3
  <2> QED BY <1>4, <2>1, <2>2
<1>7. ASSUME NEW k \in DOMAIN M.locator
      PROVE  /\ <<k[1], M.locator[k]>> \in DOMAIN M.source
             /\ M.source[<<k[1], M.locator[k]>>].line = k[3]
  <2>1. CASE k = LocatorKey(row)
    <3>1. M.locator[k] = row.id
      BY <1>1, <2>1 DEF Put
    <3>2. <<k[1], M.locator[k]>> = SourceKey(row) /\ k[3] = row.line
      BY <2>1, <3>1 DEF LocatorKey, SourceKey
    <3>3. M.source[SourceKey(row)].line = row.line
      BY <1>2, SameFingerprint, Zenon
    <3> QED BY <1>2, <3>2, <3>3
  <2>2. CASE k # LocatorKey(row)
    <3>1. k \in DOMAIN L.locator /\ M.locator[k] = L.locator[k]
      BY <1>1, <2>2 DEF Put
    <3>2. /\ <<k[1], L.locator[k]>> \in DOMAIN L.source
          /\ L.source[<<k[1], L.locator[k]>>].line = k[3]
      BY <3>1 DEF TraceableIn
    <3> QED BY <3>1, <3>2, <1>3
  <2> QED BY <2>1, <2>2
<1>8. TraceableIn(M)
  BY <1>5, <1>6, <1>7 DEF TraceableIn
<1> QED BY <1>8 DEF M

LEMMA InsertChained ==
  ASSUME NEW L, IndexesAgreeIn(L), ChainedIn(L),
         NEW row, NEW e, Admitted(L, row, e),
         e # NoEvent => e \in CanonicalEvent,
         Events(L) \subseteq CanonicalEvent
  PROVE  ChainedIn(Insert(L, row, e))
<1> DEFINE M == Insert(L, row, e)
           Below(x) == <<x.tenant, x.account, x.key, x.revision - 1>>
<1>1. \A x \in Events(M) :
        x \in Events(L) \/ (x = e /\ e # NoEvent /\ EventKey(e) \notin DOMAIN L.event)
  BY InsertedEvents
<1>2. \A k \in DOMAIN L.rev : k \in DOMAIN M.rev /\ M.rev[k] = L.rev[k]
  <2>1. CASE e # NoEvent /\ EventKey(e) \notin DOMAIN L.event
    <3>1. M.rev = Put(L.rev, RevisionKey(e), e)
      BY <2>1, InsertEvents
    <3>2. RevisionKey(e) \notin DOMAIN L.rev
      BY <2>1, NewEverywhere
    <3> QED BY <3>1, <3>2 DEF Put
  <2>2. CASE ~(e # NoEvent /\ EventKey(e) \notin DOMAIN L.event)
    <3>1. M.rev = L.rev
      BY <2>2, InsertEvents
    <3> QED BY <3>1
  <2> QED BY <2>1, <2>2
<1> HIDE DEF M
<1>3. ASSUME NEW x \in Events(M), x.revision # 1
      PROVE  /\ Below(x) \in DOMAIN M.rev
             /\ M.rev[Below(x)].id = x.supersedes
             /\ M.rev[Below(x)].type = x.type
  <2>1. CASE x \in Events(L)
    <3>1. /\ Below(x) \in DOMAIN L.rev
          /\ L.rev[Below(x)].id = x.supersedes
          /\ L.rev[Below(x)].type = x.type
      BY <2>1, <1>3 DEF ChainedIn
    <3> QED BY <3>1, <1>2
  <2>2. CASE x = e /\ e # NoEvent
    <3> DEFINE target == <<e.tenant, e.supersedes>>
               p == L.event[target]
    <3>1. /\ target \in DOMAIN L.event
          /\ p.account = e.account /\ p.key = e.key /\ p.type = e.type
          /\ p.revision + 1 = e.revision
      BY <2>2, <1>3 DEF Admitted, RevisionVerdict
    <3>2. /\ target = EventKey(p)
          /\ RevisionKey(p) \in DOMAIN L.rev
          /\ L.rev[RevisionKey(p)] = p
      BY <3>1 DEF IndexesAgreeIn
    <3>3. p.tenant = e.tenant /\ p.id = e.supersedes
      BY <3>2 DEF EventKey
    <3>4. p.revision \in Int
      BY <3>1 DEF Events, CanonicalEvent
    <3>5. p.revision = e.revision - 1
      BY <3>1, <3>4
    <3>6. RevisionKey(p) = Below(x)
      BY <2>2, <3>1, <3>3, <3>5 DEF RevisionKey
    <3> HIDE DEF p
    <3> QED BY <2>2, <3>1, <3>2, <3>3, <3>6, <1>2
  <2> QED BY <1>1, <2>1, <2>2
<1>4. ASSUME NEW x \in Events(M), x.revision = 1
      PROVE  x.supersedes = NoId
  <2>1. CASE x \in Events(L)
    BY <2>1, <1>4 DEF ChainedIn
  <2>2. CASE x = e /\ e # NoEvent
    BY <2>2, <1>4 DEF Admitted, RevisionVerdict
  <2> QED BY <1>1, <2>1, <2>2
<1>5. ChainedIn(M)
  BY <1>3, <1>4, Zenon DEF ChainedIn
<1> QED BY <1>5 DEF M

-----------------------------------------------------------------------------
(* Sums, counted unit by unit, are monotone and grow by what is added.     *)
Units(S, n) == UNION {{x} \X (1 .. n[x]) : x \in S}

LEMMA UnitsFinite ==
  ASSUME NEW S, IsFiniteSet(S), NEW n, \A x \in S : n[x] \in Nat
  PROVE  IsFiniteSet(Units(S, n))
<1> DEFINE P == {{x} \X (1 .. n[x]) : x \in S}
           f == [x \in S |-> {x} \X (1 .. n[x])]
<1>1. f \in Surjection(S, P)
  BY DEF Surjection
<1>2. IsFiniteSet(P)
  BY <1>1, FS_Surjection DEF ExistsSurjection
<1>3. ASSUME NEW x \in S PROVE IsFiniteSet({x} \X (1 .. n[x]))
  <2>1. IsFiniteSet({x})
    BY FS_Singleton
  <2>2. 1 \in Int /\ n[x] \in Int
    OBVIOUS
  <2>3. IsFiniteSet(1 .. n[x])
    BY <2>2, FS_Interval
  <2> QED BY <2>1, <2>3, FS_Product
<1>4. \A T \in P : IsFiniteSet(T)
  BY <1>3
<1> HIDE DEF P
<1>5. IsFiniteSet(UNION P)
  BY <1>2, <1>4, FS_UNION
<1> QED BY <1>5 DEF Units, P

LEMMA UnitsMonotone ==
  ASSUME NEW S, IsFiniteSet(S), NEW n, \A x \in S : n[x] \in Nat, NEW T, T \subseteq S
  PROVE  /\ Cardinality(Units(T, n)) <= Cardinality(Units(S, n))
         /\ Cardinality(Units(T, n)) \in Nat /\ Cardinality(Units(S, n)) \in Nat
<1>1. Units(T, n) \subseteq Units(S, n)
  BY DEF Units
<1>2. IsFiniteSet(Units(S, n))
  BY UnitsFinite
<1>3. IsFiniteSet(Units(T, n)) /\ Cardinality(Units(T, n)) <= Cardinality(Units(S, n))
  BY <1>1, <1>2, FS_Subset
<1> QED BY <1>2, <1>3, FS_CardinalityType

LEMMA UnitsAdd ==
  ASSUME NEW S, IsFiniteSet(S), NEW n, \A x \in S : n[x] \in Nat, NEW e, n[e] \in Nat
  PROVE  Cardinality(Units(S \cup {e}, n)) <= Cardinality(Units(S, n)) + n[e]
<1> DEFINE U == Units(S, n)
           V == {e} \X (1 .. n[e])
<1>1. Units(S \cup {e}, n) = U \cup V
  BY DEF Units
<1>2. IsFiniteSet(U)
  BY UnitsFinite
<1>3. IsFiniteSet(V) /\ Cardinality(V) = n[e]
  <2>1. IsFiniteSet({e}) /\ Cardinality({e}) = 1
    BY FS_Singleton
  <2>2. IsFiniteSet(1 .. n[e]) /\ Cardinality(1 .. n[e]) = n[e]
    BY FS_Interval
  <2>3. IsFiniteSet(V) /\ Cardinality(V) = 1 * n[e]
    BY <2>1, <2>2, FS_Product
  <2> QED BY <2>3
<1> HIDE DEF U, V
<1>4. Cardinality(U \cup V) = Cardinality(U) + Cardinality(V) - Cardinality(U \cap V)
  BY <1>2, <1>3, FS_Union
<1>5. Cardinality(U) \in Nat /\ Cardinality(U \cap V) \in Nat
  <2>1. IsFiniteSet(U \cap V)
    BY <1>2, FS_Subset
  <2> QED BY <1>2, <2>1, FS_CardinalityType
<1>6. \A a, b, c, d \in Int : a = b + c - d /\ d >= 0 => a <= b + c
  OBVIOUS
<1>7. Cardinality(U \cup V) \in Int
  BY <1>3, <1>4, <1>5
<1>8. Cardinality(U \cup V) <= Cardinality(U) + n[e]
  BY <1>3, <1>4, <1>5, <1>6, <1>7
<1> QED BY <1>1, <1>8 DEF U

LEMMA TotalsAreUnits ==
  ASSUME NEW S, S \subseteq CanonicalEvent
  PROVE  /\ TotalQuantity(S) = Cardinality(Units(S, [x \in CanonicalEvent |-> x.quantity]))
         /\ TotalAmount(S) = Cardinality(Units(S, [x \in CanonicalEvent |-> x.amount]))
<1>1. Units(S, [x \in CanonicalEvent |-> x.quantity])
        = UNION {{x} \X (1 .. x.quantity) : x \in S}
  BY DEF Units
<1>2. Units(S, [x \in CanonicalEvent |-> x.amount]) = UNION {{x} \X (1 .. x.amount) : x \in S}
  BY DEF Units
<1> QED BY <1>1, <1>2 DEF TotalQuantity, TotalAmount

LEMMA TotalsGrow ==
  ASSUME NEW S, IsFiniteSet(S), S \subseteq CanonicalEvent
  PROVE  /\ TotalQuantity(S) \in Nat /\ TotalAmount(S) \in Nat
         /\ \A T \in SUBSET S : /\ TotalQuantity(T) \in Nat /\ TotalAmount(T) \in Nat
                                /\ TotalQuantity(T) <= TotalQuantity(S)
                                /\ TotalAmount(T) <= TotalAmount(S)
         /\ \A e \in CanonicalEvent :
              /\ TotalQuantity(S \cup {e}) <= TotalQuantity(S) + e.quantity
              /\ TotalAmount(S \cup {e}) <= TotalAmount(S) + e.amount
<1> DEFINE q == [x \in CanonicalEvent |-> x.quantity]
           a == [x \in CanonicalEvent |-> x.amount]
<1>1. \A x \in CanonicalEvent : /\ q[x] = x.quantity /\ q[x] \in Nat
                                /\ a[x] = x.amount /\ a[x] \in Nat
  BY DEF CanonicalEvent
<1>2. \A T : T \subseteq CanonicalEvent =>
               /\ TotalQuantity(T) = Cardinality(Units(T, q))
               /\ TotalAmount(T) = Cardinality(Units(T, a))
  BY TotalsAreUnits
<1> HIDE DEF q, a
<1>3. ASSUME NEW T \in SUBSET S
      PROVE  /\ TotalQuantity(T) \in Nat /\ TotalAmount(T) \in Nat
             /\ TotalQuantity(T) <= TotalQuantity(S)
             /\ TotalAmount(T) <= TotalAmount(S)
  <2>1. /\ Cardinality(Units(T, q)) <= Cardinality(Units(S, q)) /\ Cardinality(Units(T, q)) \in Nat
    BY <1>1, UnitsMonotone
  <2>2. /\ Cardinality(Units(T, a)) <= Cardinality(Units(S, a)) /\ Cardinality(Units(T, a)) \in Nat
    BY <1>1, UnitsMonotone
  <2> QED BY <1>2, <2>1, <2>2
<1>4. ASSUME NEW e \in CanonicalEvent
      PROVE  /\ TotalQuantity(S \cup {e}) <= TotalQuantity(S) + e.quantity
             /\ TotalAmount(S \cup {e}) <= TotalAmount(S) + e.amount
  <2>1. Cardinality(Units(S \cup {e}, q)) <= Cardinality(Units(S, q)) + q[e]
    BY <1>1, UnitsAdd
  <2>2. Cardinality(Units(S \cup {e}, a)) <= Cardinality(Units(S, a)) + a[e]
    BY <1>1, UnitsAdd
  <2>3. S \cup {e} \subseteq CanonicalEvent
    OBVIOUS
  <2> QED BY <1>1, <1>2, <2>1, <2>2, <2>3
<1> QED BY <1>3, <1>4

-----------------------------------------------------------------------------
(* The reversal limit: the active returns of a sale, and what bounds them. *)
ActiveIn(L, s) ==
  {x \in Events(L) : /\ x.tenant = s.tenant
                     /\ x.type = Return
                     /\ x.reversalOf = s.id
                     /\ ~\E y \in Events(L) : y.tenant = x.tenant /\ y.supersedes = x.id}
WithinIn(active, s) ==
  /\ s.type = Sale
  /\ \A x \in active : x.good = s.good /\ x.account = s.account
  /\ TotalQuantity(active) <= s.quantity
  /\ TotalAmount(active) <= s.amount

LEMMA WithinOriginalParts ==
  ASSUME NEW L
  PROVE  WithinOriginalIn(L) <=>
           \A s \in Events(L) : ActiveIn(L, s) # {} => WithinIn(ActiveIn(L, s), s)
BY DEF WithinOriginalIn, ActiveIn, WithinIn

(* What the accepted return e says about its sale.                         *)
LEMMA AcceptedReturn ==
  ASSUME NEW L, NEW e, ReversalVerdict(L, e) = "OK", e.type = Return
  PROVE  LET target == <<e.tenant, e.reversalOf>>
             original == L.event[target]
             active == ActiveReversals(L, original, e)
         IN /\ target \in DOMAIN L.event
            /\ original.account = e.account /\ original.type = Sale
            /\ \A x \in active \cup {e} : x.good = original.good
            /\ ~(TotalQuantity(active) + e.quantity > original.quantity)
            /\ ~(TotalAmount(active) + e.amount > original.amount)
BY DEF ReversalVerdict

LEMMA InsertWithin ==
  ASSUME NEW L, IndexesAgreeIn(L), Events(L) \subseteq CanonicalEvent,
         IsFiniteSet(Events(L)), ReturnsFollowIn(L), WithinOriginalIn(L),
         NEW row, NEW e \in CanonicalEvent \cup {NoEvent}, Admitted(L, row, e)
  PROVE  /\ IsFiniteSet(Events(Insert(L, row, e)))
         /\ ReturnsFollowIn(Insert(L, row, e))
         /\ WithinOriginalIn(Insert(L, row, e))
<1> DEFINE M == Insert(L, row, e)
           E == Events(L)
<1>1. CASE ~(e # NoEvent /\ EventKey(e) \notin DOMAIN L.event)
  <2>1. M.event = L.event
    BY <1>1 DEF Insert
  <2>2. Events(M) = E
    BY <2>1 DEF Events
  <2>3. \A s : ActiveIn(M, s) = ActiveIn(L, s)
    BY <2>2 DEF ActiveIn
  <2> QED BY <2>1, <2>2, <2>3, WithinOriginalParts DEF ReturnsFollowIn
<1>2. CASE e # NoEvent /\ EventKey(e) \notin DOMAIN L.event
  <2>1. M.event = Put(L.event, EventKey(e), e)
    BY <1>2 DEF Insert
  <2>2. Events(M) = E \cup {e} /\ DOMAIN M.event = DOMAIN L.event \cup {EventKey(e)}
    BY <1>2, <2>1 DEF Events, Put
  <2> HIDE DEF M
  <2>3. e \in CanonicalEvent /\ ReversalVerdict(L, e) = "OK"
    BY <1>2 DEF Admitted
  <2>4. \A x \in E : EventKey(x) \in DOMAIN L.event /\ L.event[EventKey(x)] = x
    BY DEF IndexesAgreeIn, Events
  <2>5. e.type = Return => <<e.tenant, e.reversalOf>> \in DOMAIN L.event
    BY <2>3, AcceptedReturn
  <2>6. IsFiniteSet(Events(M))
    BY <2>2, FS_AddElement
  <2>7. ReturnsFollowIn(M)
    BY <2>2, <2>5 DEF ReturnsFollowIn
  <2>8. ASSUME NEW s \in Events(M), ActiveIn(M, s) # {}
        PROVE  WithinIn(ActiveIn(M, s), s)
    <3> DEFINE A == ActiveIn(M, s)
    <3>1. \A x \in A : /\ x \in E \cup {e} /\ x.tenant = s.tenant /\ x.type = Return
                       /\ x.reversalOf = s.id
                       /\ \A y \in E \cup {e} : y.tenant = x.tenant => y.supersedes # x.id
      BY <2>2 DEF ActiveIn
    <3>2. s \in E
      <4>1. ASSUME s = e, NEW x \in A PROVE FALSE
        <5>1. <<x.tenant, x.reversalOf>> = EventKey(e)
          BY <3>1, <4>1 DEF EventKey
        <5>2. <<x.tenant, x.reversalOf>> \in DOMAIN L.event
          BY <2>5, <3>1, <4>1 DEF ReturnsFollowIn
        <5> QED BY <1>2, <5>1, <5>2
      <4> QED BY <2>2, <2>8, <4>1
    <3>3. \A x \in A : x # e => x \in ActiveIn(L, s)
      BY <3>1 DEF ActiveIn
    <3>4. ActiveIn(L, s) # {} => WithinIn(ActiveIn(L, s), s)
      BY <3>2, WithinOriginalParts
    <3>5. s.quantity \in Nat /\ s.amount \in Nat
      BY <3>2 DEF CanonicalEvent
    <3> HIDE DEF A
    <3>6. CASE e \notin A
      <4>1. A \subseteq ActiveIn(L, s) /\ WithinIn(ActiveIn(L, s), s)
        BY <2>8, <3>3, <3>4, <3>6 DEF A
      <4>2. ActiveIn(L, s) \subseteq E
        BY DEF ActiveIn
      <4>3. IsFiniteSet(ActiveIn(L, s)) /\ ActiveIn(L, s) \subseteq CanonicalEvent
        BY <4>2, FS_Subset
      <4>4. /\ TotalQuantity(A) <= TotalQuantity(ActiveIn(L, s))
            /\ TotalAmount(A) <= TotalAmount(ActiveIn(L, s))
            /\ TotalQuantity(A) \in Nat /\ TotalAmount(A) \in Nat
            /\ TotalQuantity(ActiveIn(L, s)) \in Nat /\ TotalAmount(ActiveIn(L, s)) \in Nat
        BY <4>1, <4>3, TotalsGrow
      <4>5. TotalQuantity(A) <= s.quantity /\ TotalAmount(A) <= s.amount
        BY <3>5, <4>1, <4>4 DEF WithinIn
      <4> QED BY <4>1, <4>5 DEF WithinIn, A
    <3>7. CASE e \in A
      <4> DEFINE target == <<e.tenant, e.reversalOf>>
                 R == ActiveReversals(L, s, e)
      <4>1. e.type = Return /\ target = EventKey(s)
        BY <3>1, <3>7 DEF EventKey
      <4>2. L.event[target] = s
        BY <2>4, <3>2, <4>1
      <4>3. /\ s.account = e.account /\ s.type = Sale
            /\ \A x \in R \cup {e} : x.good = s.good
            /\ ~(TotalQuantity(R) + e.quantity > s.quantity)
            /\ ~(TotalAmount(R) + e.amount > s.amount)
        BY <2>3, <4>1, <4>2, AcceptedReturn
      <4>4. A \subseteq R \cup {e}
        <5> SUFFICES ASSUME NEW x \in A, x # e PROVE x \in R
          OBVIOUS
        <5>1. x \in E /\ x.tenant = e.tenant /\ x.type = Return /\ x.reversalOf = s.id
          BY <3>1, <3>7
        <5>2. x.id # e.id
          BY <1>2, <2>4, <5>1 DEF EventKey
        <5>3. \A y \in E \cup {e} : y.tenant = e.tenant => y.supersedes # x.id
          BY <3>1, <5>1
        <5>4. x.id \notin {y.supersedes : y \in {z \in E : z.tenant = e.tenant}} \cup {e.supersedes}
          BY <5>3
        <5> QED BY <5>1, <5>2, <5>4 DEF ActiveReversals
      <4>5. R \subseteq E
        BY DEF ActiveReversals
      <4> HIDE DEF R
      <4>6. IsFiniteSet(R) /\ R \subseteq CanonicalEvent /\ IsFiniteSet(R \cup {e})
            /\ R \cup {e} \subseteq CanonicalEvent
        BY <2>3, <4>5, FS_Subset, FS_AddElement
      <4>7. /\ TotalQuantity(R \cup {e}) <= TotalQuantity(R) + e.quantity
            /\ TotalAmount(R \cup {e}) <= TotalAmount(R) + e.amount
            /\ TotalQuantity(R) \in Nat /\ TotalAmount(R) \in Nat
        BY <2>3, <4>6, TotalsGrow
      <4>8. /\ TotalQuantity(A) <= TotalQuantity(R \cup {e})
            /\ TotalAmount(A) <= TotalAmount(R \cup {e})
            /\ TotalQuantity(A) \in Nat /\ TotalAmount(A) \in Nat
            /\ TotalQuantity(R \cup {e}) \in Nat /\ TotalAmount(R \cup {e}) \in Nat
        BY <4>4, <4>6, TotalsGrow
      <4>9. e.quantity \in Nat /\ e.amount \in Nat
        BY <2>3 DEF CanonicalEvent
      <4>10. TotalQuantity(A) <= s.quantity /\ TotalAmount(A) <= s.amount
        BY <3>5, <4>3, <4>7, <4>8, <4>9
      <4>11. \A x \in A : x.good = s.good
        BY <4>3, <4>4
      <4>12. ASSUME NEW x \in A PROVE x.account = s.account
        <5>1. CASE x = e
          BY <4>3, <5>1
        <5>2. CASE x # e
          <6>1. x \in ActiveIn(L, s)
            BY <3>3, <4>12, <5>2
          <6> QED BY <3>4, <6>1 DEF WithinIn
        <5> QED BY <5>1, <5>2
      <4> QED BY <4>3, <4>10, <4>11, <4>12 DEF WithinIn, A
    <3> QED BY <3>6, <3>7
  <2> QED BY <2>6, <2>7, <2>8, WithinOriginalParts DEF M
<1> QED BY <1>1, <1>2

(* What one admitted pair adds to the rows and to the events.              *)
LEMMA InsertAdds ==
  ASSUME NEW L, Sound(L), NEW row, NEW e, NEW t, Verdict(L, t, row, e) = "OK"
  PROVE  /\ row.tenant = t
         /\ \/ /\ NewRows(L, row) = 1 /\ row \notin Rows(L)
               /\ Rows(Insert(L, row, e)) = Rows(L) \cup {row}
            \/ NewRows(L, row) = 0 /\ Rows(Insert(L, row, e)) = Rows(L)
         /\ \E r \in Rows(Insert(L, row, e)) : Fingerprint(r) = Fingerprint(row)
         /\ \/ /\ NewEvents(L, e) = 1 /\ e \notin Events(L) /\ e # NoEvent
               /\ Events(Insert(L, row, e)) = Events(L) \cup {e}
            \/ /\ NewEvents(L, e) = 0 /\ e \in Events(L) \cup {NoEvent}
               /\ Events(Insert(L, row, e)) = Events(L)
<1> DEFINE M == Insert(L, row, e)
<1>1. row.tenant = t
  BY DEF Verdict
<1>2. Admitted(L, row, e)
  BY VerdictAdmits
<1>3. M.source = PutIfAbsent(L.source, SourceKey(row), row)
  BY InsertEvents
<1>4. /\ \A k \in DOMAIN L.source : k = SourceKey(L.source[k])
      /\ \A k \in DOMAIN L.event : k = EventKey(L.event[k])
  BY DEF Sound, TraceableIn, IndexesAgreeIn
<1>5. SourceKey(row) \in DOMAIN M.source
      /\ Fingerprint(M.source[SourceKey(row)]) = Fingerprint(row)
  BY <1>2, StoredRow
<1>6. \/ /\ e # NoEvent /\ EventKey(e) \notin DOMAIN L.event
         /\ M.event = Put(L.event, EventKey(e), e)
      \/ /\ ~(e # NoEvent /\ EventKey(e) \notin DOMAIN L.event)
         /\ M.event = L.event
  BY InsertEvents
<1>7. e # NoEvent /\ EventKey(e) \in DOMAIN L.event => L.event[EventKey(e)] = e
  BY <1>2 DEF Admitted
<1> HIDE DEF M
<1>8. \/ /\ NewRows(L, row) = 1 /\ row \notin Rows(L)
         /\ Rows(M) = Rows(L) \cup {row}
      \/ NewRows(L, row) = 0 /\ Rows(M) = Rows(L)
  <2>1. CASE SourceKey(row) \in DOMAIN L.source
    <3>1. /\ DOMAIN M.source = DOMAIN L.source
          /\ \A k \in DOMAIN L.source : M.source[k] = L.source[k]
      BY <1>3, <2>1 DEF PutIfAbsent
    <3>2. Rows(M) = Rows(L)
      BY <3>1 DEF Rows
    <3> QED BY <2>1, <3>2 DEF NewRows
  <2>2. CASE SourceKey(row) \notin DOMAIN L.source
    <3>1. /\ DOMAIN M.source = DOMAIN L.source \cup {SourceKey(row)}
          /\ M.source[SourceKey(row)] = row
          /\ \A k \in DOMAIN L.source : M.source[k] = L.source[k]
      BY <1>3, <2>2 DEF PutIfAbsent
    <3>2. Rows(M) = Rows(L) \cup {row}
      BY <3>1 DEF Rows
    <3>3. row \notin Rows(L)
      BY <1>4, <2>2 DEF Rows
    <3> QED BY <2>2, <3>2, <3>3 DEF NewRows
  <2> QED BY <2>1, <2>2
<1>9. \/ /\ NewEvents(L, e) = 1 /\ e \notin Events(L) /\ e # NoEvent
         /\ Events(M) = Events(L) \cup {e}
      \/ /\ NewEvents(L, e) = 0 /\ e \in Events(L) \cup {NoEvent}
         /\ Events(M) = Events(L)
  <2>1. CASE e # NoEvent /\ EventKey(e) \notin DOMAIN L.event
    <3>1. M.event = Put(L.event, EventKey(e), e)
      BY <1>6, <2>1
    <3>2. Events(M) = Events(L) \cup {e}
      BY <2>1, <3>1 DEF Events, Put
    <3>3. e \notin Events(L)
      BY <1>4, <2>1 DEF Events
    <3> QED BY <2>1, <3>2, <3>3 DEF NewEvents
  <2>2. CASE ~(e # NoEvent /\ EventKey(e) \notin DOMAIN L.event)
    <3>1. Events(M) = Events(L)
      BY <1>6, <2>2 DEF Events
    <3>2. e \in Events(L) \cup {NoEvent}
      BY <1>7, <2>2 DEF Events
    <3> QED BY <2>2, <3>1, <3>2 DEF NewEvents
  <2> QED BY <2>1, <2>2
<1>10. \E r \in Rows(M) : Fingerprint(r) = Fingerprint(row)
  BY <1>5 DEF Rows
<1> QED BY <1>1, <1>8, <1>9, <1>10 DEF M

LEMMA InsertSound ==
  ASSUME NEW L, Sound(L), NEW row \in SourceRow, NEW e \in CanonicalEvent \cup {NoEvent},
         NEW t, Verdict(L, t, row, e) = "OK"
  PROVE  /\ Sound(Insert(L, row, e))
         /\ Extends(Insert(L, row, e), L)
<1>1. IsFiniteSet(Rows(Insert(L, row, e)))
  <2>1. Rows(Insert(L, row, e)) = Rows(L) \cup {row} \/ Rows(Insert(L, row, e)) = Rows(L)
    BY InsertAdds
  <2> QED BY <2>1, FS_AddElement DEF Sound
<1>2. Admitted(L, row, e)
  BY VerdictAdmits
<1>3. Events(L) \subseteq CanonicalEvent
  BY DEF Sound, LedgerType, Events, IsDict
<1>4. /\ LedgerType(L) /\ IndexesAgreeIn(L) /\ TraceableIn(L) /\ ChainedIn(L)
      /\ IsFiniteSet(Events(L)) /\ ReturnsFollowIn(L) /\ WithinOriginalIn(L)
  BY DEF Sound
<1>5. LedgerType(Insert(L, row, e))
  BY <1>4, InsertType
<1>6. IndexesAgreeIn(Insert(L, row, e))
  BY <1>2, <1>4, InsertIndexes
<1>7. TraceableIn(Insert(L, row, e))
  BY <1>2, <1>4, InsertTraceable
<1>8. ChainedIn(Insert(L, row, e))
  BY <1>2, <1>3, <1>4, InsertChained
<1>9. Extends(Insert(L, row, e), L)
  BY <1>2, InsertExtends
<1>10. /\ IsFiniteSet(Events(Insert(L, row, e)))
       /\ ReturnsFollowIn(Insert(L, row, e))
       /\ WithinOriginalIn(Insert(L, row, e))
  BY <1>2, <1>3, <1>4, InsertWithin
<1> QED BY <1>1, <1>5, <1>6, <1>7, <1>8, <1>9, <1>10 DEF Sound

LEMMA EmptyLedgerSound == Sound(EmptyLedger)
<1>1. \A k : k \notin DOMAIN <<>>
  OBVIOUS
<1>2. Events(EmptyLedger) = {}
  BY <1>1 DEF Events, EmptyLedger
<1>3. IndexesAgreeIn(EmptyLedger)
  BY <1>1 DEF IndexesAgreeIn, EmptyLedger
<1>4. TraceableIn(EmptyLedger)
  BY <1>1, <1>2 DEF TraceableIn, EmptyLedger
<1>5. ChainedIn(EmptyLedger)
  BY <1>2 DEF ChainedIn
<1>6. IsFiniteSet(Rows(EmptyLedger)) /\ IsFiniteSet(Events(EmptyLedger))
  <2>1. Rows(EmptyLedger) = {}
    BY <1>1 DEF Rows, EmptyLedger
  <2> QED BY <1>2, <2>1, FS_EmptySet
<1>7. ReturnsFollowIn(EmptyLedger) /\ WithinOriginalIn(EmptyLedger)
  BY <1>2 DEF ReturnsFollowIn, WithinOriginalIn
<1> QED BY EmptyLedgerType, <1>3, <1>4, <1>5, <1>6, <1>7 DEF Sound

LEMMA ExtendsTransitive ==
  ASSUME NEW L, NEW M, NEW N, Extends(M, L), Extends(N, M)
  PROVE  Extends(N, L)
BY DEF Extends

LEMMA ExtendsItself == \A L : Extends(L, L)
BY DEF Extends

LEMMA ExtendsEvents ==
  ASSUME NEW L, NEW M, Extends(M, L)
  PROVE  Events(L) \subseteq Events(M)
BY DEF Extends, Events
=============================================================================
