----------------------- MODULE CanonicalIngestProofs -----------------------
(***************************************************************************)
(* Proofs about CanonicalIngest, for any number of ingestors and any       *)
(* report files.  PlanOn and AppendBatch are recursive functions over the  *)
(* rows of a file and the items of a plan; what they compute is proved by  *)
(* induction, with sets of numbers in the place of predicates.             *)
(***************************************************************************)
EXTENDS CanonicalIngest, LedgerRulesProofs, SequenceTheorems, WellFoundedInduction

-----------------------------------------------------------------------------
(* Induction and recursion over the natural numbers.                       *)
LEMMA SetInduction ==
  ASSUME NEW T, 0 \in T, \A n \in Nat : n \in T => n + 1 \in T
  PROVE  Nat \subseteq T
<1> DEFINE S == Nat \ T
           R == OpToRel(<, Nat)
<1> SUFFICES ASSUME S # {} PROVE FALSE
  OBVIOUS
<1>1. IsWellFoundedOn(R, Nat)
  BY NatLessThanWellFounded
<1>2. PICK m \in S : \A y \in S : ~(<<y, m>> \in R)
  <2> HIDE DEF R
  <2> QED BY <1>1, WFMin
<1>3. \A y \in S : ~(y < m)
  BY <1>2 DEF OpToRel
<1>4. m # 0 /\ m - 1 \in Nat /\ m - 1 < m
  OBVIOUS
<1>5. m - 1 \in T
  BY <1>3, <1>4
<1> QED BY <1>4, <1>5

(* Induction up to n.                                                      *)
LEMMA BoundedInduction ==
  ASSUME NEW n \in Nat, NEW T, 0 \in T, \A i \in 1 .. n : i - 1 \in T => i \in T
  PROVE  \A i \in 0 .. n : i \in T
<1> DEFINE U == {i \in Nat : i <= n => i \in T}
<1>1. 0 \in U
  OBVIOUS
<1>2. ASSUME NEW i \in Nat, i \in U PROVE i + 1 \in U
  BY <1>2
<1> HIDE DEF U
<1>3. Nat \subseteq U
  BY <1>1, <1>2, SetInduction
<1> QED BY <1>3 DEF U

(* Every set of natural numbers has a least member.                        *)
LEMMA LeastMember ==
  ASSUME NEW S \in SUBSET Nat, S # {}
  PROVE  \E m \in S : \A y \in S : m <= y
<1> DEFINE R == OpToRel(<, Nat)
<1>1. IsWellFoundedOn(R, Nat)
  BY NatLessThanWellFounded
<1>2. PICK m \in S : \A y \in S : ~(<<y, m>> \in R)
  <2> HIDE DEF R
  <2> QED BY <1>1, WFMin
<1>3. \A y \in S : ~(y < m)
  BY <1>2 DEF OpToRel
<1> QED BY <1>3

(* f is a run of n steps G[1], G[2], ... from a, all through X.            *)
Steps(n, X) == [1 .. n -> [X -> X]]
RunsThrough(f, n, X, a, G) ==
  /\ f \in [0 .. n -> X] /\ f[0] = a
  /\ \A i \in 1 .. n : f[i] = G[i][f[i - 1]]

LEMMA Recursion ==
  ASSUME NEW n \in Nat, NEW X, NEW a \in X, NEW G \in Steps(n, X)
  PROVE  \E f : RunsThrough(f, n, X, a, G)
<1> USE DEF Steps
<1> DEFINE Upto(f, m) == RunsThrough(f, m, X, a, G)
           T == {m \in Nat : m <= n => \E f : Upto(f, m)}
<1>1. 0 \in T
  <2>1. Upto([i \in 0 .. 0 |-> a], 0)
    BY DEF RunsThrough
  <2> QED BY <2>1
<1>2. ASSUME NEW m \in Nat, m \in T PROVE m + 1 \in T
  <2> SUFFICES ASSUME m + 1 <= n PROVE \E f : Upto(f, m + 1)
    OBVIOUS
  <2>1. PICK f : Upto(f, m)
    BY <1>2
  <2>a. /\ f \in [0 .. m -> X] /\ f[0] = a
        /\ \A i \in 1 .. m : f[i] = G[i][f[i - 1]]
    BY <2>1 DEF RunsThrough
  <2>2. PICK v \in X : v = G[m + 1][f[m]]
    BY <2>a
  <2> DEFINE g == [i \in 0 .. (m + 1) |-> IF i <= m THEN f[i] ELSE v]
  <2>3. g \in [0 .. (m + 1) -> X] /\ g[0] = a
    BY <2>a
  <2>4. \A i \in 0 .. m : g[i] = f[i]
    OBVIOUS
  <2>5. g[m + 1] = v
    OBVIOUS
  <2> HIDE DEF g
  <2>6. ASSUME NEW i \in 1 .. (m + 1) PROVE g[i] = G[i][g[i - 1]]
    <3>1. CASE i = m + 1
      BY <2>2, <2>4, <2>5, <3>1
    <3>2. CASE i # m + 1
      BY <2>a, <2>4, <3>2
    <3> QED BY <3>1, <3>2
  <2>7. Upto(g, m + 1)
    BY <2>3, <2>6 DEF RunsThrough
  <2> QED BY <2>7
<1> HIDE DEF T
<1>3. Nat \subseteq T
  BY <1>1, <1>2, SetInduction
<1>4. n \in T
  BY <1>3
<1> QED BY <1>4 DEF T

-----------------------------------------------------------------------------
(* append_batch, item by item.  Ledgers and accumulators form sets, which  *)
(* the recursion needs to range over.                                      *)
Item == [row : SourceRow, event : CanonicalEvent \cup {NoEvent}]

DictSet(K, V) == UNION {[D -> V] : D \in SUBSET K}

Ledgers ==
  {L \in [source  : DictSet(Tenants \X SourceIds, SourceRow),
          locator : DictSet(Tenants \X Files \X Lines, SourceIds),
          event   : DictSet(Tenants \X EventIds, CanonicalEvent),
          idem    : DictSet(Tenants \X IdempotencyKeys, CanonicalEvent),
          rev     : DictSet(Tenants \X Accounts \X BusinessKeys \X Nat, CanonicalEvent)] :
     Sound(L)}

LEMMA SoundInLedgers ==
  ASSUME NEW L, Sound(L)
  PROVE  L \in Ledgers
<1>1. /\ L = [source |-> L.source, locator |-> L.locator, event |-> L.event,
              idem |-> L.idem, rev |-> L.rev]
      /\ L.source \in [DOMAIN L.source -> SourceRow]
      /\ L.locator \in [DOMAIN L.locator -> SourceIds]
      /\ DOMAIN L.locator \subseteq Tenants \X Files \X Lines
      /\ L.event \in [DOMAIN L.event -> CanonicalEvent]
      /\ L.idem \in [DOMAIN L.idem -> CanonicalEvent]
      /\ L.rev \in [DOMAIN L.rev -> CanonicalEvent]
  BY DEF Sound, LedgerType, IsDict
<1>2. /\ \A k \in DOMAIN L.source : k = SourceKey(L.source[k])
      /\ \A k \in DOMAIN L.event : k = EventKey(L.event[k])
      /\ \A k \in DOMAIN L.idem : k = IdemKey(L.idem[k])
      /\ \A k \in DOMAIN L.rev : k = RevisionKey(L.rev[k])
  BY DEF Sound, TraceableIn, IndexesAgreeIn
<1>3. DOMAIN L.source \subseteq Tenants \X SourceIds
  BY <1>1, <1>2 DEF SourceKey, SourceRow
<1>4. DOMAIN L.event \subseteq Tenants \X EventIds
  BY <1>1, <1>2 DEF EventKey, CanonicalEvent
<1>5. DOMAIN L.idem \subseteq Tenants \X IdempotencyKeys
  BY <1>1, <1>2 DEF IdemKey, CanonicalEvent
<1>6. DOMAIN L.rev \subseteq Tenants \X Accounts \X BusinessKeys \X Nat
  BY <1>1, <1>2 DEF RevisionKey, CanonicalEvent
<1>7. \A f, K, V : f \in [DOMAIN f -> V] /\ DOMAIN f \subseteq K => f \in DictSet(K, V)
  BY DEF DictSet
<1>8. /\ L.source \in DictSet(Tenants \X SourceIds, SourceRow)
      /\ L.locator \in DictSet(Tenants \X Files \X Lines, SourceIds)
      /\ L.event \in DictSet(Tenants \X EventIds, CanonicalEvent)
      /\ L.idem \in DictSet(Tenants \X IdempotencyKeys, CanonicalEvent)
      /\ L.rev \in DictSet(Tenants \X Accounts \X BusinessKeys \X Nat, CanonicalEvent)
  BY <1>1, <1>3, <1>4, <1>5, <1>6, <1>7, Zenon
<1> QED BY <1>1, <1>8 DEF Ledgers

Codes ==
  {"OK", "SOURCE_ROW_NOT_FOUND", "VALID_SOURCE_ROW_EVENT_REQUIRED", "EVENT_LINEAGE_INVALID",
   "SOURCE_RECORD_CONFLICT", "SOURCE_ROW_LOCATOR_CONFLICT", "EVENT_ID_CONFLICT",
   "EVENT_IDEMPOTENCY_CONFLICT", "EVENT_REVISION_CONFLICT", "EVENT_SUPERSESSION_INVALID",
   "EVENT_SUPERSESSION_REQUIRED", "EVENT_SUPERSEDED_TARGET_MISSING", "EVENT_REVERSAL_REQUIRED",
   "EVENT_REVERSAL_INVALID", "EVENT_REVERSAL_TARGET_MISSING", "EVENT_TYPED_VALUE_INVALID",
   "EVENT_REVERSAL_UNIT_MISMATCH", "EVENT_REVERSAL_EXCEEDS_ORIGINAL",
   "BATCH_DEPENDENCY_UNRESOLVED"}

LEMMA VerdictType == \A L, t, row, e : Verdict(L, t, row, e) \in Codes
BY DEF Codes, Verdict, EventVerdict, RevisionVerdict, ReversalVerdict

Accs == [ledger : Ledgers, code : Codes, rows : Nat, events : Nat]

LEMMA ApplyItemType ==
  ASSUME NEW L \in Ledgers, NEW t, NEW acc \in Accs, NEW o \in Item
  PROVE  ApplyItem(L, t, acc, o) \in Accs
<1>1. o.row \in SourceRow /\ o.event \in CanonicalEvent \cup {NoEvent}
  BY DEF Item
<1>2. Sound(acc.ledger) /\ acc.ledger \in Ledgers
  BY DEF Accs, Ledgers
<1>3. CASE acc.code # "OK"
  BY <1>3 DEF ApplyItem
<1>4. CASE acc.code = "OK" /\ Verdict(acc.ledger, t, o.row, o.event) # "OK"
  BY <1>4, VerdictType DEF ApplyItem, Accs
<1>5. CASE acc.code = "OK" /\ Verdict(acc.ledger, t, o.row, o.event) = "OK"
  <2>1. Sound(Insert(acc.ledger, o.row, o.event))
    BY <1>1, <1>2, <1>5, InsertSound
  <2>2. Insert(acc.ledger, o.row, o.event) \in Ledgers
    BY <2>1, SoundInLedgers
  <2>3. NewRows(acc.ledger, o.row) \in Nat /\ NewEvents(acc.ledger, o.event) \in Nat
    BY DEF NewRows, NewEvents
  <2>4. ApplyItem(L, t, acc, o)
          = [ledger |-> Insert(acc.ledger, o.row, o.event), code |-> "OK",
             rows |-> acc.rows + NewRows(acc.ledger, o.row),
             events |-> acc.events + NewEvents(acc.ledger, o.event)]
    BY <1>5 DEF ApplyItem
  <2> QED BY <2>2, <2>3, <2>4 DEF Accs, Codes
<1> QED BY <1>3, <1>4, <1>5

(* The steps of append_batch.                                              *)
Applies(f, L, t, items) ==
  /\ f \in [0 .. Len(items) -> Accs]
  /\ f[0] = [ledger |-> L, code |-> "OK", rows |-> 0, events |-> 0]
  /\ \A i \in 1 .. Len(items) : f[i] = ApplyItem(L, t, f[i - 1], items[i])

LEMMA AppendBatchSteps ==
  ASSUME NEW L, Sound(L), NEW t, NEW items \in Seq(Item)
  PROVE  \E f : Applies(f, L, t, items) /\ AppendBatch(L, t, items) = f[Len(items)]
<1> DEFINE n == Len(items)
           a == [ledger |-> L, code |-> "OK", rows |-> 0, events |-> 0]
           applied[i \in 0 .. Len(items)] ==
             IF i = 0 THEN [ledger |-> L, code |-> "OK", rows |-> 0, events |-> 0]
             ELSE ApplyItem(L, t, applied[i - 1], items[i])
           G == [i \in 1 .. n |-> [acc \in Accs |-> ApplyItem(L, t, acc, items[i])]]
<1>1. AppendBatch(L, t, items) = applied[n]
  BY DEF AppendBatch
<1>2. n \in Nat /\ a \in Accs /\ L \in Ledgers /\ \A i \in 1 .. n : items[i] \in Item
  BY SoundInLedgers DEF Accs, Codes
<1>3. G \in Steps(n, Accs)
  BY <1>2, ApplyItemType DEF Steps
<1>a. PICK f : RunsThrough(f, n, Accs, a, G)
  <2> HIDE DEF G, a, n
  <2> QED BY <1>2, <1>3, Recursion
<1>4. f \in [0 .. n -> Accs] /\ f[0] = a
  BY <1>a DEF RunsThrough
<1>5. ASSUME NEW i \in 1 .. n PROVE f[i] = ApplyItem(L, t, f[i - 1], items[i])
  <2>1. f[i - 1] \in Accs /\ f[i] = G[i][f[i - 1]]
    BY <1>2, <1>4, <1>a DEF RunsThrough
  <2> QED BY <2>1
<1>6. f = [i \in 0 .. n |-> IF i = 0 THEN a ELSE ApplyItem(L, t, f[i - 1], items[i])]
  BY <1>4, <1>5
<1>7. applied = [i \in 0 .. n |-> IF i = 0 THEN a ELSE ApplyItem(L, t, applied[i - 1], items[i])]
  BY <1>6
<1> HIDE DEF applied
<1>8. /\ applied[0] = a
      /\ \A i \in 1 .. n : applied[i] = ApplyItem(L, t, applied[i - 1], items[i])
  BY <1>2, <1>7
<1>9. \A i \in 0 .. n : applied[i] \in Accs
  <2> DEFINE T == {i \in 0 .. n : applied[i] \in Accs}
  <2>1. 0 \in T
    BY <1>2, <1>8
  <2>2. ASSUME NEW i \in 1 .. n, i - 1 \in T PROVE i \in T
    BY <1>2, <1>8, <2>2, ApplyItemType
  <2> HIDE DEF T
  <2>3. \A i \in 0 .. n : i \in T
    BY <1>2, <2>1, <2>2, BoundedInduction
  <2> QED BY <2>3 DEF T
<1>10. applied \in [0 .. n -> Accs]
  BY <1>7, <1>9
<1>11. Applies(applied, L, t, items)
  BY <1>8, <1>10 DEF Applies
<1> QED BY <1>1, <1>11

(* Every VALID row has an event made from it.                              *)
EventForValid(L) ==
  \A x \in Rows(L) : IsValid(x) => \E e \in Events(L) : e.tenant = x.tenant /\ e.source = x.id

LEMMA InsertEventForValid ==
  ASSUME NEW L, Sound(L), EventForValid(L), NEW row, NEW e, NEW t, Verdict(L, t, row, e) = "OK"
  PROVE  EventForValid(Insert(L, row, e))
<1> DEFINE M == Insert(L, row, e)
<1>1. /\ Rows(M) \subseteq Rows(L) \cup {row}
      /\ Events(L) \subseteq Events(M)
      /\ e # NoEvent => e \in Events(M)
  BY InsertAdds
<1>2. IsValid(row) => e # NoEvent /\ e.tenant = row.tenant /\ e.source = row.id
  BY DEF Verdict, LineageHolds
<1> HIDE DEF M
<1>3. EventForValid(M)
  BY <1>1, <1>2 DEF EventForValid
<1> QED BY <1>3 DEF M

(* The accumulator after the first i items.                                *)
AfterItems(L, items, i, acc) ==
  /\ acc.code # "OK" => acc.ledger = L /\ acc.rows = 0 /\ acc.events = 0
  /\ acc.code = "OK" =>
       /\ Rows(acc.ledger) \subseteq Rows(L) \cup {items[j].row : j \in 1 .. i}
       /\ Events(acc.ledger) \subseteq
            Events(L) \cup {e \in {items[j].event : j \in 1 .. i} : e # NoEvent}
       /\ Rows(L) \subseteq Rows(acc.ledger)
       /\ \A j \in 1 .. i : \E x \in Rows(acc.ledger) : Fingerprint(x) = Fingerprint(items[j].row)
       /\ EventForValid(L) => EventForValid(acc.ledger)
  /\ Cardinality(Rows(acc.ledger)) = Cardinality(Rows(L)) + acc.rows
  /\ Cardinality(Events(acc.ledger)) = Cardinality(Events(L)) + acc.events

LEMMA ApplyItemAfter ==
  ASSUME NEW L, Sound(L), NEW t, NEW items \in Seq(Item), NEW i \in 1 .. Len(items),
         NEW acc \in Accs, AfterItems(L, items, i - 1, acc)
  PROVE  AfterItems(L, items, i, ApplyItem(L, t, acc, items[i]))
<1> DEFINE o == items[i]
           K == acc.ledger
           M == Insert(K, o.row, o.event)
<1>1. o \in Item /\ Sound(K) /\ acc.rows \in Nat /\ acc.events \in Nat
  BY DEF Accs, Ledgers
<1>2. /\ Cardinality(Rows(L)) \in Nat /\ Cardinality(Events(L)) \in Nat
      /\ Cardinality(Rows(K)) \in Nat /\ Cardinality(Events(K)) \in Nat
  BY <1>1, FS_CardinalityType DEF Sound
<1>3. CASE acc.code # "OK"
  <2>1. ApplyItem(L, t, acc, o) = acc
    BY <1>3 DEF ApplyItem
  <2> QED BY <1>3, <2>1 DEF AfterItems
<1>4. CASE acc.code = "OK" /\ Verdict(K, t, o.row, o.event) # "OK"
  <2>1. ApplyItem(L, t, acc, o) = [ledger |-> L, code |-> Verdict(K, t, o.row, o.event),
                                   rows |-> 0, events |-> 0]
    BY <1>4 DEF ApplyItem
  <2> QED BY <1>2, <1>4, <2>1 DEF AfterItems
<1>5. CASE acc.code = "OK" /\ Verdict(K, t, o.row, o.event) = "OK"
  <2> DEFINE next == [ledger |-> M, code |-> "OK", rows |-> acc.rows + NewRows(K, o.row),
                      events |-> acc.events + NewEvents(K, o.event)]
  <2>1. ApplyItem(L, t, acc, o) = next
    BY <1>5 DEF ApplyItem
  <2>2. /\ \/ /\ NewRows(K, o.row) = 1 /\ o.row \notin Rows(K)
              /\ Rows(M) = Rows(K) \cup {o.row}
           \/ NewRows(K, o.row) = 0 /\ Rows(M) = Rows(K)
        /\ \E r \in Rows(M) : Fingerprint(r) = Fingerprint(o.row)
        /\ \/ /\ NewEvents(K, o.event) = 1 /\ o.event \notin Events(K) /\ o.event # NoEvent
              /\ Events(M) = Events(K) \cup {o.event}
           \/ /\ NewEvents(K, o.event) = 0 /\ o.event \in Events(K) \cup {NoEvent}
              /\ Events(M) = Events(K)
    BY <1>1, <1>5, InsertAdds
  <2>3. EventForValid(L) => EventForValid(M)
    BY <1>1, <1>5, InsertEventForValid DEF AfterItems
  <2>4. Cardinality(Rows(M)) = Cardinality(Rows(K)) + NewRows(K, o.row)
    <3>1. IsFiniteSet(Rows(K))
      BY <1>1 DEF Sound
    <3> HIDE DEF M, K, o
    <3>2. Cardinality(Rows(K) \cup {o.row})
            = IF o.row \in Rows(K) THEN Cardinality(Rows(K)) ELSE Cardinality(Rows(K)) + 1
      BY <3>1, FS_AddElement
    <3>3. CASE NewRows(K, o.row) = 1 /\ o.row \notin Rows(K) /\ Rows(M) = Rows(K) \cup {o.row}
      BY <3>2, <3>3
    <3>4. CASE NewRows(K, o.row) = 0 /\ Rows(M) = Rows(K)
      BY <1>2, <3>4
    <3> QED BY <2>2, <3>3, <3>4
  <2>5. Cardinality(Events(M)) = Cardinality(Events(K)) + NewEvents(K, o.event)
    <3>1. IsFiniteSet(Events(K))
      BY <1>1 DEF Sound
    <3> HIDE DEF M, K, o
    <3>2. Cardinality(Events(K) \cup {o.event})
            = IF o.event \in Events(K) THEN Cardinality(Events(K)) ELSE Cardinality(Events(K)) + 1
      BY <3>1, FS_AddElement
    <3>3. CASE NewEvents(K, o.event) = 1 /\ o.event \notin Events(K)
               /\ Events(M) = Events(K) \cup {o.event}
      BY <3>2, <3>3
    <3>4. CASE NewEvents(K, o.event) = 0 /\ Events(M) = Events(K)
      BY <1>2, <3>4
    <3> QED BY <2>2, <3>3, <3>4
  <2>6. /\ Rows(K) \subseteq Rows(L) \cup {items[j].row : j \in 1 .. (i - 1)}
        /\ Events(K) \subseteq
             Events(L) \cup {e \in {items[j].event : j \in 1 .. (i - 1)} : e # NoEvent}
        /\ Rows(L) \subseteq Rows(K)
        /\ \A j \in 1 .. (i - 1) : \E x \in Rows(K) : Fingerprint(x) = Fingerprint(items[j].row)
        /\ Cardinality(Rows(K)) = Cardinality(Rows(L)) + acc.rows
        /\ Cardinality(Events(K)) = Cardinality(Events(L)) + acc.events
    BY <1>5 DEF AfterItems
  <2>7. 1 .. i = (1 .. (i - 1)) \cup {i}
    OBVIOUS
  <2> HIDE DEF M, K, o
  <2>8. Rows(M) \subseteq Rows(L) \cup {items[j].row : j \in 1 .. i}
    BY <2>2, <2>6, <2>7 DEF o
  <2>9. Events(M) \subseteq Events(L) \cup {e \in {items[j].event : j \in 1 .. i} : e # NoEvent}
    BY <2>2, <2>6, <2>7 DEF o
  <2>10. \A j \in 1 .. i : \E x \in Rows(M) : Fingerprint(x) = Fingerprint(items[j].row)
    BY <2>2, <2>6, <2>7 DEF o
  <2>11. Rows(L) \subseteq Rows(M)
    BY <2>2, <2>6
  <2>12. NewRows(K, o.row) \in Nat /\ NewEvents(K, o.event) \in Nat
    BY <2>2
  <2>13. /\ Cardinality(Rows(M)) = Cardinality(Rows(L)) + (acc.rows + NewRows(K, o.row))
         /\ Cardinality(Events(M)) = Cardinality(Events(L)) + (acc.events + NewEvents(K, o.event))
    <3>1. \A a, b, c, d, n \in Nat : a = b + n /\ b = c + d => a = c + (d + n)
      OBVIOUS
    <3>2. Cardinality(Rows(M)) \in Nat /\ Cardinality(Events(M)) \in Nat
      BY <1>2, <2>4, <2>5, <2>12
    <3>3. Cardinality(Rows(M)) = Cardinality(Rows(L)) + (acc.rows + NewRows(K, o.row))
      <4>1. /\ Cardinality(Rows(M)) = Cardinality(Rows(K)) + NewRows(K, o.row)
            /\ Cardinality(Rows(K)) = Cardinality(Rows(L)) + acc.rows
        BY <2>4, <2>6
      <4> QED BY <1>1, <1>2, <2>12, <3>1, <3>2, <4>1
    <3>4. Cardinality(Events(M)) = Cardinality(Events(L)) + (acc.events + NewEvents(K, o.event))
      <4>1. /\ Cardinality(Events(M)) = Cardinality(Events(K)) + NewEvents(K, o.event)
            /\ Cardinality(Events(K)) = Cardinality(Events(L)) + acc.events
        BY <2>5, <2>6
      <4> QED BY <1>1, <1>2, <2>12, <3>1, <3>2, <4>1
    <3> QED BY <3>3, <3>4
  <2>14. AfterItems(L, items, i, next)
    BY <2>3, <2>8, <2>9, <2>10, <2>11, <2>13 DEF AfterItems
  <2> QED BY <2>1, <2>14 DEF o
<1> QED BY <1>3, <1>4, <1>5

LEMMA AppendBatchResult ==
  ASSUME NEW L, Sound(L), NEW t, NEW items \in Seq(Item)
  PROVE  /\ AppendBatch(L, t, items) \in Accs
         /\ AfterItems(L, items, Len(items), AppendBatch(L, t, items))
<1>1. PICK f : Applies(f, L, t, items) /\ AppendBatch(L, t, items) = f[Len(items)]
  BY AppendBatchSteps
<1> DEFINE n == Len(items)
           T == {i \in 0 .. n : AfterItems(L, items, i, f[i])}
<1>2. n \in Nat /\ f \in [0 .. n -> Accs]
  BY <1>1 DEF Applies
<1>3. 0 \in T
  <2>1. f[0] = [ledger |-> L, code |-> "OK", rows |-> 0, events |-> 0]
    BY <1>1 DEF Applies
  <2>2. Cardinality(Rows(L)) \in Nat /\ Cardinality(Events(L)) \in Nat
    BY FS_CardinalityType DEF Sound
  <2> QED BY <1>2, <2>1, <2>2 DEF AfterItems
<1>4. ASSUME NEW i \in 1 .. n, i - 1 \in T PROVE i \in T
  <2>1. f[i - 1] \in Accs /\ f[i] = ApplyItem(L, t, f[i - 1], items[i])
    BY <1>1, <1>2 DEF Applies
  <2>2. AfterItems(L, items, i, f[i])
    BY <1>4, <2>1, ApplyItemAfter
  <2> QED BY <2>2
<1> HIDE DEF T
<1>5. \A i \in 0 .. n : i \in T
  BY <1>2, <1>3, <1>4, BoundedInduction
<1> QED BY <1>1, <1>2, <1>5 DEF T

-----------------------------------------------------------------------------
(* Planning.  The candidate that goes first is one of the ready ones.      *)
LEMMA PrecedesAt ==
  ASSUME NEW a1, NEW a2, NEW a3, NEW a4, NEW b1, NEW b2, NEW b3, NEW b4,
         \/ a1 < b1
         \/ a1 = b1 /\ a2 < b2
         \/ a1 = b1 /\ a2 = b2 /\ a3 < b3
         \/ a1 = b1 /\ a2 = b2 /\ a3 = b3 /\ a4 < b4
  PROVE  Precedes(<<a1, a2, a3, a4>>, <<b1, b2, b3, b4>>)
<1> DEFINE a == <<a1, a2, a3, a4>>
           b == <<b1, b2, b3, b4>>
<1>1. DOMAIN a = 1 .. 4
  OBVIOUS
<1>2. /\ a[1] = a1 /\ a[2] = a2 /\ a[3] = a3 /\ a[4] = a4
      /\ b[1] = b1 /\ b[2] = b2 /\ b[3] = b3 /\ b[4] = b4
  OBVIOUS
<1> HIDE DEF a, b
<1>3. \E i \in 1 .. 4 : a[i] < b[i] /\ \A j \in 1 .. (i - 1) : a[j] = b[j]
  <2>1. CASE a1 < b1
    <3>1. a[1] < b[1] /\ \A j \in 1 .. (1 - 1) : a[j] = b[j]
      BY <1>2, <2>1
    <3> QED BY <3>1
  <2>2. CASE a1 = b1 /\ a2 < b2
    <3>1. a[2] < b[2] /\ \A j \in 1 .. (2 - 1) : a[j] = b[j]
      BY <1>2, <2>2
    <3> QED BY <3>1
  <2>3. CASE a1 = b1 /\ a2 = b2 /\ a3 < b3
    <3>1. a[3] < b[3] /\ \A j \in 1 .. (3 - 1) : a[j] = b[j]
      BY <1>2, <2>3
    <3> QED BY <3>1
  <2>4. CASE a1 = b1 /\ a2 = b2 /\ a3 = b3 /\ a4 < b4
    <3>1. a[4] < b[4] /\ \A j \in 1 .. (4 - 1) : a[j] = b[j]
      BY <1>2, <2>4
    <3> QED BY <3>1
  <2> QED BY <2>1, <2>2, <2>3, <2>4
<1> QED BY <1>1, <1>3 DEF Precedes, a, b

(* A key of a set of members, least in one component.                      *)
LEMMA LeastIn ==
  ASSUME NEW S, S # {}, NEW K, \A n \in S : K[n] \in Nat
  PROVE  \E v \in Nat : (\E n \in S : K[n] = v) /\ \A n \in S : v <= K[n]
<1> DEFINE V == {K[n] : n \in S}
<1>1. V \in SUBSET Nat /\ V # {}
  OBVIOUS
<1>2. PICK v \in V : \A y \in V : v <= y
  BY <1>1, LeastMember
<1> QED BY <1>1, <1>2

LEMMA LexLeast ==
  ASSUME NEW S, S # {}, S \subseteq Nat,
         NEW K1, NEW K2, NEW K3, \A n \in S : K1[n] \in Nat /\ K2[n] \in Nat /\ K3[n] \in Nat
  PROVE  \E n \in S : \A m \in S \ {n} :
            Precedes(<<K1[n], K2[n], K3[n], n>>, <<K1[m], K2[m], K3[m], m>>)
<1>1. PICK v1 \in Nat : (\E n \in S : K1[n] = v1) /\ \A n \in S : v1 <= K1[n]
  BY LeastIn
<1> DEFINE S1 == {n \in S : K1[n] = v1}
<1>2. PICK v2 \in Nat : (\E n \in S1 : K2[n] = v2) /\ \A n \in S1 : v2 <= K2[n]
  <2>1. S1 # {} /\ \A n \in S1 : K2[n] \in Nat
    BY <1>1
  <2> HIDE DEF S1
  <2> QED BY <2>1, LeastIn
<1> DEFINE S2 == {n \in S1 : K2[n] = v2}
<1>3. PICK v3 \in Nat : (\E n \in S2 : K3[n] = v3) /\ \A n \in S2 : v3 <= K3[n]
  <2>1. S2 # {} /\ \A n \in S2 : K3[n] \in Nat
    BY <1>2
  <2> HIDE DEF S2
  <2> QED BY <2>1, LeastIn
<1> DEFINE S3 == {n \in S2 : K3[n] = v3}
<1>4. PICK n \in S3 : \A m \in S3 : n <= m
  <2>1. S3 # {} /\ S3 \in SUBSET Nat
    BY <1>3
  <2> HIDE DEF S3
  <2> QED BY <2>1, LeastMember
<1>5. ASSUME NEW m \in S, m # n
      PROVE  \/ K1[n] < K1[m]
             \/ K1[n] = K1[m] /\ K2[n] < K2[m]
             \/ K1[n] = K1[m] /\ K2[n] = K2[m] /\ K3[n] < K3[m]
             \/ K1[n] = K1[m] /\ K2[n] = K2[m] /\ K3[n] = K3[m] /\ n < m
  <2>1. K1[n] = v1 /\ K2[n] = v2 /\ K3[n] = v3 /\ n \in Nat
    BY <1>4
  <2>2. K1[m] \in Nat /\ K2[m] \in Nat /\ K3[m] \in Nat /\ m \in Nat
    BY <1>5
  <2>3. /\ v1 <= K1[m]
        /\ K1[m] = v1 => v2 <= K2[m]
        /\ K1[m] = v1 /\ K2[m] = v2 => v3 <= K3[m]
        /\ K1[m] = v1 /\ K2[m] = v2 /\ K3[m] = v3 => n <= m
    BY <1>1, <1>2, <1>3, <1>4, <1>5
  <2> QED BY <1>5, <2>1, <2>2, <2>3
<1>6. \A m \in S \ {n} : Precedes(<<K1[n], K2[n], K3[n], n>>, <<K1[m], K2[m], K3[m], m>>)
  BY <1>5, PrecedesAt
<1> QED BY <1>6

LEMMA ReadableFacts ==
  ASSUME NEW r, Readable(r)
  PROVE  /\ r.account \in Accounts /\ r.upload.tenant \in Tenants /\ r.upload.id \in Files
         /\ r.upload.bytes \in Contents
         /\ DOMAIN r.upload.rows = 1 .. Len(r.upload.rows) /\ Len(r.upload.rows) \in Nat
         /\ \A n \in DOMAIN r.upload.rows :
              /\ n + 1 \in Lines
              /\ r.upload.rows[n] # Malformed =>
                   /\ r.upload.rows[n] \in ReportLine
                   /\ ReportEventId(r.upload.rows[n]) \in EventIds
                   /\ EventIdPlace[ReportEventId(r.upload.rows[n])] \in Nat
<1>1. r.upload \in ReportFile /\ r.account \in Accounts
  BY DEF Readable
<1>2. r.upload.rows \in Seq({Malformed} \cup ReportLine)
  BY <1>1 DEF ReportFile
<1>3. \A n \in DOMAIN r.upload.rows : r.upload.rows[n] \in {Malformed} \cup ReportLine
  BY <1>2
<1>4. DOMAIN r.upload.rows = 1 .. Len(r.upload.rows) /\ Len(r.upload.rows) \in Nat
  BY <1>2
<1> QED BY <1>1, <1>3, <1>4 DEF Readable, ReportFile, ReportEventId

(* What a request makes of a line is a source row and, if the line can be  *)
(* read, an event.                                                         *)
LEMMA RequestTypes ==
  ASSUME NEW r, Readable(r), NEW n \in DOMAIN r.upload.rows
  PROVE  /\ \A d \in Diagnostics \cup {NoDiagnostics} : RowOf(r.upload, n, d) \in SourceRow
         /\ r.upload.rows[n] # Malformed => EventOf(r, n) \in CanonicalEvent
         /\ DOMAIN r.upload.rows = 1 .. Len(r.upload.rows) /\ Len(r.upload.rows) \in Nat
<1> DEFINE u == r.upload
           line == u.rows[n]
<1>1. /\ r.account \in Accounts /\ u.tenant \in Tenants /\ u.id \in Files /\ u.bytes \in Contents
      /\ n + 1 \in Lines
      /\ DOMAIN r.upload.rows = 1 .. Len(r.upload.rows) /\ Len(r.upload.rows) \in Nat
      /\ line # Malformed => line \in ReportLine /\ ReportEventId(line) \in EventIds
  BY ReadableFacts
<1> HIDE DEF line, u
<1>2. SourceRecordId(u, n) \in SourceIds
  <2>1. <<u.tenant, u.bytes, n + 1>> \in Tenants \X Contents \X Lines
    BY <1>1
  <2> QED BY <2>1, DigestsAssumption DEF SourceRecordId
<1>3. \A d \in Diagnostics \cup {NoDiagnostics} : RowOf(u, n, d) \in SourceRow
  BY <1>1, <1>2 DEF RowOf, SourceRow
<1>4. line # Malformed => EventOf(r, n) \in CanonicalEvent
  <2> SUFFICES ASSUME line # Malformed PROVE EventOf(r, n) \in CanonicalEvent
    OBVIOUS
  <2>1. line \in ReportLine /\ ReportEventId(line) \in EventIds
    BY <1>1
  <2>2. <<r.account, ReportEventId(line), SourceRecordId(u, n)>> \in IdempotencyKeys
    <3>1. <<r.account, ReportEventId(line), SourceRecordId(u, n)>> \in Accounts \X EventIds \X SourceIds
      BY <1>1, <1>2, <2>1
    <3> QED BY <3>1, DigestsAssumption
  <2>3. EventOf(r, n) =
          [tenant |-> u.tenant, id |-> ReportEventId(line),
           account |-> r.account, key |-> line.operation, type |-> line.type,
           revision |-> line.revision,
           idem |-> <<r.account, ReportEventId(line), SourceRecordId(u, n)>>,
           supersedes |-> line.supersedes, reversalOf |-> line.reversalOf,
           source |-> SourceRecordId(u, n), content |-> u.bytes,
           sound |-> TRUE, typed |-> TRUE,
           good |-> line.good, quantity |-> line.quantity, amount |-> line.amount]
    BY DEF EventOf, line, u
  <2>4. /\ line.operation \in BusinessKeys /\ line.type \in {Sale, Return}
        /\ line.revision \in Nat \ {0} /\ line.supersedes \in EventIds \cup {NoId}
        /\ line.reversalOf \in EventIds \cup {NoId} /\ line.good \in Goods
        /\ line.quantity \in Nat \ {0} /\ line.amount \in Nat
    BY <2>1 DEF ReportLine
  <2> QED BY <1>1, <1>2, <2>1, <2>2, <2>3, <2>4 DEF CanonicalEvent
<1> QED BY <1>1, <1>3, <1>4 DEF u, line

LEMMA FirstReadyIsReady ==
  ASSUME NEW r, Readable(r), NEW pending, NEW ready, ready # {}, ready \subseteq Candidates(r.upload)
  PROVE  /\ FirstReady(r.upload, pending, ready) \in ready
         /\ \A m \in ready \ {FirstReady(r.upload, pending, ready)} :
              Precedes(CandidateOrder(r.upload, pending, FirstReady(r.upload, pending, ready)),
                       CandidateOrder(r.upload, pending, m))
<1> DEFINE u == r.upload
           eid(n) == ReportEventId(u.rows[n])
           K1 == [n \in ready |-> IF u.rows[n].supersedes # NoId THEN 0
                                  ELSE IF \E m \in pending : u.rows[m].supersedes = eid(n)
                                    THEN 1 ELSE 2]
           K2 == [n \in ready |-> u.rows[n].time]
           K3 == [n \in ready |-> EventIdPlace[eid(n)]]
<1>1. ready \subseteq Nat
  BY ReadableFacts DEF Candidates
<1>2. \A n \in ready : K1[n] \in Nat
  OBVIOUS
<1>3. \A n \in ready : K2[n] \in Nat /\ K3[n] \in Nat
  BY ReadableFacts DEF Candidates, ReportLine
<1>4. \A n \in ready : CandidateOrder(u, pending, n) = <<K1[n], K2[n], K3[n], n>>
  BY DEF CandidateOrder
<1> HIDE DEF K1, K2, K3
<1>5. \E n \in ready : \A m \in ready \ {n} :
         Precedes(<<K1[n], K2[n], K3[n], n>>, <<K1[m], K2[m], K3[m], m>>)
  BY <1>1, <1>2, <1>3, LexLeast
<1>6. \E n \in ready : \A m \in ready \ {n} :
         Precedes(CandidateOrder(u, pending, n), CandidateOrder(u, pending, m))
  BY <1>4, <1>5
<1> QED BY <1>6, Zenon DEF FirstReady

(* Where an item of a plan comes from, and which lines a plan covers.      *)
FromRequest(r, o) ==
  \E n \in DOMAIN r.upload.rows :
     /\ \E d \in Diagnostics \cup {NoDiagnostics} : o.row = RowOf(r.upload, n, d)
     /\ o.event # NoEvent => r.upload.rows[n] # Malformed /\ o.event = EventOf(r, n)
Covers(items, n) == \E i \in DOMAIN items : items[i].row.line = n + 1

ItemsOf(r) == {o \in Item : FromRequest(r, o)}
PlanStates(r) == [staging : Ledgers, pending : SUBSET Candidates(r.upload),
                  items : Seq(ItemsOf(r)), code : Codes]

(* Later st has planned what earlier st0 has, and the lines N besides.     *)
Planned(st0, st, N) ==
  /\ st0.code = "OK" /\ st.pending = st0.pending \ N
  /\ \A m \in N : Covers(st.items, m)
  /\ \A m : Covers(st0.items, m) => Covers(st.items, m)

StagedInto(r, st, n, next) ==
  /\ next \in PlanStates(r)
  /\ next.code = "OK" => Planned(st, next, {n})

LEMMA StagePlans ==
  ASSUME NEW r, Readable(r), NEW st \in PlanStates(r), NEW n \in DOMAIN r.upload.rows,
         NEW d \in Diagnostics \cup {NoDiagnostics}, NEW e,
         e = NoEvent \/ (r.upload.rows[n] # Malformed /\ e = EventOf(r, n))
  PROVE  StagedInto(r, st, n, Stage(st, r.upload.tenant, n, RowOf(r.upload, n, d), e))
<1> DEFINE row == RowOf(r.upload, n, d)
           t == r.upload.tenant
           next == Stage(st, t, n, row, e)
           o == [row |-> row, event |-> e]
<1>1. row \in SourceRow /\ e \in CanonicalEvent \cup {NoEvent} /\ row.line = n + 1
  BY RequestTypes DEF RowOf
<1>2. o \in ItemsOf(r)
  <2>1. o \in Item
    BY <1>1 DEF Item
  <2>2. FromRequest(r, o)
    BY DEF FromRequest
  <2> QED BY <2>1, <2>2 DEF ItemsOf
<1>3. /\ st.staging \in Ledgers /\ Sound(st.staging) /\ st.pending \subseteq Candidates(r.upload)
      /\ st.items \in Seq(ItemsOf(r)) /\ st.code \in Codes
  BY DEF PlanStates, Ledgers
<1> HIDE DEF row, t, o
<1>4. CASE st.code # "OK"
  BY <1>4 DEF Stage, StagedInto
<1>5. CASE st.code = "OK" /\ Verdict(st.staging, t, row, e) # "OK"
  <2>1. next = [st EXCEPT !.code = Verdict(st.staging, t, row, e)]
    BY <1>5 DEF Stage
  <2> QED BY <1>5, <2>1, VerdictType DEF PlanStates, StagedInto, row, t
<1>6. CASE st.code = "OK" /\ Verdict(st.staging, t, row, e) = "OK"
  <2>1. next = [staging |-> Insert(st.staging, row, e), pending |-> st.pending \ {n},
                items |-> Append(st.items, o), code |-> "OK"]
    BY <1>6 DEF Stage, o
  <2>2. Insert(st.staging, row, e) \in Ledgers
    BY <1>1, <1>3, <1>6, InsertSound, SoundInLedgers
  <2>3. Append(st.items, o) \in Seq(ItemsOf(r))
    BY <1>2, <1>3
  <2>4. next \in PlanStates(r)
    BY <1>3, <2>1, <2>2, <2>3 DEF PlanStates, Codes
  <2>5. Covers(next.items, n)
    <3>1. o.row.line = n + 1
      BY <1>1 DEF o
    <3>2. /\ Len(st.items) + 1 \in DOMAIN Append(st.items, o)
          /\ Append(st.items, o)[Len(st.items) + 1] = o
      BY <1>2, <1>3
    <3> QED BY <2>1, <3>1, <3>2 DEF Covers
  <2>6. ASSUME NEW m, Covers(st.items, m) PROVE Covers(next.items, m)
    <3>1. \A i \in DOMAIN st.items : /\ i \in DOMAIN Append(st.items, o)
                                     /\ Append(st.items, o)[i] = st.items[i]
      BY <1>2, <1>3
    <3> QED BY <2>1, <2>6, <3>1 DEF Covers
  <2>7. Planned(st, next, {n})
    BY <1>6, <2>1, <2>5, <2>6 DEF Planned
  <2> QED BY <2>4, <2>7 DEF StagedInto, row, t
<1> QED BY <1>4, <1>5, <1>6 DEF row, t

LEMMA RoundPlans ==
  ASSUME NEW r, Readable(r), NEW st \in PlanStates(r)
  PROVE  /\ Round(r, st) \in PlanStates(r)
         /\ Round(r, st).code = "OK" => \E n \in st.pending : Planned(st, Round(r, st), {n})
<1> DEFINE u == r.upload
           verdict(n) == Verdict(st.staging, u.tenant, RowOf(u, n, NoDiagnostics), EventOf(r, n))
           ready == {n \in st.pending : verdict(n) \notin MissingDependencyCodes}
           n == FirstReady(u, st.pending, ready)
<1>1. CASE st.code # "OK"
  <2>1. Round(r, st) = st
    BY <1>1 DEF Round
  <2> QED BY <1>1, <2>1
<1>2. CASE st.code = "OK" /\ ready = {}
  <2>1. Round(r, st) = [st EXCEPT !.code = "BATCH_DEPENDENCY_UNRESOLVED"]
    BY <1>2 DEF Round
  <2> QED BY <2>1 DEF PlanStates, Codes
<1>3. CASE st.code = "OK" /\ ready # {}
  <2>1. ready \subseteq Candidates(r.upload)
    BY DEF PlanStates
  <2>2. n \in ready
    <3> HIDE DEF ready
    <3> QED BY <1>3, <2>1, FirstReadyIsReady
  <2>3. n \in st.pending /\ n \in DOMAIN r.upload.rows /\ r.upload.rows[n] # Malformed
    BY <2>1, <2>2 DEF Candidates
  <2>4. CASE verdict(n) \in RowQuarantineCodes
    <3>1. Round(r, st) = Stage(st, u.tenant, n, RowOf(u, n, verdict(n)), NoEvent)
      BY <1>3, <2>4 DEF Round
    <3>2. verdict(n) \in Diagnostics
      BY <2>4, DiagnosticsAssumption DEF RowQuarantineCodes
    <3>3. PICK d \in Diagnostics \cup {NoDiagnostics} : d = verdict(n)
      BY <3>2
    <3> HIDE DEF n, verdict
    <3>4. StagedInto(r, st, n, Stage(st, r.upload.tenant, n, RowOf(r.upload, n, d), NoEvent))
      BY <2>3, StagePlans
    <3> QED BY <2>3, <3>1, <3>3, <3>4 DEF StagedInto
  <2>5. CASE verdict(n) \notin RowQuarantineCodes
    <3>1. Round(r, st) = Stage(st, u.tenant, n, RowOf(u, n, NoDiagnostics), EventOf(r, n))
      BY <1>3, <2>5 DEF Round
    <3> HIDE DEF n, verdict
    <3>2. StagedInto(r, st, n, Stage(st, r.upload.tenant, n, RowOf(r.upload, n, NoDiagnostics),
                                     EventOf(r, n)))
      BY <2>3, StagePlans
    <3> QED BY <2>3, <3>1, <3>2 DEF StagedInto
  <2> QED BY <2>4, <2>5
<1> QED BY <1>1, <1>2, <1>3

LEMMA CandidatesFinite ==
  ASSUME NEW r, Readable(r)
  PROVE  IsFiniteSet(Candidates(r.upload)) /\ Cardinality(Candidates(r.upload)) \in Nat
<1>1. /\ DOMAIN r.upload.rows = 1 .. Len(r.upload.rows) /\ Len(r.upload.rows) \in Nat
      /\ Candidates(r.upload) \subseteq 1 .. Len(r.upload.rows)
  BY ReadableFacts DEF Candidates
<1>2. IsFiniteSet(1 .. Len(r.upload.rows))
  BY <1>1, FS_Interval
<1> QED BY <1>1, <1>2, FS_Subset, FS_CardinalityType

(* The first pass over the rows of a file, and the rounds that follow it.  *)
FirstPass(f, L, r) ==
  /\ f \in [0 .. Len(r.upload.rows) -> PlanStates(r)]
  /\ f[0] = [staging |-> L, pending |-> Candidates(r.upload), items |-> <<>>, code |-> "OK"]
  /\ \A i \in 1 .. Len(r.upload.rows) :
       f[i] = IF r.upload.rows[i] # Malformed THEN f[i - 1]
              ELSE Stage(f[i - 1], r.upload.tenant, i,
                         RowOf(r.upload, i, "NORMALIZATION_FAILED"), NoEvent)

Rounds(f, L, r) ==
  /\ f \in [0 .. Cardinality(Candidates(r.upload)) -> PlanStates(r)]
  /\ f[0] = Immediate(L, r)
  /\ \A i \in 1 .. Cardinality(Candidates(r.upload)) : f[i] = Round(r, f[i - 1])

LEMMA ImmediateSteps ==
  ASSUME NEW L, Sound(L), NEW r, Readable(r)
  PROVE  \E f : FirstPass(f, L, r) /\ Immediate(L, r) = f[Len(r.upload.rows)]
<1> DEFINE u == r.upload
           n == Len(u.rows)
           X == PlanStates(r)
           a == [staging |-> L, pending |-> Candidates(u), items |-> <<>>, code |-> "OK"]
           Next_(i, st) == IF u.rows[i] # Malformed THEN st
                           ELSE Stage(st, u.tenant, i, RowOf(u, i, "NORMALIZATION_FAILED"), NoEvent)
           staged[i \in 0 .. Len(u.rows)] ==
             IF i = 0
               THEN [staging |-> L, pending |-> Candidates(u), items |-> <<>>, code |-> "OK"]
             ELSE IF u.rows[i] # Malformed THEN staged[i - 1]
             ELSE Stage(staged[i - 1], u.tenant, i, RowOf(u, i, "NORMALIZATION_FAILED"), NoEvent)
           G == [i \in 1 .. n |-> [st \in X |-> Next_(i, st)]]
<1>1. Immediate(L, r) = staged[n]
  BY DEF Immediate
<1>2. n \in Nat /\ a \in X /\ DOMAIN u.rows = 1 .. n
  BY SoundInLedgers, ReadableFacts DEF PlanStates, Codes
<1>3. ASSUME NEW i \in 1 .. n, NEW st \in X PROVE Next_(i, st) \in X
  <2>1. "NORMALIZATION_FAILED" \in Diagnostics
    BY DiagnosticsAssumption
  <2>2. CASE u.rows[i] # Malformed
    BY <2>2
  <2>3. CASE u.rows[i] = Malformed
    <3>1. StagedInto(r, st, i, Stage(st, u.tenant, i, RowOf(u, i, "NORMALIZATION_FAILED"), NoEvent))
      BY <1>2, <2>1, StagePlans
    <3> QED BY <2>3, <3>1 DEF StagedInto
  <2> QED BY <2>2, <2>3
<1>4. G \in Steps(n, X)
  <2> HIDE DEF Next_, X
  <2> QED BY <1>2, <1>3 DEF Steps
<1>5. PICK f : RunsThrough(f, n, X, a, G)
  <2> HIDE DEF G, a, n, X
  <2> QED BY <1>2, <1>4, Recursion
<1>6. ASSUME NEW i \in 1 .. n PROVE f[i] = Next_(i, f[i - 1])
  <2>1. f[i - 1] \in X /\ f[i] = G[i][f[i - 1]]
    <3> HIDE DEF G, a, n, X
    <3> QED BY <1>2, <1>5 DEF RunsThrough
  <2> HIDE DEF Next_, X
  <2> QED BY <2>1
<1>7. f = [i \in 0 .. n |-> IF i = 0 THEN a ELSE IF u.rows[i] # Malformed THEN f[i - 1]
             ELSE Stage(f[i - 1], u.tenant, i, RowOf(u, i, "NORMALIZATION_FAILED"), NoEvent)]
  BY <1>5, <1>6 DEF RunsThrough
<1>8. staged = [i \in 0 .. n |-> IF i = 0 THEN a ELSE IF u.rows[i] # Malformed THEN staged[i - 1]
             ELSE Stage(staged[i - 1], u.tenant, i, RowOf(u, i, "NORMALIZATION_FAILED"), NoEvent)]
  BY <1>7
<1> HIDE DEF staged
<1>9. staged[0] = a /\ \A i \in 1 .. n : staged[i] = Next_(i, staged[i - 1])
  <2> HIDE DEF a, n, u, X, G
  <2>1. 0 \in 0 .. n /\ \A i \in 1 .. n : i \in 0 .. n /\ i # 0
    BY <1>2
  <2> QED BY <1>8, <2>1, Zenon
<1>10. \A i \in 0 .. n : staged[i] \in X
  <2> DEFINE T == {i \in 0 .. n : staged[i] \in X}
  <2>1. 0 \in T
    BY <1>2, <1>9
  <2>2. ASSUME NEW i \in 1 .. n, i - 1 \in T PROVE i \in T
    <3>1. staged[i - 1] \in X /\ staged[i] = Next_(i, staged[i - 1])
      BY <1>9, <2>2
    <3> HIDE DEF Next_, X
    <3> QED BY <1>2, <1>3, <3>1
  <2> HIDE DEF T
  <2>3. \A i \in 0 .. n : i \in T
    BY <1>2, <2>1, <2>2, BoundedInduction
  <2> QED BY <2>3 DEF T
<1>11. staged \in [0 .. n -> X]
  BY <1>8, <1>10
<1>12. FirstPass(staged, L, r)
  BY <1>9, <1>11 DEF FirstPass
<1> QED BY <1>1, <1>12

(* After the first pass every malformed row is planned.                    *)
LEMMA ImmediatePlans ==
  ASSUME NEW L, Sound(L), NEW r, Readable(r)
  PROVE  /\ Immediate(L, r) \in PlanStates(r)
         /\ Immediate(L, r).code = "OK" =>
              /\ Immediate(L, r).pending = Candidates(r.upload)
              /\ \A m \in DOMAIN r.upload.rows :
                    m \in Candidates(r.upload) \/ Covers(Immediate(L, r).items, m)
<1> DEFINE u == r.upload
           n == Len(u.rows)
           X == PlanStates(r)
<1>1. PICK f : FirstPass(f, L, r) /\ Immediate(L, r) = f[n]
  BY ImmediateSteps
<1>2. n \in Nat /\ DOMAIN u.rows = 1 .. n
  BY ReadableFacts
<1>3. f \in [0 .. n -> X]
  BY <1>1 DEF FirstPass
<1> DEFINE T == {i \in 0 .. n :
                   f[i].code = "OK" =>
                     /\ f[i].pending = Candidates(u)
                     /\ \A m \in 1 .. i : m \in Candidates(u) \/ Covers(f[i].items, m)}
<1>4. 0 \in T
  BY <1>1, <1>2 DEF FirstPass
<1>5. ASSUME NEW i \in 1 .. n, i - 1 \in T PROVE i \in T
  <2> DEFINE st == f[i - 1]
             next == f[i]
  <2>1. /\ st \in X
        /\ st.code = "OK" =>
             /\ st.pending = Candidates(u)
             /\ \A m \in 1 .. (i - 1) : m \in Candidates(u) \/ Covers(st.items, m)
    BY <1>3, <1>5
  <2>2. 1 .. i = (1 .. (i - 1)) \cup {i} /\ i \in DOMAIN u.rows
    BY <1>2
  <2>3. CASE u.rows[i] # Malformed
    <3>1. next = st
      BY <1>1, <2>3 DEF FirstPass
    <3>2. i \in Candidates(u)
      BY <2>2, <2>3 DEF Candidates
    <3> HIDE DEF X, st, next
    <3>3. next.code = "OK" => /\ next.pending = Candidates(u)
                              /\ \A m \in 1 .. i : m \in Candidates(u) \/ Covers(next.items, m)
      BY <2>1, <2>2, <3>1, <3>2
    <3> QED BY <3>3 DEF next
  <2>4. CASE u.rows[i] = Malformed
    <3>1. next = Stage(st, u.tenant, i, RowOf(u, i, "NORMALIZATION_FAILED"), NoEvent)
      BY <1>1, <2>4 DEF FirstPass
    <3>2. "NORMALIZATION_FAILED" \in Diagnostics
      BY DiagnosticsAssumption
    <3>3. StagedInto(r, st, i, Stage(st, u.tenant, i, RowOf(u, i, "NORMALIZATION_FAILED"), NoEvent))
      <4> HIDE DEF st
      <4> QED BY <2>1, <2>2, <3>2, StagePlans
    <3>4. i \notin Candidates(u)
      BY <2>4 DEF Candidates
    <3> HIDE DEF X, st, next
    <3>5. next.code = "OK" => /\ next.pending = Candidates(u)
                              /\ \A m \in 1 .. i : m \in Candidates(u) \/ Covers(next.items, m)
      BY <2>1, <2>2, <3>1, <3>3, <3>4 DEF StagedInto, Planned
    <3> QED BY <3>5 DEF next
  <2> QED BY <2>3, <2>4
<1> HIDE DEF T
<1>6. \A i \in 0 .. n : i \in T
  BY <1>2, <1>4, <1>5, BoundedInduction
<1> QED BY <1>1, <1>2, <1>3, <1>6 DEF T

LEMMA PlanOnSteps ==
  ASSUME NEW L, Sound(L), NEW r, Readable(r)
  PROVE  \E f : Rounds(f, L, r) /\ PlanOn(L, r) = f[Cardinality(Candidates(r.upload))]
<1> DEFINE n == Cardinality(Candidates(r.upload))
           X == PlanStates(r)
           a == Immediate(L, r)
           resolved[i \in 0 .. Cardinality(Candidates(r.upload))] ==
             IF i = 0 THEN Immediate(L, r) ELSE Round(r, resolved[i - 1])
           G == [i \in 1 .. n |-> [st \in X |-> Round(r, st)]]
<1>1. PlanOn(L, r) = resolved[n]
  BY DEF PlanOn
<1>2. n \in Nat /\ a \in X
  BY CandidatesFinite, ImmediatePlans
<1>3. G \in Steps(n, X)
  <2>1. \A st \in X : Round(r, st) \in X
    BY RoundPlans
  <2> HIDE DEF X
  <2> QED BY <2>1 DEF Steps
<1>4. PICK f : RunsThrough(f, n, X, a, G)
  <2> HIDE DEF G, a, n, X
  <2> QED BY <1>2, <1>3, Recursion
<1>5. ASSUME NEW i \in 1 .. n PROVE f[i] = Round(r, f[i - 1])
  <2>1. f[i - 1] \in X /\ f[i] = G[i][f[i - 1]]
    <3> HIDE DEF G, a, n, X
    <3> QED BY <1>2, <1>4 DEF RunsThrough
  <2> HIDE DEF X
  <2> QED BY <2>1
<1>6. f = [i \in 0 .. n |-> IF i = 0 THEN a ELSE Round(r, f[i - 1])]
  <2>1. f \in [0 .. n -> X] /\ f[0] = a
    BY <1>4 DEF RunsThrough
  <2> HIDE DEF a, X, n
  <2> QED BY <1>2, <1>5, <2>1
<1>7. resolved = [i \in 0 .. n |-> IF i = 0 THEN a ELSE Round(r, resolved[i - 1])]
  BY <1>6
<1> HIDE DEF resolved
<1>8. resolved[0] = a /\ \A i \in 1 .. n : resolved[i] = Round(r, resolved[i - 1])
  <2> HIDE DEF a, n
  <2> QED BY <1>2, <1>7
<1>9. \A i \in 0 .. n : resolved[i] \in X
  <2> DEFINE T == {i \in 0 .. n : resolved[i] \in X}
  <2>1. 0 \in T
    BY <1>2, <1>8
  <2>2. ASSUME NEW i \in 1 .. n, i - 1 \in T PROVE i \in T
    BY <1>8, <2>2, RoundPlans
  <2> HIDE DEF T, n
  <2>3. \A i \in 0 .. n : i \in T
    BY <1>2, <2>1, <2>2, BoundedInduction
  <2> QED BY <2>3 DEF T
<1>10. resolved \in [0 .. n -> X]
  BY <1>7, <1>9
<1>11. Rounds(resolved, L, r)
  BY <1>8, <1>10 DEF Rounds
<1> QED BY <1>1, <1>11

(* A plan that is made covers every line of the file: each round takes one *)
(* candidate, so none is left after as many rounds as there are.           *)
LEMMA PlanOnPlans ==
  ASSUME NEW L, Sound(L), NEW r, Readable(r)
  PROVE  /\ PlanOn(L, r) \in PlanStates(r)
         /\ PlanOn(L, r).code = "OK" =>
              \A m \in DOMAIN r.upload.rows : Covers(PlanOn(L, r).items, m)
<1> DEFINE n == Cardinality(Candidates(r.upload))
           X == PlanStates(r)
<1>1. PICK resolved : Rounds(resolved, L, r) /\ PlanOn(L, r) = resolved[n]
  BY PlanOnSteps
<1>2. n \in Nat /\ resolved \in [0 .. n -> X]
  BY <1>1, CandidatesFinite DEF Rounds
<1>3. resolved[0] = Immediate(L, r) /\ \A i \in 1 .. n : resolved[i] = Round(r, resolved[i - 1])
  BY <1>1 DEF Rounds
<1> DEFINE Rest(i, st) ==
             st.code = "OK" =>
               /\ Cardinality(st.pending) = n - i
               /\ \A m \in DOMAIN r.upload.rows : m \in st.pending \/ Covers(st.items, m)
           T == {i \in 0 .. n : resolved[i] \in X /\ Rest(i, resolved[i])}
<1>4. 0 \in T
  BY <1>2, <1>3, ImmediatePlans
<1>5. ASSUME NEW i \in 1 .. n, i - 1 \in T PROVE i \in T
  <2> DEFINE st == resolved[i - 1]
             next == resolved[i]
  <2>1. st \in X /\ Rest(i - 1, st) /\ next = Round(r, st)
    BY <1>3, <1>5
  <2>2. next \in X
    BY <2>1, RoundPlans
  <2>3. ASSUME next.code = "OK" PROVE Rest(i, next)
    <3>1. PICK k \in st.pending : Planned(st, next, {k})
      <4>1. st \in PlanStates(r) /\ next = Round(r, st)
        BY <2>1
      <4> HIDE DEF st, next
      <4> QED BY <2>3, <4>1, RoundPlans
    <3>2. next.pending = st.pending \ {k} /\ st.code = "OK"
      BY <3>1 DEF Planned
    <3>3. IsFiniteSet(st.pending)
      BY <2>1, CandidatesFinite, FS_Subset DEF PlanStates
    <3>4. Cardinality(next.pending) = Cardinality(st.pending) - 1
      <4> HIDE DEF st, next
      <4> QED BY <3>2, <3>3, FS_RemoveElement
    <3>5. Cardinality(st.pending) = n - (i - 1)
      BY <2>1, <3>2
    <3>6. Cardinality(next.pending) = n - i
      <4> HIDE DEF st, next, n
      <4> QED BY <1>2, <3>4, <3>5
    <3>7. ASSUME NEW m \in DOMAIN r.upload.rows
          PROVE  m \in next.pending \/ Covers(next.items, m)
      <4>1. m \in st.pending \/ Covers(st.items, m)
        BY <2>1, <3>2
      <4> HIDE DEF st, next
      <4> QED BY <3>1, <3>2, <4>1 DEF Planned
    <3> QED BY <3>6, <3>7
  <2> QED BY <2>2, <2>3
<1> HIDE DEF T
<1>6. \A i \in 0 .. n : i \in T
  <2> HIDE DEF n
  <2> QED BY <1>2, <1>4, <1>5, BoundedInduction
<1>7. n \in T
  <2> HIDE DEF n
  <2> QED BY <1>2, <1>6
<1>8. resolved[n] \in X /\ Rest(n, resolved[n])
  BY <1>7 DEF T
<1>9. ASSUME resolved[n].code = "OK", NEW m \in DOMAIN r.upload.rows
       PROVE  Covers(resolved[n].items, m)
  <2>1. IsFiniteSet(resolved[n].pending)
    BY <1>8, CandidatesFinite, FS_Subset DEF PlanStates
  <2>2. Cardinality(resolved[n].pending) = 0
    <3>1. Cardinality(resolved[n].pending) = n - n
      BY <1>8, <1>9
    <3> HIDE DEF n
    <3> QED BY <1>2, <3>1
  <2>3. resolved[n].pending = {}
    BY <2>1, <2>2, FS_EmptySet
  <2> QED BY <1>8, <1>9, <2>3
<1> QED BY <1>1, <1>8, <1>9

-----------------------------------------------------------------------------
(* The inductive invariant.  What is in the ledger was made from lines of  *)
(* uploaded files, files are there as a whole, and a plan waiting for its  *)
(* publication covers every line of its file.                              *)
RowsFromFiles(L) ==
  \A x \in Rows(L) : \E r \in Requests : \E n \in DOMAIN r.upload.rows :
     \E d \in Diagnostics \cup {NoDiagnostics} : x = RowOf(r.upload, n, d)

EventsFromFiles(L) ==
  \A e \in Events(L) : \E r \in Requests : \E n \in DOMAIN r.upload.rows :
     r.upload.rows[n] # Malformed /\ e = EventOf(r, n)

LocatorsFromFiles(L) ==
  \A k \in DOMAIN L.locator : \E r \in Requests : \E n \in DOMAIN r.upload.rows :
     k = <<r.upload.tenant, r.upload.id, n + 1>> /\ L.locator[k] = SourceRecordId(r.upload, n)

HasLine(L, u, n) ==
  \E x \in Rows(L) : x.tenant = u.tenant /\ x.content = u.bytes /\ x.line = n + 1
WholeIn(L) ==
  \A r \in Requests :
     (\E x \in Rows(L) : x.tenant = r.upload.tenant /\ x.content = r.upload.bytes)
       => \A n \in DOMAIN r.upload.rows : HasLine(L, r.upload, n)

PlanMade(w) ==
  /\ w.request \in Requests
  /\ w.items \in Seq(ItemsOf(w.request))
  /\ \A n \in DOMAIN w.request.upload.rows : Covers(w.items, n)

Filed(L) ==
  /\ Sound(L) /\ RowsFromFiles(L) /\ EventsFromFiles(L) /\ LocatorsFromFiles(L)
  /\ EventForValid(L) /\ WholeIn(L)

IngestInv ==
  /\ Filed(ledger)
  /\ DOMAIN plan = Ingestors
  /\ \A p \in Ingestors : plan[p] # NoPlan => PlanMade(plan[p])
  /\ last # NoResult => last.request \in Requests
  /\ reported \in [rows : Nat, events : Nat]
  /\ ReportedOnce

LEMMA RowOfFields ==
  \A u, n, d : /\ RowOf(u, n, d).tenant = u.tenant /\ RowOf(u, n, d).content = u.bytes
               /\ RowOf(u, n, d).line = n + 1
               /\ RowOf(u, n, d).id = <<u.tenant, u.bytes, n + 1>>
BY DEF RowOf, SourceRecordId

LEMMA EmptyFiled == Filed(EmptyLedger)
<1>0. LocatorsFromFiles(EmptyLedger)
  BY DEF LocatorsFromFiles, EmptyLedger
<1>1. Rows(EmptyLedger) = {} /\ Events(EmptyLedger) = {}
  BY DEF Rows, Events, EmptyLedger
<1> QED BY <1>0, <1>1, EmptyLedgerSound
        DEF Filed, RowsFromFiles, EventsFromFiles, EventForValid, WholeIn

(* append_batch of a plan stores locators of the plan's file only.         *)
LEMMA AppendLocators ==
  ASSUME NEW L, Sound(L), LocatorsFromFiles(L), NEW r \in Requests,
         NEW items \in Seq(ItemsOf(r)), NEW t
  PROVE  LocatorsFromFiles(AppendBatch(L, t, items).ledger)
<1> DEFINE n == Len(items)
<1>1. items \in Seq(Item) /\ n \in Nat /\ \A i \in 1 .. n : FromRequest(r, items[i])
  BY DEF ItemsOf
<1>2. PICK f : Applies(f, L, t, items) /\ AppendBatch(L, t, items) = f[n]
  BY <1>1, AppendBatchSteps
<1> DEFINE T == {i \in 0 .. n : LocatorsFromFiles(f[i].ledger)}
<1>3. 0 \in T
  BY <1>1, <1>2 DEF Applies
<1>4. ASSUME NEW i \in 1 .. n, i - 1 \in T PROVE i \in T
  <2> DEFINE K == f[i - 1].ledger
             o == items[i]
             M == Insert(K, o.row, o.event)
  <2>1. LocatorsFromFiles(K) /\ f[i] = ApplyItem(L, t, f[i - 1], o)
    BY <1>2, <1>4 DEF Applies
  <2>2. f[i].ledger \in {K, L, M}
    BY <2>1 DEF ApplyItem
  <2>3. M.locator = Put(K.locator, LocatorKey(o.row), o.row.id)
    BY DEF Insert
  <2>4. PICK m \in DOMAIN r.upload.rows :
          /\ LocatorKey(o.row) = <<r.upload.tenant, r.upload.id, m + 1>>
          /\ o.row.id = SourceRecordId(r.upload, m)
    <3>1. FromRequest(r, o)
      BY <1>1
    <3> HIDE DEF o
    <3>2. PICK m \in DOMAIN r.upload.rows, d \in Diagnostics \cup {NoDiagnostics} :
            o.row = RowOf(r.upload, m, d)
      BY <3>1 DEF FromRequest
    <3> QED BY <3>2 DEF RowOf, LocatorKey
  <2> HIDE DEF K, o, M
  <2>5. LocatorsFromFiles(M)
    BY <2>1, <2>3, <2>4 DEF LocatorsFromFiles, Put
  <2> QED BY <2>1, <2>2, <2>5
<1> HIDE DEF T, n
<1>5. \A i \in 0 .. n : i \in T
  BY <1>1, <1>3, <1>4, BoundedInduction
<1> QED BY <1>1, <1>2, <1>5 DEF T

(* append_batch of a plan keeps files whole.                               *)
LEMMA AppendFiled ==
  ASSUME NEW L, Filed(L), NEW w, PlanMade(w), NEW t
  PROVE  Filed(AppendBatch(L, t, w.items).ledger)
<1> DEFINE r == w.request
           items == w.items
           done == AppendBatch(L, t, items)
           M == done.ledger
<1>1. /\ r \in Requests /\ items \in Seq(ItemsOf(r))
      /\ \A n \in DOMAIN r.upload.rows : Covers(items, n)
  BY DEF PlanMade
<1>2. /\ \A i \in DOMAIN items : items[i] \in ItemsOf(r)
      /\ items \in Seq(Item) /\ DOMAIN items = 1 .. Len(items)
  <2>1. ItemsOf(r) \subseteq Item
    BY DEF ItemsOf
  <2> HIDE DEF items, r
  <2> QED BY <1>1, <2>1
<1>3. done \in Accs /\ AfterItems(L, items, Len(items), done)
  BY <1>2, AppendBatchResult DEF Filed
<1>4. Sound(M)
  BY <1>3 DEF Accs, Ledgers
<1>5. CASE done.code # "OK"
  <2>1. M = L
    BY <1>3, <1>5 DEF AfterItems
  <2> QED BY <2>1
<1>6. CASE done.code = "OK"
  <2>1. /\ Rows(M) \subseteq Rows(L) \cup {items[j].row : j \in DOMAIN items}
        /\ Events(M) \subseteq Events(L) \cup {e \in {items[j].event : j \in DOMAIN items} : e # NoEvent}
        /\ Rows(L) \subseteq Rows(M)
        /\ \A j \in DOMAIN items : \E x \in Rows(M) : Fingerprint(x) = Fingerprint(items[j].row)
        /\ EventForValid(M)
    BY <1>2, <1>3, <1>6 DEF AfterItems, Filed
  <2>2. \A i \in DOMAIN items : FromRequest(r, items[i])
    BY <1>2 DEF ItemsOf
  <2> HIDE DEF M, done, items, r
  <2>3. RowsFromFiles(M)
    <3> SUFFICES ASSUME NEW x \in Rows(M)
                 PROVE  \E q \in Requests : \E n \in DOMAIN q.upload.rows :
                          \E d \in Diagnostics \cup {NoDiagnostics} : x = RowOf(q.upload, n, d)
      BY DEF RowsFromFiles
    <3>1. CASE x \in Rows(L)
      BY <3>1 DEF Filed, RowsFromFiles
    <3>2. CASE x \notin Rows(L)
      <4>1. PICK j \in DOMAIN items : x = items[j].row
        BY <2>1, <3>2
      <4>2. FromRequest(r, items[j])
        BY <2>2
      <4> QED BY <1>1, <4>1, <4>2 DEF FromRequest
    <3> QED BY <3>1, <3>2
  <2>4. EventsFromFiles(M)
    <3> SUFFICES ASSUME NEW e \in Events(M)
                 PROVE  \E q \in Requests : \E n \in DOMAIN q.upload.rows :
                          q.upload.rows[n] # Malformed /\ e = EventOf(q, n)
      BY DEF EventsFromFiles
    <3>1. CASE e \in Events(L)
      BY <3>1 DEF Filed, EventsFromFiles
    <3>2. CASE e \notin Events(L)
      <4>1. PICK j \in DOMAIN items : e = items[j].event /\ e # NoEvent
        BY <2>1, <3>2
      <4>2. FromRequest(r, items[j])
        BY <2>2
      <4> QED BY <1>1, <4>1, <4>2 DEF FromRequest
    <3> QED BY <3>1, <3>2
  <2>5. WholeIn(M)
    <3> SUFFICES ASSUME NEW q \in Requests, NEW x \in Rows(M),
                        x.tenant = q.upload.tenant, x.content = q.upload.bytes,
                        NEW n \in DOMAIN q.upload.rows
                 PROVE  HasLine(M, q.upload, n)
      BY DEF WholeIn
    <3>1. CASE x \in Rows(L)
      BY <2>1, <3>1 DEF Filed, WholeIn, HasLine
    <3>2. CASE x \notin Rows(L)
      <4>1. PICK j \in DOMAIN items : x = items[j].row
        BY <2>1, <3>2
      <4>2. x.tenant = r.upload.tenant /\ x.content = r.upload.bytes
        BY <2>2, <4>1, RowOfFields DEF FromRequest
      <4>3. r.upload.rows = q.upload.rows
        BY <1>1, <4>2, SameBytesSameRows
      <4>4. PICK i \in DOMAIN items : items[i].row.line = n + 1
        BY <1>1, <4>3 DEF Covers
      <4>5. PICK y \in Rows(M) : Fingerprint(y) = Fingerprint(items[i].row)
        BY <2>1
      <4>6. /\ items[i].row.tenant = r.upload.tenant
            /\ items[i].row.content = r.upload.bytes
        BY <2>2, RowOfFields DEF FromRequest
      <4>7. /\ y.tenant = items[i].row.tenant /\ y.content = items[i].row.content
            /\ y.line = items[i].row.line
        BY <4>5, SameFingerprint
      <4> QED BY <4>2, <4>4, <4>6, <4>7 DEF HasLine
    <3> QED BY <3>1, <3>2
  <2>6. LocatorsFromFiles(M)
    BY <1>1, AppendLocators DEF Filed, M, done, items, r
  <2> QED BY <1>4, <2>1, <2>3, <2>4, <2>5, <2>6 DEF Filed, M, done, items
<1> QED BY <1>5, <1>6

LEMMA InitIngestInv == Init => IngestInv
<1> SUFFICES ASSUME Init PROVE IngestInv
  OBVIOUS
<1>1. Filed(ledger)
  BY EmptyFiled DEF Init
<1>2. ReportedOnce
  <2>1. Rows(ledger) = {} /\ Events(ledger) = {}
    BY DEF Init, Rows, Events, EmptyLedger
  <2> QED BY <2>1, FS_EmptySet DEF Init, ReportedOnce
<1> QED BY <1>1, <1>2 DEF Init, IngestInv

LEMMA NextIngestInv == IngestInv /\ [Next]_vars => IngestInv'
<1> SUFFICES ASSUME IngestInv, [Next]_vars PROVE IngestInv'
  OBVIOUS
<1>1. ASSUME NEW p \in Ingestors, NEW r \in Requests, Plan(p, r) PROVE IngestInv'
  <2>1. /\ PlanOn(ledger, r).code = "OK"
        /\ plan' = [plan EXCEPT ![p] = [request |-> r, items |-> PlanOn(ledger, r).items]]
        /\ UNCHANGED <<ledger, last, reported>>
    BY <1>1 DEF Plan
  <2>2. PlanMade([request |-> r, items |-> PlanOn(ledger, r).items])
    <3>1. /\ PlanOn(ledger, r) \in PlanStates(r)
          /\ \A m \in DOMAIN r.upload.rows : Covers(PlanOn(ledger, r).items, m)
      BY <2>1, PlanOnPlans, RequestsAssumption DEF IngestInv, Filed
    <3> QED BY <3>1 DEF PlanMade, PlanStates
  <2>3. DOMAIN plan' = Ingestors /\ \A q \in Ingestors : plan'[q] # NoPlan => PlanMade(plan'[q])
    BY <2>1, <2>2 DEF IngestInv
  <2> QED BY <2>1, <2>3 DEF IngestInv, ReportedOnce
<1>2. ASSUME NEW p \in Ingestors, NEW r \in Requests, PlanRaises(p, r) PROVE IngestInv'
  <2>1. last'.request \in Requests /\ UNCHANGED <<ledger, plan, reported>>
    BY <1>2 DEF PlanRaises, Result
  <2> QED BY <2>1 DEF IngestInv, ReportedOnce
<1>3. ASSUME NEW p \in Ingestors, Publish(p) PROVE IngestInv'
  <2> DEFINE w == plan[p]
             t == w.request.upload.tenant
             done == AppendBatch(ledger, t, w.items)
  <2>1. /\ w # NoPlan /\ ledger' = done.ledger
        /\ plan' = [plan EXCEPT ![p] = NoPlan]
        /\ last' = Result(w.request, done.code, done.rows, done.events)
        /\ reported' = [rows |-> reported.rows + done.rows,
                        events |-> reported.events + done.events]
    BY <1>3 DEF Publish
  <2>2. PlanMade(w) /\ Filed(ledger) /\ Sound(ledger)
    BY <2>1 DEF IngestInv, Filed
  <2>3. w.items \in Seq(Item) /\ w.request \in Requests
    <3>1. ItemsOf(w.request) \subseteq Item
      BY DEF ItemsOf
    <3> HIDE DEF w
    <3> QED BY <2>2, <3>1 DEF PlanMade
  <2>4. Filed(ledger')
    <3> HIDE DEF w, t
    <3> QED BY <2>1, <2>2, AppendFiled
  <2>5. done \in Accs /\ AfterItems(ledger, w.items, Len(w.items), done)
    BY <2>2, <2>3, AppendBatchResult
  <2>6. ReportedOnce' /\ reported' \in [rows : Nat, events : Nat]
    <3>1. /\ Cardinality(Rows(done.ledger)) = Cardinality(Rows(ledger)) + done.rows
          /\ Cardinality(Events(done.ledger)) = Cardinality(Events(ledger)) + done.events
          /\ done.rows \in Nat /\ done.events \in Nat
      BY <2>5 DEF AfterItems, Accs
    <3> QED BY <2>1, <3>1 DEF IngestInv, ReportedOnce
  <2>7. DOMAIN plan' = Ingestors /\ \A q \in Ingestors : plan'[q] # NoPlan => PlanMade(plan'[q])
    BY <2>1 DEF IngestInv
  <2>8. last'.request \in Requests
    BY <2>1, <2>3 DEF Result
  <2> QED BY <2>4, <2>6, <2>7, <2>8 DEF IngestInv
<1>4. CASE UNCHANGED vars
  BY <1>4 DEF vars, IngestInv, ReportedOnce
<1> QED BY <1>1, <1>2, <1>3, <1>4 DEF Next

LEMMA IngestInvariant == Spec => []IngestInv
BY InitIngestInv, NextIngestInv, PTL DEF Spec

-----------------------------------------------------------------------------
(* A row of a sound ledger is stored under its own key.                    *)
LEMMA RowUnderKey ==
  ASSUME NEW L, Sound(L), NEW x \in Rows(L)
  PROVE  SourceKey(x) \in DOMAIN L.source /\ L.source[SourceKey(x)] = x
BY DEF Sound, TraceableIn, Rows

LEMMA EventUnderKey ==
  ASSUME NEW L, Sound(L), NEW e \in Events(L)
  PROVE  EventKey(e) \in DOMAIN L.event /\ L.event[EventKey(e)] = e
BY DEF Sound, IndexesAgreeIn, Events

LEMMA InvTypeOK == IngestInv => TypeOK
<1> SUFFICES ASSUME IngestInv PROVE TypeOK
  OBVIOUS
<1>1. Rows(ledger) \subseteq SourceRow /\ Events(ledger) \subseteq CanonicalEvent
  BY DEF IngestInv, Filed, Sound, LedgerType, IsDict, Rows, Events
<1>2. ASSUME NEW p \in Ingestors, plan[p] # NoPlan
      PROVE  /\ plan[p].request \in Requests
             /\ \A i \in DOMAIN plan[p].items :
                   /\ plan[p].items[i].row \in SourceRow
                   /\ plan[p].items[i].event \in CanonicalEvent \cup {NoEvent}
  <2> DEFINE w == plan[p]
  <2>1. PlanMade(w)
    BY <1>2 DEF IngestInv
  <2> HIDE DEF w
  <2>2. \A i \in DOMAIN w.items : w.items[i] \in ItemsOf(w.request)
    BY <2>1 DEF PlanMade
  <2>3. w.request \in Requests
    BY <2>1 DEF PlanMade
  <2> QED BY <2>2, <2>3 DEF ItemsOf, Item, w
<1> QED BY <1>1, <1>2 DEF IngestInv, TypeOK

LEMMA InvWhole == IngestInv => WholeFileOrNothing
<1> SUFFICES ASSUME IngestInv, NEW r \in Requests, RowsOf(r.upload) # {}
             PROVE  {x.line : x \in RowsOf(r.upload)} = {n + 1 : n \in DOMAIN r.upload.rows}
  BY DEF WholeFileOrNothing
<1> DEFINE u == r.upload
<1>1. RowsFromFiles(ledger) /\ WholeIn(ledger)
  BY DEF IngestInv, Filed
<1>2. ASSUME NEW x \in RowsOf(u) PROVE \E n \in DOMAIN u.rows : x.line = n + 1
  <2>1. x \in Rows(ledger) /\ x.content = u.bytes
    BY DEF RowsOf
  <2>2. PICK q \in Requests : \E n \in DOMAIN q.upload.rows :
                                x.content = q.upload.bytes /\ x.line = n + 1
    BY <1>1, <2>1, RowOfFields DEF RowsFromFiles
  <2>3. q.upload.rows = u.rows
    BY <2>1, <2>2, SameBytesSameRows
  <2> QED BY <2>2, <2>3
<1>3. ASSUME NEW n \in DOMAIN u.rows PROVE \E x \in RowsOf(u) : x.line = n + 1
  BY <1>1 DEF RowsOf, WholeIn, HasLine
<1> HIDE DEF u
<1>4. {x.line : x \in RowsOf(u)} = {n + 1 : n \in DOMAIN u.rows}
  BY <1>2, <1>3
<1> QED BY <1>4 DEF u

LEMMA InvOneRow == IngestInv => OneRowPerLine
<1> SUFFICES ASSUME IngestInv, NEW x \in Rows(ledger), NEW y \in Rows(ledger),
                    x.tenant = y.tenant, x.content = y.content, x.line = y.line
             PROVE  x = y
  BY DEF OneRowPerLine
<1>1. Sound(ledger) /\ RowsFromFiles(ledger)
  BY DEF IngestInv, Filed
<1>2. \A z \in Rows(ledger) : z.id = <<z.tenant, z.content, z.line>>
  BY <1>1, RowOfFields DEF RowsFromFiles
<1>3. SourceKey(x) = SourceKey(y)
  BY <1>2 DEF SourceKey
<1> QED BY <1>1, <1>3, RowUnderKey

LEMMA InvOneEvent == IngestInv => OneEventPerValidRow
<1> SUFFICES ASSUME IngestInv, NEW x \in Rows(ledger)
             PROVE  Cardinality({e \in Events(ledger) : e.tenant = x.tenant /\ e.source = x.id})
                      = IF IsValid(x) THEN 1 ELSE 0
  BY DEF OneEventPerValidRow
<1> DEFINE S == {e \in Events(ledger) : e.tenant = x.tenant /\ e.source = x.id}
<1>1. Sound(ledger) /\ EventsFromFiles(ledger) /\ EventForValid(ledger)
  BY DEF IngestInv, Filed
<1>2. CASE ~IsValid(x)
  <2>1. ASSUME NEW e \in S PROVE FALSE
    <3>1. LineageHolds(ledger.source[<<e.tenant, e.source>>], e)
      BY <1>1 DEF Sound, TraceableIn
    <3>2. ledger.source[<<e.tenant, e.source>>] = x
      BY <1>1, RowUnderKey DEF SourceKey
    <3> QED BY <1>2, <3>1, <3>2 DEF LineageHolds
  <2>2. S = {}
    BY <2>1
  <2> HIDE DEF S
  <2>3. Cardinality(S) = 0
    BY <2>2, FS_EmptySet
  <2> QED BY <1>2, <2>3 DEF S
<1>3. CASE IsValid(x)
  <2>1. PICK e \in S : TRUE
    BY <1>1, <1>3 DEF EventForValid
  <2>2. ASSUME NEW f \in S PROVE f = e
    <3>a. PICK q \in Requests : \E m \in DOMAIN q.upload.rows : e = EventOf(q, m)
      BY <1>1 DEF EventsFromFiles
    <3>b. PICK r \in Requests : \E n \in DOMAIN r.upload.rows : f = EventOf(r, n)
      BY <1>1 DEF EventsFromFiles
    <3>1. PICK m \in DOMAIN q.upload.rows : e = EventOf(q, m)
      BY <3>a
    <3>2. PICK n \in DOMAIN r.upload.rows : f = EventOf(r, n)
      BY <3>b
    <3>3. /\ e.id = ReportEventId(q.upload.rows[m]) /\ e.source = <<q.upload.tenant, q.upload.bytes, m + 1>>
          /\ f.id = ReportEventId(r.upload.rows[n]) /\ f.source = <<r.upload.tenant, r.upload.bytes, n + 1>>
      BY <3>1, <3>2 DEF EventOf, SourceRecordId
    <3>4. q.upload.bytes = r.upload.bytes /\ m + 1 = n + 1
      BY <3>3
    <3>5. m \in Nat /\ n \in Nat
      BY RequestsAssumption, ReadableFacts
    <3>6. m = n /\ q.upload.rows = r.upload.rows
      BY <3>4, <3>5, SameBytesSameRows
    <3>7. EventKey(e) = EventKey(f)
      BY <3>3, <3>6 DEF EventKey
    <3> QED BY <1>1, <3>7, EventUnderKey
  <2>3. S = {e}
    BY <2>1, <2>2
  <2> HIDE DEF S
  <2>4. Cardinality(S) = 1
    BY <2>3, FS_Singleton
  <2> QED BY <1>3, <2>4 DEF S
<1> QED BY <1>2, <1>3

(* Whatever several ingestors read, plan and publish, ledger, plans and    *)
(* results stay of their types: append_batch never stores anything but     *)
(* source rows and canonical events.                                       *)
THEOREM IngestTypeCorrect == Spec => []TypeOK
BY IngestInvariant, InvTypeOK, PTL

(* append_batch publishes a file as a whole or not at all, for any number  *)
(* of ingestors working from old forks and any files.                      *)
THEOREM FilesStayWhole == Spec => []WholeFileOrNothing
BY IngestInvariant, InvWhole, PTL

(* A line of a file is stored once, however often and by whomever the      *)
(* same bytes are uploaded.                                                *)
THEOREM LinesStoredOnce == Spec => []OneRowPerLine
BY IngestInvariant, InvOneRow, PTL

(* Every VALID row the ingestors publish has exactly one event and no      *)
(* quarantined row has any.                                                *)
THEOREM ValidRowsHaveOneEvent == Spec => []OneEventPerValidRow
BY IngestInvariant, InvOneEvent, PTL

(* The returns of all published files stay within their sales, although    *)
(* each was planned on a fork that may have missed the others.             *)
THEOREM IngestedReturnsWithinSale == Spec => []ReturnsWithinSale
<1>1. IngestInv => ReturnsWithinSale
  BY DEF IngestInv, Filed, Sound, ReturnsWithinSale
<1> QED BY <1>1, IngestInvariant, PTL

(* The counts all ingest results claim add up to what the ledger holds.    *)
THEOREM CountsAddUp == Spec => []ReportedOnce
<1>1. IngestInv => ReportedOnce
  BY DEF IngestInv
<1> QED BY <1>1, IngestInvariant, PTL

-----------------------------------------------------------------------------
(* The order of the rows.  Two requests that differ in the order of their  *)
(* rows are planned side by side: event by event their forks of the ledger *)
(* differ only in the source rows the events name.                         *)
Core(e) ==
  [tenant |-> e.tenant, id |-> e.id, account |-> e.account, key |-> e.key,
   type |-> e.type, revision |-> e.revision, supersedes |-> e.supersedes,
   reversalOf |-> e.reversalOf, typed |-> e.typed, good |-> e.good,
   quantity |-> e.quantity, amount |-> e.amount]

Similar(K, M) ==
  /\ DOMAIN K.event = DOMAIN M.event /\ DOMAIN K.rev = DOMAIN M.rev
  /\ \A k \in DOMAIN K.event : Core(K.event[k]) = Core(M.event[k])

LEMMA CoreFields ==
  ASSUME NEW e, NEW f, Core(e) = Core(f)
  PROVE  /\ e.tenant = f.tenant /\ e.id = f.id /\ e.account = f.account /\ e.key = f.key
         /\ e.type = f.type /\ e.revision = f.revision /\ e.supersedes = f.supersedes
         /\ e.reversalOf = f.reversalOf /\ e.typed = f.typed /\ e.good = f.good
         /\ e.quantity = f.quantity /\ e.amount = f.amount
         /\ EventKey(e) = EventKey(f) /\ RevisionKey(e) = RevisionKey(f)
<1>1. /\ e.tenant = f.tenant /\ e.id = f.id /\ e.account = f.account /\ e.key = f.key
      /\ e.type = f.type /\ e.revision = f.revision /\ e.supersedes = f.supersedes
      /\ e.reversalOf = f.reversalOf /\ e.typed = f.typed /\ e.good = f.good
      /\ e.quantity = f.quantity /\ e.amount = f.amount
  BY DEF Core
<1> QED BY <1>1 DEF EventKey, RevisionKey

(* Sets of as many units each have as many units in all.                   *)
LEMMA UnitsAlike ==
  ASSUME NEW S, IsFiniteSet(S), NEW T, NEW f \in Bijection(S, T),
         NEW a, NEW b, \A x \in S : a[x] \in Nat /\ b[f[x]] = a[x]
  PROVE  Cardinality(Units(S, a)) = Cardinality(Units(T, b))
<1> DEFINE U == Units(S, a)
           V == Units(T, b)
           g == [w \in U |-> <<f[w[1]], w[2]>>]
<1>1. \A w : w \in U <=> \E x \in S : \E i \in 1 .. a[x] : w = <<x, i>>
  BY DEF Units
<1>2. \A w : w \in V <=> \E y \in T : \E i \in 1 .. b[y] : w = <<y, i>>
  BY DEF Units
<1>3. /\ f \in [S -> T] /\ \A y \in T : \E x \in S : f[x] = y
      /\ \A x, y \in S : f[x] = f[y] => x = y
  BY DEF Bijection, Injection, Surjection, IsInjective
<1> HIDE DEF U, V
<1>4. \A w \in U : g[w] \in V
  BY <1>1, <1>2, <1>3
<1>5. \A w, z \in U : g[w] = g[z] => w = z
  BY <1>1, <1>3
<1>6. ASSUME NEW v \in V PROVE \E w \in U : g[w] = v
  <2>0. PICK y \in T : \E i \in 1 .. b[y] : v = <<y, i>>
    BY <1>2
  <2>1. PICK i \in 1 .. b[y] : v = <<y, i>>
    BY <2>0
  <2>2. PICK x \in S : f[x] = y
    BY <1>3
  <2>3. i \in 1 .. a[x]
    BY <2>2
  <2>4. <<x, i>> \in U
    BY <1>1, <2>3
  <2> QED BY <2>1, <2>2, <2>4
<1>7. g \in Bijection(U, V)
  <2>1. g \in [U -> V]
    BY <1>4
  <2> HIDE DEF g
  <2> QED BY <1>5, <1>6, <2>1 DEF Bijection, Injection, Surjection, IsInjective
<1>8. IsFiniteSet(U)
  BY UnitsFinite DEF U
<1>9. ExistsBijection(U, V)
  BY <1>7 DEF ExistsBijection
<1> QED BY <1>8, <1>9, FS_Bijection DEF U, V

LEMMA TotalsAlike ==
  ASSUME NEW S, IsFiniteSet(S), S \subseteq CanonicalEvent, NEW T, NEW f \in Bijection(S, T),
         \A x \in S : Core(x) = Core(f[x])
  PROVE  TotalQuantity(S) = TotalQuantity(T) /\ TotalAmount(S) = TotalAmount(T)
<1> DEFINE q == [x \in S |-> x.quantity]
           a == [x \in S |-> x.amount]
           r == [x \in T |-> x.quantity]
           b == [x \in T |-> x.amount]
<1>1. \A x \in S : f[x] \in T /\ f[x].quantity = x.quantity /\ f[x].amount = x.amount
  BY CoreFields DEF Bijection, Injection
<1>2. \A x \in S : x.quantity \in Nat /\ x.amount \in Nat
  BY DEF CanonicalEvent
<1>3. /\ \A x \in S : q[x] \in Nat /\ r[f[x]] = q[x]
      /\ \A x \in S : a[x] \in Nat /\ b[f[x]] = a[x]
  BY <1>1, <1>2
<1>4. /\ Units(S, q) = UNION {{x} \X (1 .. x.quantity) : x \in S}
      /\ Units(S, a) = UNION {{x} \X (1 .. x.amount) : x \in S}
      /\ Units(T, r) = UNION {{x} \X (1 .. x.quantity) : x \in T}
      /\ Units(T, b) = UNION {{x} \X (1 .. x.amount) : x \in T}
  BY DEF Units
<1> HIDE DEF q, a, r, b
<1>5. /\ Cardinality(Units(S, q)) = Cardinality(Units(T, r))
      /\ Cardinality(Units(S, a)) = Cardinality(Units(T, b))
  BY <1>3, UnitsAlike
<1> QED BY <1>4, <1>5 DEF TotalQuantity, TotalAmount

(* Verdicts on similar ledgers.                                            *)
LEMMA SimilarEvents ==
  ASSUME NEW K, Sound(K), NEW M, Similar(K, M)
  PROVE  /\ \A k \in DOMAIN K.event : /\ k \in DOMAIN M.event
                                      /\ Core(K.event[k]) = Core(M.event[k])
                                      /\ EventKey(K.event[k]) = k /\ EventKey(M.event[k]) = k
         /\ DOMAIN K.event = DOMAIN M.event /\ DOMAIN K.rev = DOMAIN M.rev
BY CoreFields DEF Similar, Sound, IndexesAgreeIn

LEMMA RevisionAlike ==
  ASSUME NEW K, Sound(K), NEW M, Similar(K, M), NEW e, NEW f, Core(e) = Core(f),
         RevisionKey(e) \notin DOMAIN K.rev
  PROVE  RevisionVerdict(K, e) = RevisionVerdict(M, f)
<1>1. /\ e.tenant = f.tenant /\ e.account = f.account /\ e.key = f.key /\ e.type = f.type
      /\ e.revision = f.revision /\ e.supersedes = f.supersedes
      /\ RevisionKey(e) = RevisionKey(f)
  BY CoreFields
<1>2. RevisionKey(f) \notin DOMAIN M.rev
  BY <1>1 DEF Similar
<1>3. \A k \in DOMAIN K.event :
        /\ K.event[k].account = M.event[k].account /\ K.event[k].key = M.event[k].key
        /\ K.event[k].type = M.event[k].type /\ K.event[k].revision = M.event[k].revision
  BY SimilarEvents, CoreFields
<1>4. DOMAIN K.event = DOMAIN M.event
  BY DEF Similar
<1> QED BY <1>1, <1>2, <1>3, <1>4 DEF RevisionVerdict

GoodsOf(S) == {x.good : x \in S}

(* The active returns of one ledger answer those of the other.             *)
LEMMA ActiveAlike ==
  ASSUME NEW K, Sound(K), NEW M, Similar(K, M), NEW e, NEW f, Core(e) = Core(f),
         NEW o, NEW p, Core(o) = Core(p)
  PROVE  /\ TotalQuantity(ActiveReversals(K, o, e)) = TotalQuantity(ActiveReversals(M, p, f))
         /\ TotalAmount(ActiveReversals(K, o, e)) = TotalAmount(ActiveReversals(M, p, f))
         /\ GoodsOf(ActiveReversals(K, o, e)) = GoodsOf(ActiveReversals(M, p, f))
<1> DEFINE S == ActiveReversals(K, o, e)
           T == ActiveReversals(M, p, f)
           g == [x \in S |-> M.event[EventKey(x)]]
           GoneIn(L, d) == {x.supersedes : x \in {y \in Events(L) : y.tenant = d.tenant}}
                             \cup {d.supersedes}
           ActiveAt(L, c, d, x) == /\ x.tenant = d.tenant /\ x.id # d.id
                                   /\ x.id \notin GoneIn(L, d)
                                   /\ x.type = Return /\ x.reversalOf = c.id
<1>1. /\ S = {x \in Events(K) : ActiveAt(K, o, e, x)}
      /\ T = {x \in Events(M) : ActiveAt(M, p, f, x)}
  BY DEF ActiveReversals
<1>2. /\ e.tenant = f.tenant /\ e.id = f.id /\ e.supersedes = f.supersedes /\ o.id = p.id
  BY CoreFields
<1>3. /\ \A k \in DOMAIN K.event : /\ Core(K.event[k]) = Core(M.event[k])
                                   /\ EventKey(K.event[k]) = k /\ EventKey(M.event[k]) = k
                                   /\ K.event[k].tenant = M.event[k].tenant
                                   /\ K.event[k].supersedes = M.event[k].supersedes
                                   /\ K.event[k].id = M.event[k].id
                                   /\ K.event[k].type = M.event[k].type
                                   /\ K.event[k].good = M.event[k].good
                                   /\ K.event[k].reversalOf = M.event[k].reversalOf
      /\ DOMAIN K.event = DOMAIN M.event
  BY SimilarEvents, CoreFields
<1>4. /\ Events(K) = {K.event[k] : k \in DOMAIN K.event}
      /\ Events(M) = {M.event[k] : k \in DOMAIN K.event}
  BY <1>3 DEF Events
<1>5. GoneIn(K, e) = GoneIn(M, f)
  BY <1>2, <1>3, <1>4
<1> HIDE DEF GoneIn
<1>6. \A k \in DOMAIN K.event : ActiveAt(K, o, e, K.event[k]) <=> ActiveAt(M, p, f, M.event[k])
  BY <1>2, <1>3, <1>5
<1> HIDE DEF ActiveAt, S, T
<1>7. /\ \A x \in S : \E k \in DOMAIN K.event : x = K.event[k] /\ EventKey(x) = k /\ M.event[k] \in T
      /\ \A y \in T : \E k \in DOMAIN K.event : y = M.event[k] /\ EventKey(y) = k /\ K.event[k] \in S
  BY <1>1, <1>3, <1>4, <1>6
<1>8. g \in Bijection(S, T)
  <2>1. g \in [S -> T]
    BY <1>7
  <2>2. \A x, y \in S : g[x] = g[y] => x = y
    BY <1>3, <1>7
  <2>3. \A y \in T : \E x \in S : g[x] = y
    BY <1>3, <1>7
  <2> HIDE DEF g
  <2> QED BY <2>1, <2>2, <2>3 DEF Bijection, Injection, Surjection, IsInjective
<1>9. \A x \in S : Core(x) = Core(g[x])
  BY <1>3, <1>7
<1>10. IsFiniteSet(S) /\ S \subseteq CanonicalEvent
  <2>1. S \subseteq Events(K)
    BY <1>1
  <2>2. IsFiniteSet(Events(K)) /\ Events(K) \subseteq CanonicalEvent
    BY DEF Sound, LedgerType, Events, IsDict
  <2> QED BY <2>1, <2>2, FS_Subset
<1> HIDE DEF g
<1>11. TotalQuantity(S) = TotalQuantity(T) /\ TotalAmount(S) = TotalAmount(T)
  BY <1>8, <1>9, <1>10, TotalsAlike
<1>12. GoodsOf(S) = GoodsOf(T)
  BY <1>3, <1>7 DEF GoodsOf
<1> QED BY <1>11, <1>12 DEF S, T

LEMMA ReversalAlike ==
  ASSUME NEW K, Sound(K), NEW M, Similar(K, M), NEW e, NEW f, Core(e) = Core(f)
  PROVE  ReversalVerdict(K, e) = ReversalVerdict(M, f)
<1> DEFINE target == <<e.tenant, e.reversalOf>>
           o == K.event[target]
           p == M.event[target]
           S == ActiveReversals(K, o, e)
           T == ActiveReversals(M, p, f)
<1>1. /\ e.tenant = f.tenant /\ e.account = f.account /\ e.type = f.type
      /\ e.reversalOf = f.reversalOf /\ e.typed = f.typed /\ e.good = f.good
      /\ e.quantity = f.quantity /\ e.amount = f.amount
  BY CoreFields
<1>2. target = <<f.tenant, f.reversalOf>> /\ DOMAIN K.event = DOMAIN M.event
  BY <1>1 DEF Similar
<1>3. CASE e.type = Return /\ e.reversalOf # NoId /\ target \in DOMAIN K.event
  <2>1. Core(o) = Core(p)
    BY <1>3, SimilarEvents
  <2>2. /\ o.account = p.account /\ o.type = p.type /\ o.typed = p.typed /\ o.good = p.good
        /\ o.quantity = p.quantity /\ o.amount = p.amount
    BY <2>1, CoreFields
  <2>3. /\ TotalQuantity(S) = TotalQuantity(T) /\ TotalAmount(S) = TotalAmount(T)
        /\ GoodsOf(S) = GoodsOf(T)
    <3> HIDE DEF o, p
    <3> QED BY <2>1, ActiveAlike
  <2>4. (\E x \in S \cup {e} : x.good # o.good) <=> (\E x \in T \cup {f} : x.good # p.good)
    <3> HIDE DEF S, T, o, p
    <3>1. (\E x \in S : x.good # o.good) <=> (\E y \in GoodsOf(S) : y # o.good)
      BY DEF GoodsOf
    <3>2. (\E x \in T : x.good # p.good) <=> (\E y \in GoodsOf(T) : y # p.good)
      BY DEF GoodsOf
    <3> QED BY <1>1, <2>2, <2>3, <3>1, <3>2
  <2> HIDE DEF S, T
  <2>5. ReversalVerdict(K, e) =
          IF o.account # e.account \/ o.type # Sale THEN "EVENT_REVERSAL_INVALID"
          ELSE IF ~o.typed \/ ~e.typed THEN "EVENT_TYPED_VALUE_INVALID"
          ELSE IF \E x \in S \cup {e} : x.good # o.good THEN "EVENT_REVERSAL_UNIT_MISMATCH"
          ELSE IF \/ TotalQuantity(S) + e.quantity > o.quantity
                  \/ TotalAmount(S) + e.amount > o.amount
            THEN "EVENT_REVERSAL_EXCEEDS_ORIGINAL"
          ELSE "OK"
    BY <1>3 DEF ReversalVerdict, S
  <2>6. ReversalVerdict(M, f) =
          IF p.account # f.account \/ p.type # Sale THEN "EVENT_REVERSAL_INVALID"
          ELSE IF ~p.typed \/ ~f.typed THEN "EVENT_TYPED_VALUE_INVALID"
          ELSE IF \E x \in T \cup {f} : x.good # p.good THEN "EVENT_REVERSAL_UNIT_MISMATCH"
          ELSE IF \/ TotalQuantity(T) + f.quantity > p.quantity
                  \/ TotalAmount(T) + f.amount > p.amount
            THEN "EVENT_REVERSAL_EXCEEDS_ORIGINAL"
          ELSE "OK"
    BY <1>1, <1>2, <1>3 DEF ReversalVerdict, T
  <2> QED BY <1>1, <2>2, <2>3, <2>4, <2>5, <2>6
<1>4. CASE ~(e.type = Return /\ e.reversalOf # NoId /\ target \in DOMAIN K.event)
  BY <1>1, <1>2, <1>4 DEF ReversalVerdict
<1> QED BY <1>3, <1>4

-----------------------------------------------------------------------------
(* Nothing in the ledger was made from line n of the upload.               *)
Fresh(L, u, n) ==
  /\ <<u.tenant, SourceRecordId(u, n)>> \notin DOMAIN L.source
  /\ <<u.tenant, u.id, n + 1>> \notin DOMAIN L.locator
  /\ \A k \in DOMAIN L.event : L.event[k].source # SourceRecordId(u, n)
  /\ \A k \in DOMAIN L.rev : L.rev[k].source # SourceRecordId(u, n)
  /\ \A a, id : <<u.tenant, <<a, id, SourceRecordId(u, n)>>>> \notin DOMAIN L.idem

LEMMA FreshRefusal ==
  ASSUME NEW L, NEW u, NEW n, Fresh(L, u, n), NEW d \in Diagnostics
  PROVE  Verdict(L, u.tenant, RowOf(u, n, d), NoEvent) = "OK"
<1> DEFINE row == RowOf(u, n, d)
<1>1. /\ row.tenant = u.tenant /\ row.diagnostics = d
      /\ SourceKey(row) = <<u.tenant, SourceRecordId(u, n)>>
      /\ LocatorKey(row) = <<u.tenant, u.id, n + 1>>
  BY DEF RowOf, SourceKey, LocatorKey
<1>2. ~IsValid(row)
  BY <1>1, NoDiagnosticsAssumption DEF IsValid
<1> HIDE DEF row
<1>3. SourceKey(row) \notin DOMAIN L.source /\ LocatorKey(row) \notin DOMAIN L.locator
  BY <1>1 DEF Fresh
<1>4. Verdict(L, u.tenant, row, NoEvent) = "OK"
  BY <1>1, <1>2, <1>3 DEF Verdict
<1> QED BY <1>4 DEF row

(* What is left of the checks for an event made from a line that is new.   *)
NewVerdict(L, e) ==
  IF EventKey(e) \in DOMAIN L.event THEN "EVENT_ID_CONFLICT"
  ELSE IF RevisionKey(e) \in DOMAIN L.rev THEN "EVENT_REVISION_CONFLICT"
  ELSE IF RevisionVerdict(L, e) # "OK" THEN RevisionVerdict(L, e)
  ELSE ReversalVerdict(L, e)

LEMMA FreshVerdict ==
  ASSUME NEW L, NEW r, Readable(r), NEW n \in Candidates(r.upload), Fresh(L, r.upload, n)
  PROVE  Verdict(L, r.upload.tenant, RowOf(r.upload, n, NoDiagnostics), EventOf(r, n))
           = NewVerdict(L, EventOf(r, n))
<1> DEFINE u == r.upload
           row == RowOf(u, n, NoDiagnostics)
           e == EventOf(r, n)
<1>1. /\ row.tenant = u.tenant /\ row.diagnostics = NoDiagnostics
      /\ row.id = SourceRecordId(u, n) /\ row.content = u.bytes
      /\ SourceKey(row) = <<u.tenant, SourceRecordId(u, n)>>
      /\ LocatorKey(row) = <<u.tenant, u.id, n + 1>>
  BY DEF RowOf, SourceKey, LocatorKey
<1>2. /\ e.tenant = u.tenant /\ e.sound /\ e.source = SourceRecordId(u, n) /\ e.content = u.bytes
      /\ IdemKey(e) = <<u.tenant, <<r.account, e.id, SourceRecordId(u, n)>>>>
  BY DEF EventOf, IdemKey
<1>3. e # NoEvent
  BY RequestTypes, NoEventAssumption DEF Candidates
<1> HIDE DEF row, e
<1>4. LineageHolds(row, e)
  BY <1>1, <1>2 DEF LineageHolds, IsValid
<1>5. SourceKey(row) \notin DOMAIN L.source /\ LocatorKey(row) \notin DOMAIN L.locator
  BY <1>1 DEF Fresh
<1>6. Verdict(L, u.tenant, row, e) = EventVerdict(L, e)
  BY <1>1, <1>3, <1>4, <1>5 DEF Verdict
<1>7. IdemKey(e) \notin DOMAIN L.idem
  BY <1>2 DEF Fresh
<1>8. EventKey(e) \in DOMAIN L.event => L.event[EventKey(e)] # e
  BY <1>2 DEF Fresh
<1>9. RevisionKey(e) \in DOMAIN L.rev => L.rev[RevisionKey(e)] # e
  BY <1>2 DEF Fresh
<1>10. RevisionKey(e) \in DOMAIN L.rev => RevisionVerdict(L, e) = "EVENT_REVISION_CONFLICT"
  BY <1>9 DEF RevisionVerdict
<1>11. EventVerdict(L, e) = NewVerdict(L, e)
  BY <1>7, <1>8, <1>10 DEF EventVerdict, NewVerdict
<1> QED BY <1>6, <1>11 DEF row, e

LEMMA NewAlike ==
  ASSUME NEW K, Sound(K), NEW M, Similar(K, M), NEW e, NEW f, Core(e) = Core(f)
  PROVE  NewVerdict(K, e) = NewVerdict(M, f)
<1>1. /\ EventKey(e) = EventKey(f) /\ RevisionKey(e) = RevisionKey(f)
      /\ DOMAIN K.event = DOMAIN M.event /\ DOMAIN K.rev = DOMAIN M.rev
  BY CoreFields DEF Similar
<1>2. ReversalVerdict(K, e) = ReversalVerdict(M, f)
  BY ReversalAlike
<1>3. RevisionKey(e) \notin DOMAIN K.rev => RevisionVerdict(K, e) = RevisionVerdict(M, f)
  BY RevisionAlike
<1> QED BY <1>1, <1>2, <1>3 DEF NewVerdict

(* An accepted new row leaves the other lines new.                         *)
LEMMA InsertFresh ==
  ASSUME NEW L, NEW r, Readable(r), NEW n \in DOMAIN r.upload.rows,
         NEW m \in DOMAIN r.upload.rows, m # n, Fresh(L, r.upload, m),
         NEW d, NEW e, e = NoEvent \/ e = EventOf(r, n)
  PROVE  Fresh(Insert(L, RowOf(r.upload, n, d), e), r.upload, m)
<1> DEFINE u == r.upload
           row == RowOf(u, n, d)
           M == Insert(L, row, e)
           id(k) == SourceRecordId(u, k)
<1>1. m \in Nat /\ n \in Nat
  BY ReadableFacts
<1>2. id(m) # id(n) /\ m + 1 # n + 1
  BY <1>1 DEF SourceRecordId
<1>3. SourceKey(row) = <<u.tenant, id(n)>> /\ LocatorKey(row) = <<u.tenant, u.id, n + 1>>
  BY DEF RowOf, SourceKey, LocatorKey
<1>4. e # NoEvent => e.source = id(n) /\ IdemKey(e) = <<u.tenant, <<r.account, e.id, id(n)>>>>
  BY DEF EventOf, IdemKey
<1>5. /\ M.source = PutIfAbsent(L.source, SourceKey(row), row)
      /\ M.locator = Put(L.locator, LocatorKey(row), row.id)
      /\ \/ /\ e # NoEvent
            /\ M.event = Put(L.event, EventKey(e), e)
            /\ M.idem = Put(L.idem, IdemKey(e), e)
            /\ M.rev = Put(L.rev, RevisionKey(e), e)
         \/ M.event = L.event /\ M.idem = L.idem /\ M.rev = L.rev
  BY DEF Insert
<1> HIDE DEF id, row, M
<1>6. /\ <<u.tenant, id(m)>> \notin DOMAIN L.source
      /\ <<u.tenant, u.id, m + 1>> \notin DOMAIN L.locator
      /\ \A k \in DOMAIN L.event : L.event[k].source # id(m)
      /\ \A k \in DOMAIN L.rev : L.rev[k].source # id(m)
      /\ \A a, i : <<u.tenant, <<a, i, id(m)>>>> \notin DOMAIN L.idem
  BY DEF Fresh, id
<1>7. <<u.tenant, id(m)>> \notin DOMAIN M.source
  BY <1>2, <1>3, <1>5, <1>6 DEF PutIfAbsent
<1>8. <<u.tenant, u.id, m + 1>> \notin DOMAIN M.locator
  BY <1>2, <1>3, <1>5, <1>6 DEF Put
<1>9. \A k \in DOMAIN M.event : M.event[k].source # id(m)
  BY <1>2, <1>4, <1>5, <1>6 DEF Put
<1>10. \A k \in DOMAIN M.rev : M.rev[k].source # id(m)
  BY <1>2, <1>4, <1>5, <1>6 DEF Put
<1>11. \A a, i : <<u.tenant, <<a, i, id(m)>>>> \notin DOMAIN M.idem
  <2>1. ASSUME NEW a, NEW i, <<u.tenant, <<a, i, id(m)>>>> \in DOMAIN M.idem PROVE FALSE
    <3>1. /\ e # NoEvent
          /\ <<u.tenant, <<a, i, id(m)>>>> = <<u.tenant, <<r.account, e.id, id(n)>>>>
      BY <1>4, <1>5, <1>6, <2>1 DEF Put
    <3> QED BY <1>2, <3>1
  <2> QED BY <2>1
<1> QED BY <1>7, <1>8, <1>9, <1>10, <1>11 DEF Fresh, id, M, row

(* Accepted as new on both sides, an event keeps the ledgers similar.      *)
LEMMA InsertSimilar ==
  ASSUME NEW K, NEW M, Similar(K, M), NEW x, NEW y,
         NEW e, NEW f, \/ e = NoEvent /\ f = NoEvent
                       \/ e # NoEvent /\ f # NoEvent /\ Core(e) = Core(f)
  PROVE  Similar(Insert(K, x, e), Insert(M, y, f))
<1>1. CASE e = NoEvent
  BY <1>1 DEF Insert, Similar
<1>2. CASE e # NoEvent
  <2>1. EventKey(e) = EventKey(f) /\ RevisionKey(e) = RevisionKey(f) /\ Core(e) = Core(f)
    BY <1>2, CoreFields
  <2>2. CASE EventKey(e) \in DOMAIN K.event
    BY <1>2, <2>1, <2>2 DEF Insert, Similar
  <2>3. CASE EventKey(e) \notin DOMAIN K.event
    <3>1. /\ Insert(K, x, e).event = Put(K.event, EventKey(e), e)
          /\ Insert(K, x, e).rev = Put(K.rev, RevisionKey(e), e)
      BY <1>2, <2>3, InsertEvents
    <3>2. /\ Insert(M, y, f).event = Put(M.event, EventKey(e), f)
          /\ Insert(M, y, f).rev = Put(M.rev, RevisionKey(e), f)
      BY <1>2, <2>1, <2>3, InsertEvents DEF Similar
    <3> QED BY <2>1, <3>1, <3>2 DEF Similar, Put
  <2> QED BY <2>2, <2>3
<1> QED BY <1>1, <1>2

-----------------------------------------------------------------------------
(* Two requests, the rows of one being those of the other in another order,*)
(* pi saying where each row has gone.                                      *)
Reordered(r, s, pi) ==
  /\ Readable(r) /\ Readable(s)
  /\ s.account = r.account /\ s.upload.tenant = r.upload.tenant
  /\ s.upload.id = r.upload.id /\ s.upload.bytes = r.upload.bytes
  /\ pi \in Bijection(DOMAIN r.upload.rows, DOMAIN s.upload.rows)
  /\ \A n \in DOMAIN r.upload.rows : s.upload.rows[pi[n]] = r.upload.rows[n]

LEMMA ReorderedFacts ==
  ASSUME NEW r, NEW s, NEW pi, Reordered(r, s, pi)
  PROVE  /\ \A n \in DOMAIN r.upload.rows : pi[n] \in DOMAIN s.upload.rows
         /\ \A m, n \in DOMAIN r.upload.rows : pi[m] = pi[n] => m = n
         /\ \A k \in DOMAIN s.upload.rows : \E n \in DOMAIN r.upload.rows : pi[n] = k
BY DEF Reordered, Bijection, Injection, Surjection, IsInjective

LEMMA ReorderedEvents ==
  ASSUME NEW r, NEW s, NEW pi, Reordered(r, s, pi), NEW n \in Candidates(r.upload)
  PROVE  /\ EventOf(r, n) # NoEvent /\ EventOf(s, pi[n]) # NoEvent
         /\ Core(EventOf(r, n)) = Core(EventOf(s, pi[n]))
         /\ pi[n] \in Candidates(s.upload)
<1>1. n \in DOMAIN r.upload.rows /\ s.upload.rows[pi[n]] = r.upload.rows[n]
  BY DEF Reordered, Candidates
<1>2. pi[n] \in Candidates(s.upload)
  BY <1>1, ReorderedFacts DEF Candidates
<1>3. EventOf(r, n) # NoEvent /\ EventOf(s, pi[n]) # NoEvent
  BY <1>2, RequestTypes, NoEventAssumption DEF Candidates, Reordered
<1>4. Core(EventOf(r, n)) = Core(EventOf(s, pi[n]))
  BY <1>1 DEF Core, EventOf, Reordered
<1> QED BY <1>2, <1>3, <1>4

LEMMA ReorderedCandidates ==
  ASSUME NEW r, NEW s, NEW pi, Reordered(r, s, pi)
  PROVE  /\ Candidates(s.upload) = {pi[n] : n \in Candidates(r.upload)}
         /\ Cardinality(Candidates(s.upload)) = Cardinality(Candidates(r.upload))
<1> DEFINE C == Candidates(r.upload)
           D == Candidates(s.upload)
           f == [n \in C |-> pi[n]]
<1>1. ASSUME NEW k \in D PROVE \E n \in C : pi[n] = k
  <2>1. k \in DOMAIN s.upload.rows /\ s.upload.rows[k] # Malformed
    BY DEF Candidates
  <2>2. PICK n \in DOMAIN r.upload.rows : pi[n] = k
    BY <2>1, ReorderedFacts
  <2>3. s.upload.rows[pi[n]] = r.upload.rows[n]
    BY DEF Reordered
  <2> QED BY <2>1, <2>2, <2>3 DEF Candidates
<1>2. \A n \in C : pi[n] \in D
  BY ReorderedEvents
<1>3. C \subseteq DOMAIN r.upload.rows
  BY DEF Candidates
<1>4. f \in Bijection(C, D)
  <2>1. f \in [C -> D]
    BY <1>2
  <2>2. \A m, n \in C : f[m] = f[n] => m = n
    BY <1>3, ReorderedFacts
  <2>3. \A k \in D : \E n \in C : f[n] = k
    BY <1>1
  <2> HIDE DEF f, C, D
  <2> QED BY <2>1, <2>2, <2>3 DEF Bijection, Injection, Surjection, IsInjective
<1>5. IsFiniteSet(C)
  BY CandidatesFinite DEF Reordered
<1>6. ExistsBijection(C, D)
  BY <1>4 DEF ExistsBijection
<1>7. Cardinality(C) = Cardinality(D)
  BY <1>5, <1>6, FS_Bijection
<1>8. D = {pi[n] : n \in C}
  BY <1>1, <1>2
<1> QED BY <1>7, <1>8

(* The order of the candidates, key by key.                                *)
LEMMA PrecedesLex ==
  ASSUME NEW a, NEW b, DOMAIN a = 1 .. 4, Precedes(a, b)
  PROVE  \/ a[1] < b[1]
         \/ a[1] = b[1] /\ a[2] < b[2]
         \/ a[1] = b[1] /\ a[2] = b[2] /\ a[3] < b[3]
         \/ a[1] = b[1] /\ a[2] = b[2] /\ a[3] = b[3]
<1>1. PICK i \in 1 .. 4 : a[i] < b[i] /\ \A j \in 1 .. (i - 1) : a[j] = b[j]
  BY DEF Precedes
<1>2. i \in {1, 2, 3, 4}
  OBVIOUS
<1>3. /\ i > 1 => a[1] = b[1]
      /\ i > 2 => a[2] = b[2]
      /\ i > 3 => a[3] = b[3]
  BY <1>1
<1> QED BY <1>1, <1>2, <1>3

(* Of two rows with different events only one precedes the other, whatever *)
(* their places.                                                           *)
LEMMA PrecedesEither ==
  ASSUME NEW a1 \in Nat, NEW a2 \in Nat, NEW a3 \in Nat, NEW a4, NEW a5,
         NEW b1 \in Nat, NEW b2 \in Nat, NEW b3 \in Nat, NEW b4, NEW b5,
         a3 # b3,
         Precedes(<<a1, a2, a3, a4>>, <<b1, b2, b3, b4>>),
         Precedes(<<b1, b2, b3, b5>>, <<a1, a2, a3, a5>>)
  PROVE  FALSE
<1> DEFINE a == <<a1, a2, a3, a4>>
           b == <<b1, b2, b3, b4>>
           c == <<b1, b2, b3, b5>>
           d == <<a1, a2, a3, a5>>
<1>1. /\ DOMAIN a = 1 .. 4 /\ DOMAIN c = 1 .. 4
      /\ a[1] = a1 /\ a[2] = a2 /\ a[3] = a3 /\ d[1] = a1 /\ d[2] = a2 /\ d[3] = a3
      /\ b[1] = b1 /\ b[2] = b2 /\ b[3] = b3 /\ c[1] = b1 /\ c[2] = b2 /\ c[3] = b3
  OBVIOUS
<1>2. Precedes(a, b) /\ Precedes(c, d)
  OBVIOUS
<1> HIDE DEF a, b, c, d
<1>3. a1 < b1 \/ (a1 = b1 /\ a2 < b2) \/ (a1 = b1 /\ a2 = b2 /\ a3 < b3)
  BY <1>1, <1>2, PrecedesLex
<1>4. b1 < a1 \/ (b1 = a1 /\ b2 < a2) \/ (b1 = a1 /\ b2 = a2 /\ b3 < a3)
  BY <1>1, <1>2, PrecedesLex
<1> QED BY <1>3, <1>4

Rank(u, pending, n) ==
  IF u.rows[n].supersedes # NoId THEN 0
  ELSE IF \E m \in pending : u.rows[m].supersedes = ReportEventId(u.rows[n]) THEN 1 ELSE 2

LEMMA OrderKeys ==
  ASSUME NEW r, Readable(r), NEW n \in Candidates(r.upload), NEW pending
  PROVE  /\ CandidateOrder(r.upload, pending, n)
              = <<Rank(r.upload, pending, n), r.upload.rows[n].time,
                  EventIdPlace[ReportEventId(r.upload.rows[n])], n>>
         /\ Rank(r.upload, pending, n) \in Nat
         /\ r.upload.rows[n].time \in Nat
         /\ EventIdPlace[ReportEventId(r.upload.rows[n])] \in Nat
         /\ ReportEventId(r.upload.rows[n]) \in EventIds
         /\ n \in Nat
<1>1. CandidateOrder(r.upload, pending, n)
        = <<Rank(r.upload, pending, n), r.upload.rows[n].time,
            EventIdPlace[ReportEventId(r.upload.rows[n])], n>>
  BY DEF CandidateOrder, Rank
<1>2. Rank(r.upload, pending, n) \in Nat
  BY DEF Rank
<1> QED BY <1>1, <1>2, ReadableFacts DEF Candidates, ReportLine

LEMMA RankMoves ==
  ASSUME NEW r, NEW s, NEW pi, Reordered(r, s, pi), NEW P, P \subseteq Candidates(r.upload),
         NEW n \in Candidates(r.upload)
  PROVE  Rank(s.upload, {pi[m] : m \in P}, pi[n]) = Rank(r.upload, P, n)
<1> DEFINE Q == {pi[m] : m \in P}
<1>1. \A m \in Candidates(r.upload) : s.upload.rows[pi[m]] = r.upload.rows[m]
  BY DEF Reordered, Candidates
<1>2. (\E k \in Q : s.upload.rows[k].supersedes = ReportEventId(s.upload.rows[pi[n]]))
        <=> (\E m \in P : r.upload.rows[m].supersedes = ReportEventId(r.upload.rows[n]))
  BY <1>1
<1>3. s.upload.rows[pi[n]].supersedes = r.upload.rows[n].supersedes
  BY <1>1
<1> HIDE DEF Q
<1>4. Rank(s.upload, Q, pi[n]) = Rank(r.upload, P, n)
  BY <1>2, <1>3 DEF Rank
<1> QED BY <1>4 DEF Q

(* The candidate that goes first is the same row wherever it stands.       *)
Moved(pi, S) == {pi[n] : n \in S}

LEMMA FirstReadyMoves ==
  ASSUME NEW r, NEW s, NEW pi, Reordered(r, s, pi), DistinctEvents(r.upload.rows),
         NEW P, P \subseteq Candidates(r.upload), NEW R, R \subseteq P, R # {}
  PROVE  FirstReady(s.upload, Moved(pi, P), Moved(pi, R)) = pi[FirstReady(r.upload, P, R)]
<1> DEFINE u == r.upload
           v == s.upload
           piP == {pi[n] : n \in P}
           piR == {pi[n] : n \in R}
           n == FirstReady(u, P, R)
           k == FirstReady(v, piP, piR)
<1>1. Readable(r) /\ Readable(s)
  BY DEF Reordered
<1>2. R \subseteq Candidates(u) /\ piR \subseteq Candidates(v) /\ piR # {}
  BY ReorderedEvents
<1>3. /\ n \in R
      /\ \A m \in R \ {n} : Precedes(CandidateOrder(u, P, n), CandidateOrder(u, P, m))
  BY <1>1, <1>2, FirstReadyIsReady
<1>4. /\ k \in piR
      /\ \A m \in piR \ {k} : Precedes(CandidateOrder(v, piP, k), CandidateOrder(v, piP, m))
  <2> HIDE DEF piP, piR, v
  <2> QED BY <1>1, <1>2, FirstReadyIsReady DEF v
<1>5. PICK m \in R : k = pi[m]
  BY <1>4
<1> HIDE DEF n, k
<1>6. m \in Candidates(u) /\ n \in Candidates(u)
  BY <1>2, <1>3
<1>7. SUFFICES ASSUME m # n PROVE FALSE
  BY <1>5 DEF n, k, Moved
<1>8. pi[n] # k /\ pi[n] \in piR
  BY <1>3, <1>5, <1>6, <1>7, ReorderedFacts DEF Candidates
<1> DEFINE a1 == Rank(u, P, n)
           a2 == u.rows[n].time
           a3 == EventIdPlace[ReportEventId(u.rows[n])]
           b1 == Rank(u, P, m)
           b2 == u.rows[m].time
           b3 == EventIdPlace[ReportEventId(u.rows[m])]
<1>9. /\ a1 \in Nat /\ a2 \in Nat /\ a3 \in Nat /\ n \in Nat
      /\ b1 \in Nat /\ b2 \in Nat /\ b3 \in Nat /\ m \in Nat
      /\ CandidateOrder(u, P, n) = <<a1, a2, a3, n>>
      /\ CandidateOrder(u, P, m) = <<b1, b2, b3, m>>
  BY <1>1, <1>6, OrderKeys
<1>10. /\ pi[n] \in Nat /\ pi[m] \in Nat
       /\ CandidateOrder(v, piP, pi[n]) = <<a1, a2, a3, pi[n]>>
       /\ CandidateOrder(v, piP, pi[m]) = <<b1, b2, b3, pi[m]>>
  <2>1. pi[n] \in Candidates(v) /\ pi[m] \in Candidates(v)
    BY <1>6, ReorderedEvents
  <2>2. v.rows[pi[n]] = u.rows[n] /\ v.rows[pi[m]] = u.rows[m]
    BY <1>6 DEF Reordered, Candidates
  <2>3. Rank(v, piP, pi[n]) = a1 /\ Rank(v, piP, pi[m]) = b1
    BY <1>6, RankMoves
  <2> HIDE DEF piP
  <2> QED BY <1>1, <2>1, <2>2, <2>3, OrderKeys
<1>11. Precedes(<<a1, a2, a3, n>>, <<b1, b2, b3, m>>)
  BY <1>3, <1>7, <1>9
<1>12. Precedes(<<b1, b2, b3, pi[m]>>, <<a1, a2, a3, pi[n]>>)
  BY <1>4, <1>5, <1>8, <1>10
<1>13. a3 # b3
  <2>1. ReportEventId(u.rows[n]) # ReportEventId(u.rows[m])
    BY <1>6, <1>7 DEF DistinctEvents, Candidates
  <2>2. ReportEventId(u.rows[n]) \in EventIds /\ ReportEventId(u.rows[m]) \in EventIds
    BY <1>1, <1>6, OrderKeys
  <2> QED BY <2>1, <2>2, PlacesAssumption
<1> HIDE DEF a1, a2, a3, b1, b2, b3
<1> QED BY <1>9, <1>10, <1>11, <1>12, <1>13, PrecedesEither

-----------------------------------------------------------------------------
(* Two plans in the making, of the rows in one order and in the other.     *)
Alike(e, f) == \/ e = NoEvent /\ f = NoEvent
               \/ e # NoEvent /\ f # NoEvent /\ e.id = f.id

Twins(r, s, pi, st, tw) ==
  /\ st \in PlanStates(r) /\ tw \in PlanStates(s)
  /\ tw.code = st.code
  /\ tw.pending = {pi[n] : n \in st.pending}
  /\ Similar(st.staging, tw.staging)
  /\ Len(tw.items) = Len(st.items)
  /\ \A i \in 1 .. Len(st.items) : Alike(st.items[i].event, tw.items[i].event)
  /\ \A n \in st.pending : Fresh(st.staging, r.upload, n)
  /\ \A k \in tw.pending : Fresh(tw.staging, s.upload, k)

LEMMA StageFresh ==
  ASSUME NEW r, Readable(r), NEW st \in PlanStates(r),
         \A m \in st.pending : Fresh(st.staging, r.upload, m),
         NEW n \in st.pending, NEW d, NEW e, e = NoEvent \/ e = EventOf(r, n)
  PROVE  LET next == Stage(st, r.upload.tenant, n, RowOf(r.upload, n, d), e)
         IN \A m \in next.pending : Fresh(next.staging, r.upload, m)
<1> DEFINE row == RowOf(r.upload, n, d)
           next == Stage(st, r.upload.tenant, n, row, e)
<1>1. st.pending \subseteq DOMAIN r.upload.rows
  BY DEF PlanStates, Candidates
<1>2. \/ next.pending = st.pending /\ next.staging = st.staging
      \/ /\ next.pending = st.pending \ {n}
         /\ next.staging = Insert(st.staging, row, e)
  <2> HIDE DEF row
  <2>1. CASE st.code = "OK" /\ Verdict(st.staging, r.upload.tenant, row, e) = "OK"
    BY <2>1 DEF Stage
  <2>2. CASE st.code = "OK" /\ Verdict(st.staging, r.upload.tenant, row, e) # "OK"
    BY <2>2 DEF Stage, PlanStates
  <2>3. CASE st.code # "OK"
    BY <2>3 DEF Stage
  <2> QED BY <2>1, <2>2, <2>3
<1>3. \A m \in st.pending \ {n} : Fresh(Insert(st.staging, row, e), r.upload, m)
  BY <1>1, InsertFresh
<1> HIDE DEF next, row
<1>4. \A m \in next.pending : Fresh(next.staging, r.upload, m)
  BY <1>2, <1>3
<1> QED BY <1>4 DEF next, row

(* A row is staged on both sides, with what it says.                       *)
LEMMA StageTwins ==
  ASSUME NEW r, NEW s, NEW pi, Reordered(r, s, pi), NEW st, NEW tw, Twins(r, s, pi, st, tw),
         st.code = "OK", NEW n \in st.pending, NEW d \in Diagnostics \cup {NoDiagnostics},
         NEW e, NEW f,
         \/ e = NoEvent /\ f = NoEvent /\ d # NoDiagnostics
         \/ e = EventOf(r, n) /\ f = EventOf(s, pi[n]) /\ d = NoDiagnostics
  PROVE  Twins(r, s, pi, Stage(st, r.upload.tenant, n, RowOf(r.upload, n, d), e),
                         Stage(tw, s.upload.tenant, pi[n], RowOf(s.upload, pi[n], d), f))
<1> DEFINE t == r.upload.tenant
           x == RowOf(r.upload, n, d)
           y == RowOf(s.upload, pi[n], d)
           next == Stage(st, t, n, x, e)
           twin == Stage(tw, s.upload.tenant, pi[n], y, f)
           o == [row |-> x, event |-> e]
           p == [row |-> y, event |-> f]
<1>1. Readable(r) /\ Readable(s) /\ s.upload.tenant = t
  BY DEF Reordered
<1>2. /\ st \in PlanStates(r) /\ tw \in PlanStates(s) /\ tw.code = "OK"
      /\ tw.pending = {pi[m] : m \in st.pending}
      /\ Similar(st.staging, tw.staging) /\ Len(tw.items) = Len(st.items)
      /\ \A i \in 1 .. Len(st.items) : Alike(st.items[i].event, tw.items[i].event)
      /\ \A m \in st.pending : Fresh(st.staging, r.upload, m)
      /\ \A k \in tw.pending : Fresh(tw.staging, s.upload, k)
  BY DEF Twins
<1>3. n \in Candidates(r.upload) /\ pi[n] \in tw.pending /\ pi[n] \in Candidates(s.upload)
  BY <1>2 DEF PlanStates
<1>4. n \in DOMAIN r.upload.rows /\ pi[n] \in DOMAIN s.upload.rows
  BY <1>3 DEF Candidates
<1>5. Alike(e, f)
  BY <1>3, ReorderedEvents, CoreFields DEF Alike
<1>6. \/ e = NoEvent /\ f = NoEvent
      \/ e # NoEvent /\ f # NoEvent /\ Core(e) = Core(f)
  BY <1>3, ReorderedEvents
<1>7. Verdict(st.staging, t, x, e) = Verdict(tw.staging, t, y, f)
  <2>1. CASE e = NoEvent /\ f = NoEvent /\ d # NoDiagnostics
    BY <1>1, <1>2, <1>3, <2>1, FreshRefusal
  <2>2. CASE e = EventOf(r, n) /\ f = EventOf(s, pi[n]) /\ d = NoDiagnostics
    <3>1. Verdict(st.staging, t, x, e) = NewVerdict(st.staging, e)
      BY <1>1, <1>2, <1>3, <2>2, FreshVerdict
    <3>2. Verdict(tw.staging, t, y, f) = NewVerdict(tw.staging, f)
      BY <1>1, <1>2, <1>3, <2>2, FreshVerdict
    <3>3. Sound(st.staging) /\ Core(e) = Core(f)
      BY <1>2, <1>3, <2>2, ReorderedEvents DEF PlanStates, Ledgers
    <3> QED BY <1>2, <3>1, <3>2, <3>3, NewAlike
  <2> QED BY <2>1, <2>2
<1>8. next \in PlanStates(r)
  <2>1. e = NoEvent \/ (r.upload.rows[n] # Malformed /\ e = EventOf(r, n))
    BY <1>3 DEF Candidates
  <2> QED BY <1>1, <1>2, <1>4, <2>1, StagePlans DEF StagedInto
<1>9. twin \in PlanStates(s)
  <2>1. f = NoEvent \/ (s.upload.rows[pi[n]] # Malformed /\ f = EventOf(s, pi[n]))
    BY <1>3 DEF Candidates
  <2> QED BY <1>1, <1>2, <1>4, <2>1, StagePlans DEF StagedInto
<1>10. \A m \in next.pending : Fresh(next.staging, r.upload, m)
  BY <1>1, <1>2, StageFresh
<1>11. \A k \in twin.pending : Fresh(twin.staging, s.upload, k)
  BY <1>1, <1>2, <1>3, StageFresh
<1>12. CASE Verdict(st.staging, t, x, e) # "OK"
  <2> DEFINE V == Verdict(st.staging, t, x, e)
  <2>1. next = [st EXCEPT !.code = V] /\ twin = [tw EXCEPT !.code = V]
    BY <1>1, <1>2, <1>7, <1>12 DEF Stage
  <2> HIDE DEF V
  <2>2. /\ next.code = twin.code /\ next.pending = st.pending /\ twin.pending = tw.pending
        /\ next.staging = st.staging /\ twin.staging = tw.staging
        /\ next.items = st.items /\ twin.items = tw.items
    BY <1>2, <2>1 DEF PlanStates
  <2> HIDE DEF next, twin
  <2>3. Twins(r, s, pi, next, twin)
    BY <1>2, <1>8, <1>9, <1>10, <1>11, <2>2 DEF Twins
  <2> QED BY <2>3 DEF next, twin
<1>13. CASE Verdict(st.staging, t, x, e) = "OK"
  <2>1. /\ next.code = "OK" /\ next.pending = st.pending \ {n}
        /\ next.staging = Insert(st.staging, x, e) /\ next.items = Append(st.items, o)
    BY <1>13 DEF Stage
  <2>2. /\ twin.code = "OK" /\ twin.pending = tw.pending \ {pi[n]}
        /\ twin.staging = Insert(tw.staging, y, f) /\ twin.items = Append(tw.items, p)
    BY <1>1, <1>2, <1>7, <1>13 DEF Stage
  <2>3. twin.pending = {pi[m] : m \in next.pending}
    <3>1. st.pending \subseteq DOMAIN r.upload.rows
      BY <1>2 DEF PlanStates, Candidates
    <3>2. \A m \in st.pending : m # n => pi[m] # pi[n]
      BY <1>4, <3>1, ReorderedFacts
    <3> HIDE DEF next, twin
    <3> QED BY <1>2, <2>1, <2>2, <3>2
  <2>4. Similar(next.staging, twin.staging)
    BY <1>2, <1>6, <2>1, <2>2, InsertSimilar
  <2>5. /\ Len(next.items) = Len(twin.items)
        /\ \A i \in 1 .. Len(next.items) : Alike(next.items[i].event, twin.items[i].event)
    <3>1. /\ st.items \in Seq(ItemsOf(r)) /\ tw.items \in Seq(ItemsOf(s))
          /\ next.items \in Seq(ItemsOf(r)) /\ twin.items \in Seq(ItemsOf(s))
      BY <1>2, <1>8, <1>9 DEF PlanStates
    <3>2. o.event = e /\ p.event = f
      OBVIOUS
    <3> HIDE DEF next, twin, o, p
    <3>3. /\ Len(next.items) = Len(st.items) + 1 /\ Len(twin.items) = Len(st.items) + 1
          /\ Len(st.items) \in Nat
      BY <1>2, <2>1, <2>2, <3>1
    <3>4. /\ \A i \in 1 .. Len(st.items) : next.items[i] = st.items[i]
          /\ \A i \in 1 .. Len(st.items) : twin.items[i] = tw.items[i]
          /\ next.items[Len(st.items) + 1] = o /\ twin.items[Len(st.items) + 1] = p
      BY <1>2, <2>1, <2>2, <3>1
    <3>5. ASSUME NEW i \in 1 .. Len(st.items) + 1
          PROVE  Alike(next.items[i].event, twin.items[i].event)
      <4>1. CASE i = Len(st.items) + 1
        BY <1>5, <3>2, <3>4, <4>1
      <4>2. CASE i # Len(st.items) + 1
        <5>1. i \in 1 .. Len(st.items)
          BY <3>3, <4>2
        <5> QED BY <1>2, <3>4, <5>1
      <4> QED BY <4>1, <4>2
    <3> QED BY <3>3, <3>5
  <2> HIDE DEF next, twin
  <2>6. Twins(r, s, pi, next, twin)
    BY <1>8, <1>9, <1>10, <1>11, <2>1, <2>2, <2>3, <2>4, <2>5 DEF Twins
  <2> QED BY <2>6 DEF next, twin
<1> QED BY <1>12, <1>13

(* A round takes the same row on both sides, to the same end.              *)
LEMMA RoundTwins ==
  ASSUME NEW r, NEW s, NEW pi, Reordered(r, s, pi), DistinctEvents(r.upload.rows),
         NEW st, NEW tw, Twins(r, s, pi, st, tw)
  PROVE  Twins(r, s, pi, Round(r, st), Round(s, tw))
<1> DEFINE u == r.upload
           v == s.upload
           V(n) == Verdict(st.staging, u.tenant, RowOf(u, n, NoDiagnostics), EventOf(r, n))
           W(k) == Verdict(tw.staging, v.tenant, RowOf(v, k, NoDiagnostics), EventOf(s, k))
           R == {n \in st.pending : V(n) \notin MissingDependencyCodes}
           Q == {k \in tw.pending : W(k) \notin MissingDependencyCodes}
           n == FirstReady(u, st.pending, R)
           k == FirstReady(v, tw.pending, Q)
<1>1. /\ Readable(r) /\ Readable(s)
      /\ st \in PlanStates(r) /\ tw \in PlanStates(s) /\ tw.code = st.code
      /\ tw.pending = {pi[m] : m \in st.pending}
      /\ Similar(st.staging, tw.staging)
      /\ \A m \in st.pending : Fresh(st.staging, r.upload, m)
      /\ \A m \in tw.pending : Fresh(tw.staging, s.upload, m)
  BY DEF Twins, Reordered
<1>2. st.pending \subseteq Candidates(u) /\ tw.pending \subseteq Candidates(v) /\ Sound(st.staging)
  BY <1>1 DEF PlanStates, Ledgers
<1>3. ASSUME NEW m \in st.pending PROVE V(m) = W(pi[m])
  <2>1. pi[m] \in tw.pending
    BY <1>1
  <2>2. V(m) = NewVerdict(st.staging, EventOf(r, m))
    BY <1>1, <1>2, FreshVerdict
  <2>3. W(pi[m]) = NewVerdict(tw.staging, EventOf(s, pi[m]))
    BY <1>1, <1>2, <2>1, FreshVerdict
  <2>4. Core(EventOf(r, m)) = Core(EventOf(s, pi[m]))
    BY <1>2, ReorderedEvents
  <2> QED BY <1>1, <1>2, <2>2, <2>3, <2>4, NewAlike
<1> HIDE DEF V, W
<1>4. Q = {pi[m] : m \in R}
  BY <1>1, <1>3
<1>5. Round(r, st) = IF st.code # "OK" THEN st
                     ELSE IF R = {} THEN [st EXCEPT !.code = "BATCH_DEPENDENCY_UNRESOLVED"]
                     ELSE IF V(n) \in RowQuarantineCodes
                       THEN Stage(st, u.tenant, n, RowOf(u, n, V(n)), NoEvent)
                     ELSE Stage(st, u.tenant, n, RowOf(u, n, NoDiagnostics), EventOf(r, n))
  BY DEF Round, V
<1>6. Round(s, tw) = IF tw.code # "OK" THEN tw
                     ELSE IF Q = {} THEN [tw EXCEPT !.code = "BATCH_DEPENDENCY_UNRESOLVED"]
                     ELSE IF W(k) \in RowQuarantineCodes
                       THEN Stage(tw, v.tenant, k, RowOf(v, k, W(k)), NoEvent)
                     ELSE Stage(tw, v.tenant, k, RowOf(v, k, NoDiagnostics), EventOf(s, k))
  BY DEF Round, W
<1>7. CASE st.code # "OK"
  BY <1>1, <1>5, <1>6, <1>7
<1>8. CASE st.code = "OK" /\ R = {}
  <2> DEFINE next == [st EXCEPT !.code = "BATCH_DEPENDENCY_UNRESOLVED"]
             twin == [tw EXCEPT !.code = "BATCH_DEPENDENCY_UNRESOLVED"]
  <2>1. Q = {}
    BY <1>4, <1>8
  <2>2. Round(r, st) = next /\ Round(s, tw) = twin
    BY <1>1, <1>5, <1>6, <1>8, <2>1
  <2>3. /\ next.code = twin.code /\ next.pending = st.pending /\ twin.pending = tw.pending
        /\ next.staging = st.staging /\ twin.staging = tw.staging
        /\ next.items = st.items /\ twin.items = tw.items
        /\ next \in PlanStates(r) /\ twin \in PlanStates(s)
    BY <1>1 DEF PlanStates, Codes
  <2> HIDE DEF next, twin
  <2>4. Twins(r, s, pi, next, twin)
    BY <2>3 DEF Twins
  <2> QED BY <2>2, <2>4
<1>9. CASE st.code = "OK" /\ R # {}
  <2>1. n \in R
    <3>1. R \subseteq Candidates(u)
      BY <1>2
    <3> HIDE DEF R
    <3> QED BY <1>1, <1>9, <3>1, FirstReadyIsReady
  <2>2. k = pi[n]
    <3>1. R \subseteq st.pending
      OBVIOUS
    <3>2. tw.pending = Moved(pi, st.pending) /\ Q = Moved(pi, R)
      <4> HIDE DEF R, Q
      <4> QED BY <1>1, <1>4 DEF Moved
    <3> HIDE DEF R, Q
    <3>3. FirstReady(s.upload, Moved(pi, st.pending), Moved(pi, R))
            = pi[FirstReady(r.upload, st.pending, R)]
      BY <1>2, <1>9, <3>1, FirstReadyMoves
    <3> QED BY <3>2, <3>3
  <2>3. n \in st.pending /\ Q # {} /\ V(n) = W(k)
    BY <1>3, <1>4, <2>1, <2>2
  <2> HIDE DEF R, Q, n, k
  <2>4. CASE V(n) \in RowQuarantineCodes
    <3>1. /\ Round(r, st) = Stage(st, u.tenant, n, RowOf(u, n, V(n)), NoEvent)
          /\ Round(s, tw) = Stage(tw, v.tenant, pi[n], RowOf(v, pi[n], V(n)), NoEvent)
      BY <1>1, <1>5, <1>6, <1>9, <2>2, <2>3, <2>4
    <3>2. V(n) \in Diagnostics
      BY <2>4, DiagnosticsAssumption DEF RowQuarantineCodes
    <3>3. PICK d \in Diagnostics : d = V(n)
      BY <3>2
    <3>4. d \in Diagnostics \cup {NoDiagnostics} /\ d # NoDiagnostics
      BY NoDiagnosticsAssumption
    <3> QED BY <1>9, <2>3, <3>1, <3>3, <3>4, StageTwins
  <2>5. CASE V(n) \notin RowQuarantineCodes
    <3>1. /\ Round(r, st) = Stage(st, u.tenant, n, RowOf(u, n, NoDiagnostics), EventOf(r, n))
          /\ Round(s, tw) = Stage(tw, v.tenant, pi[n], RowOf(v, pi[n], NoDiagnostics),
                                  EventOf(s, pi[n]))
      BY <1>1, <1>5, <1>6, <1>9, <2>2, <2>3, <2>5
    <3> QED BY <1>9, <2>3, <3>1, StageTwins
  <2> QED BY <2>4, <2>5
<1> QED BY <1>7, <1>8, <1>9

(* After the first pass over a file that is new to the ledger, its         *)
(* malformed rows are quarantined and nothing else has happened.           *)
Refused(u) == DOMAIN u.rows \ Candidates(u)

FirstPassDone(L, r, st) ==
  /\ st.code = "OK" /\ st.pending = Candidates(r.upload)
  /\ st.staging.event = L.event /\ st.staging.rev = L.rev
  /\ Len(st.items) = Cardinality(Refused(r.upload))
  /\ \A i \in 1 .. Len(st.items) : st.items[i].event = NoEvent
  /\ \A n \in Candidates(r.upload) : Fresh(st.staging, r.upload, n)

LEMMA ImmediateRefuses ==
  ASSUME NEW L, Sound(L), NEW r, Readable(r), \A n \in DOMAIN r.upload.rows : Fresh(L, r.upload, n)
  PROVE  FirstPassDone(L, r, Immediate(L, r))
<1> DEFINE u == r.upload
           n == Len(u.rows)
           C == Candidates(u)
           Bad(i) == (1 .. i) \ C
<1>1. PICK f : FirstPass(f, L, r) /\ Immediate(L, r) = f[n]
  BY ImmediateSteps
<1>2. n \in Nat /\ DOMAIN u.rows = 1 .. n /\ C \subseteq 1 .. n
  BY ReadableFacts DEF Candidates
<1>3. f \in [0 .. n -> PlanStates(r)]
  BY <1>1 DEF FirstPass
<1> DEFINE Done(i, st) ==
             /\ st.code = "OK" /\ st.pending = C
             /\ st.staging.event = L.event /\ st.staging.rev = L.rev
             /\ Len(st.items) = Cardinality(Bad(i))
             /\ \A j \in 1 .. Len(st.items) : st.items[j].event = NoEvent
             /\ \A m \in 1 .. n : m > i \/ m \in C => Fresh(st.staging, u, m)
           T == {i \in 0 .. n : Done(i, f[i])}
<1>4. 0 \in T
  <2>1. f[0] = [staging |-> L, pending |-> C, items |-> <<>>, code |-> "OK"]
    BY <1>1 DEF FirstPass
  <2>2. Bad(0) = {}
    OBVIOUS
  <2> HIDE DEF Bad
  <2>3. Cardinality(Bad(0)) = 0
    BY <2>2, FS_EmptySet
  <2> QED BY <1>2, <2>1, <2>3
<1>5. ASSUME NEW i \in 1 .. n, i - 1 \in T PROVE i \in T
  <2> DEFINE st == f[i - 1]
             next == f[i]
             row == RowOf(u, i, "NORMALIZATION_FAILED")
             o == [row |-> row, event |-> NoEvent]
  <2>1. st \in PlanStates(r) /\ Done(i - 1, st) /\ i \in Nat
    BY <1>2, <1>3, <1>5
  <2>2. CASE u.rows[i] # Malformed
    <3>1. next = st
      BY <1>1, <2>2 DEF FirstPass
    <3>2. i \in C
      BY <1>2, <2>2 DEF Candidates
    <3>3. Bad(i) = Bad(i - 1)
      BY <3>2
    <3> HIDE DEF st, next, Bad, C
    <3>4. \A m \in 1 .. n : m > i => m > i - 1
      BY <1>2
    <3>5. Done(i, next)
      BY <2>1, <3>1, <3>3, <3>4
    <3> QED BY <3>5 DEF next
  <2>3. CASE u.rows[i] = Malformed
    <3>1. next = Stage(st, u.tenant, i, row, NoEvent)
      BY <1>1, <2>3 DEF FirstPass
    <3>2. i \notin C
      BY <2>3 DEF Candidates
    <3>3. "NORMALIZATION_FAILED" \in Diagnostics
      BY DiagnosticsAssumption
    <3>4. i \in 1 .. n /\ i > i - 1
      BY <1>2
    <3>5. Fresh(st.staging, u, i)
      BY <2>1, <3>4
    <3>6. Verdict(st.staging, u.tenant, row, NoEvent) = "OK"
      <4> HIDE DEF st, u
      <4> QED BY <3>3, <3>5, FreshRefusal
    <3> HIDE DEF st, row
    <3>7. /\ next.code = "OK" /\ next.pending = st.pending \ {i}
          /\ next.staging = Insert(st.staging, row, NoEvent)
          /\ next.items = Append(st.items, o)
      BY <2>1, <3>1, <3>6 DEF Stage
    <3>8. next.staging.event = L.event /\ next.staging.rev = L.rev
      BY <2>1, <3>7 DEF Insert
    <3>9. Cardinality(Bad(i)) = Cardinality(Bad(i - 1)) + 1
      <4>1. Bad(i) = Bad(i - 1) \cup {i} /\ i \notin Bad(i - 1)
        BY <3>2
      <4>2. IsFiniteSet(Bad(i - 1))
        <5>1. IsFiniteSet(1 .. (i - 1))
          BY FS_Interval
        <5> QED BY <5>1, FS_Subset
      <4> HIDE DEF Bad
      <4> QED BY <4>1, <4>2, FS_AddElement
    <3>10. /\ Len(next.items) = Len(st.items) + 1
           /\ \A j \in 1 .. Len(next.items) : next.items[j].event = NoEvent
      <4>1. st.items \in Seq(ItemsOf(r)) /\ o.event = NoEvent /\ Len(st.items) \in Nat
        BY <2>1 DEF PlanStates
      <4>2. \A j \in 1 .. Len(st.items) : st.items[j].event = NoEvent
        BY <2>1
      <4> HIDE DEF o, next, st
      <4>3. /\ Len(next.items) = Len(st.items) + 1
            /\ \A j \in 1 .. Len(next.items) :
                 next.items[j] = IF j <= Len(st.items) THEN st.items[j] ELSE o
        BY <3>7, <4>1
      <4> QED BY <4>1, <4>2, <4>3
    <3>11. ASSUME NEW m \in 1 .. n, m > i \/ m \in C PROVE Fresh(next.staging, u, m)
      <4>1. m # i /\ (m > i - 1 \/ m \in C)
        BY <3>2, <3>11
      <4>2. Fresh(st.staging, u, m)
        BY <2>1, <4>1
      <4>3. i \in DOMAIN r.upload.rows /\ m \in DOMAIN r.upload.rows
        BY <1>2
      <4>4. next.staging = Insert(st.staging, RowOf(r.upload, i, "NORMALIZATION_FAILED"), NoEvent)
        BY <3>7 DEF row
      <4> DEFINE K == st.staging
      <4>5. Fresh(K, r.upload, m)
        BY <4>2
      <4> HIDE DEF K, next
      <4>6. Fresh(Insert(K, RowOf(r.upload, i, "NORMALIZATION_FAILED"), NoEvent), r.upload, m)
        BY <4>1, <4>3, <4>5, InsertFresh
      <4> QED BY <4>4, <4>6 DEF K
    <3>12. next.pending = C
      BY <2>1, <3>2, <3>7
    <3>13. Len(next.items) = Cardinality(Bad(i))
      BY <2>1, <3>9, <3>10
    <3> HIDE DEF next, Bad, C
    <3>14. Done(i, next)
      BY <3>7, <3>8, <3>10, <3>11, <3>12, <3>13
    <3> QED BY <3>14 DEF next
  <2> QED BY <2>2, <2>3
<1> HIDE DEF T
<1>6. \A i \in 0 .. n : i \in T
  BY <1>2, <1>4, <1>5, BoundedInduction
<1>7. Done(n, f[n])
  <2>1. n \in 0 .. n
    BY <1>2
  <2>2. n \in T
    BY <1>6, <2>1
  <2> HIDE DEF Done, n
  <2> QED BY <2>2 DEF T
<1>8. Refused(u) = Bad(n)
  BY <1>2 DEF Refused
<1> QED BY <1>1, <1>2, <1>7, <1>8 DEF FirstPassDone

LEMMA ReorderedRefused ==
  ASSUME NEW r, NEW s, NEW pi, Reordered(r, s, pi)
  PROVE  Cardinality(Refused(s.upload)) = Cardinality(Refused(r.upload))
<1> DEFINE C == Refused(r.upload)
           D == Refused(s.upload)
           f == [n \in C |-> pi[n]]
<1>1. \A n \in DOMAIN r.upload.rows : s.upload.rows[pi[n]] = r.upload.rows[n]
  BY DEF Reordered
<1>2. /\ \A n : n \in C <=> n \in DOMAIN r.upload.rows /\ r.upload.rows[n] = Malformed
      /\ \A n : n \in D <=> n \in DOMAIN s.upload.rows /\ s.upload.rows[n] = Malformed
  BY DEF Refused, Candidates
<1>3. f \in Bijection(C, D)
  <2> HIDE DEF C, D
  <2>1. f \in [C -> D]
    BY <1>1, <1>2, ReorderedFacts
  <2>2. \A m, n \in C : f[m] = f[n] => m = n
    BY <1>2, ReorderedFacts
  <2>3. \A k \in D : \E n \in C : f[n] = k
    BY <1>1, <1>2, ReorderedFacts
  <2> HIDE DEF f
  <2> QED BY <2>1, <2>2, <2>3 DEF Bijection, Injection, Surjection, IsInjective
<1>4. IsFiniteSet(C)
  <2>1. DOMAIN r.upload.rows = 1 .. Len(r.upload.rows) /\ Len(r.upload.rows) \in Nat
    BY ReadableFacts DEF Reordered
  <2> DEFINE n == Len(r.upload.rows)
  <2>2. C \subseteq 1 .. n
    BY <2>1 DEF Refused
  <2>3. n \in Int
    BY <2>1
  <2>4. IsFiniteSet(1 .. n)
    <3> HIDE DEF n
    <3> QED BY <2>3, FS_Interval
  <2> QED BY <2>2, <2>4, FS_Subset
<1>5. ExistsBijection(C, D)
  BY <1>3 DEF ExistsBijection
<1> HIDE DEF C, D
<1>6. Cardinality(C) = Cardinality(D)
  BY <1>4, <1>5, FS_Bijection
<1> QED BY <1>6 DEF C, D

(* None of the lines of the upload is in the ledger.                       *)
AllNew(L, u) == \A n \in DOMAIN u.rows : Fresh(L, u, n)

LEMMA ImmediateTwins ==
  ASSUME NEW L, Sound(L), NEW r, NEW s, NEW pi, Reordered(r, s, pi),
         AllNew(L, r.upload), AllNew(L, s.upload)
  PROVE  Twins(r, s, pi, Immediate(L, r), Immediate(L, s))
<1> DEFINE st == Immediate(L, r)
           tw == Immediate(L, s)
<1>1. Readable(r) /\ Readable(s)
  BY DEF Reordered
<1>2. FirstPassDone(L, r, st) /\ FirstPassDone(L, s, tw)
  BY <1>1, ImmediateRefuses DEF AllNew
<1>3. st \in PlanStates(r) /\ tw \in PlanStates(s)
  BY <1>1, ImmediatePlans
<1> HIDE DEF st, tw
<1>4. tw.pending = {pi[n] : n \in st.pending}
  <2>1. st.pending = Candidates(r.upload) /\ tw.pending = Candidates(s.upload)
    BY <1>2 DEF FirstPassDone
  <2>2. Candidates(s.upload) = {pi[n] : n \in Candidates(r.upload)}
    BY ReorderedCandidates
  <2> QED BY <2>1, <2>2
<1>5. Similar(st.staging, tw.staging)
  BY <1>2 DEF FirstPassDone, Similar
<1>6. /\ Len(tw.items) = Len(st.items)
      /\ \A i \in 1 .. Len(st.items) : Alike(st.items[i].event, tw.items[i].event)
  BY <1>2, ReorderedRefused DEF FirstPassDone, Alike
<1>7. Twins(r, s, pi, st, tw)
  BY <1>2, <1>3, <1>4, <1>5, <1>6 DEF FirstPassDone, Twins
<1> QED BY <1>7 DEF st, tw

LEMMA PlanTwins ==
  ASSUME NEW L, Sound(L), NEW r, NEW s, NEW pi, Reordered(r, s, pi),
         DistinctEvents(r.upload.rows), AllNew(L, r.upload), AllNew(L, s.upload)
  PROVE  Twins(r, s, pi, PlanOn(L, r), PlanOn(L, s))
<1> DEFINE n == Cardinality(Candidates(r.upload))
<1>1. Readable(r) /\ Readable(s) /\ n = Cardinality(Candidates(s.upload))
  BY ReorderedCandidates DEF Reordered
<1>2. PICK f : Rounds(f, L, r) /\ PlanOn(L, r) = f[n]
  BY <1>1, PlanOnSteps
<1>3. PICK g : Rounds(g, L, s) /\ PlanOn(L, s) = g[n]
  BY <1>1, PlanOnSteps
<1>4. n \in Nat
  BY <1>1, CandidatesFinite
<1>5. /\ f[0] = Immediate(L, r) /\ g[0] = Immediate(L, s)
      /\ \A i \in 1 .. n : f[i] = Round(r, f[i - 1])
      /\ \A i \in 1 .. n : g[i] = Round(s, g[i - 1])
  <2> HIDE DEF n
  <2>1. f[0] = Immediate(L, r) /\ \A i \in 1 .. n : f[i] = Round(r, f[i - 1])
    BY <1>2 DEF Rounds, n
  <2>2. g[0] = Immediate(L, s) /\ \A i \in 1 .. n : g[i] = Round(s, g[i - 1])
    BY <1>1, <1>3 DEF Rounds
  <2> QED BY <2>1, <2>2
<1> HIDE DEF n
<1> DEFINE T == {i \in 0 .. n : Twins(r, s, pi, f[i], g[i])}
<1>6. 0 \in T
  BY <1>4, <1>5, ImmediateTwins
<1>7. ASSUME NEW i \in 1 .. n, i - 1 \in T PROVE i \in T
  <2>1. Twins(r, s, pi, f[i - 1], g[i - 1])
    BY <1>7
  <2>2. Twins(r, s, pi, Round(r, f[i - 1]), Round(s, g[i - 1]))
    BY <2>1, RoundTwins
  <2>3. i \in 0 .. n
    BY <1>4
  <2> QED BY <1>5, <2>2, <2>3
<1> HIDE DEF T
<1>8. \A i \in 0 .. n : i \in T
  BY <1>4, <1>6, <1>7, BoundedInduction
<1>9. n \in T
  BY <1>4, <1>8
<1> QED BY <1>2, <1>3, <1>9 DEF T

(* Twin plans publish the same events and quarantine as many rows.         *)
LEMMA TwinOutcomes ==
  ASSUME NEW r, NEW s, NEW pi, NEW st, NEW tw, Twins(r, s, pi, st, tw)
  PROVE  OutcomeOf(st) = OutcomeOf(tw)
<1> DEFINE n == Len(st.items)
           PublishedIn(z) == {o.event.id : o \in {z.items[i] : i \in {j \in DOMAIN z.items :
                                               z.items[j].event # NoEvent}}}
           QuarantinedIn(z) == {i \in DOMAIN z.items : z.items[i].event = NoEvent}
<1>1. st.items \in Seq(ItemsOf(r)) /\ tw.items \in Seq(ItemsOf(s))
  BY DEF Twins, PlanStates
<1>2. DOMAIN st.items = 1 .. n /\ DOMAIN tw.items = 1 .. n
  BY <1>1 DEF Twins
<1>3. \A i \in 1 .. n : /\ st.items[i].event = NoEvent <=> tw.items[i].event = NoEvent
                        /\ st.items[i].event # NoEvent =>
                             st.items[i].event.id = tw.items[i].event.id
  BY DEF Twins, Alike
<1> HIDE DEF n
<1>4. PublishedIn(st) = PublishedIn(tw)
  BY <1>2, <1>3
<1>5. QuarantinedIn(st) = QuarantinedIn(tw)
  BY <1>2, <1>3
<1>6. st.code = tw.code
  BY DEF Twins
<1> QED BY <1>4, <1>5, <1>6 DEF OutcomeOf

(* A file none of whose rows are in the ledger is new to it.               *)
LEMMA UnpublishedIsNew ==
  ASSUME Filed(ledger), NEW r \in Requests, RowsOf(r.upload) = {}
  PROVE  AllNew(ledger, r.upload)
<1> DEFINE u == r.upload
<1>1. /\ Sound(ledger) /\ LocatorsFromFiles(ledger) /\ EventsFromFiles(ledger)
      /\ RowsFromFiles(ledger)
  BY DEF Filed
<1>2. \A x \in Rows(ledger) : ~(x.tenant = u.tenant /\ x.content = u.bytes)
  BY DEF RowsOf
<1>3. SUFFICES ASSUME NEW n \in DOMAIN u.rows PROVE Fresh(ledger, u, n)
  BY DEF AllNew
<1> DEFINE id == SourceRecordId(u, n)
<1>4. id = <<u.tenant, u.bytes, n + 1>>
  BY DEF SourceRecordId
<1> HIDE DEF id
<1>5. <<u.tenant, id>> \notin DOMAIN ledger.source
  <2>1. SUFFICES ASSUME <<u.tenant, id>> \in DOMAIN ledger.source PROVE FALSE
    OBVIOUS
  <2> DEFINE x == ledger.source[<<u.tenant, id>>]
  <2>2. x \in Rows(ledger) /\ SourceKey(x) = <<u.tenant, id>>
    BY <1>1, <2>1 DEF Sound, TraceableIn, Rows
  <2> HIDE DEF x
  <2>3. x.tenant = u.tenant /\ x.id = id
    BY <2>2 DEF SourceKey
  <2>4. PICK q \in Requests : \E m \in DOMAIN q.upload.rows :
                                /\ x.tenant = q.upload.tenant /\ x.content = q.upload.bytes
                                /\ x.id = <<q.upload.tenant, q.upload.bytes, m + 1>>
    BY <1>1, <2>2, RowOfFields DEF RowsFromFiles
  <2>5. x.content = u.bytes
    BY <1>4, <2>3, <2>4
  <2> QED BY <1>2, <2>2, <2>3, <2>5
<1>6. <<u.tenant, u.id, n + 1>> \notin DOMAIN ledger.locator
  <2>1. SUFFICES ASSUME <<u.tenant, u.id, n + 1>> \in DOMAIN ledger.locator PROVE FALSE
    OBVIOUS
  <2> DEFINE k == <<u.tenant, u.id, n + 1>>
  <2>2. k[1] = u.tenant
    OBVIOUS
  <2>3. PICK q \in Requests : \E m \in DOMAIN q.upload.rows :
               /\ k = <<q.upload.tenant, q.upload.id, m + 1>>
               /\ ledger.locator[k] = SourceRecordId(q.upload, m)
    BY <1>1, <2>1 DEF LocatorsFromFiles
  <2>4. PICK m \in DOMAIN q.upload.rows :
               /\ k = <<q.upload.tenant, q.upload.id, m + 1>>
               /\ ledger.locator[k] = SourceRecordId(q.upload, m)
    BY <2>3
  <2>5. q.upload.tenant = u.tenant /\ q.upload.id = u.id /\ m + 1 = n + 1
    BY <2>4
  <2>6. q.upload.bytes = u.bytes
    BY <2>5, SameFileSameBytes
  <2>7. ledger.locator[k] = id
    BY <1>4, <2>4, <2>5, <2>6 DEF SourceRecordId
  <2> HIDE DEF k
  <2>8. <<k[1], ledger.locator[k]>> \in DOMAIN ledger.source
    BY <1>1, <2>1 DEF Sound, TraceableIn, k
  <2> QED BY <1>5, <2>2, <2>7, <2>8
<1>7. \A e \in Events(ledger) : e.source # id
  <2>1. SUFFICES ASSUME NEW e \in Events(ledger), e.source = id PROVE FALSE
    OBVIOUS
  <2>2. PICK q \in Requests : \E m \in DOMAIN q.upload.rows : e = EventOf(q, m)
    BY <1>1 DEF EventsFromFiles
  <2>3. PICK m \in DOMAIN q.upload.rows : e = EventOf(q, m)
    BY <2>2
  <2>4. e.tenant = q.upload.tenant /\ e.source = <<q.upload.tenant, q.upload.bytes, m + 1>>
    BY <2>3 DEF EventOf, SourceRecordId
  <2>5. e.tenant = u.tenant
    BY <1>4, <2>1, <2>4
  <2>6. <<e.tenant, e.source>> \in DOMAIN ledger.source
    BY <1>1 DEF Sound, TraceableIn
  <2> QED BY <1>5, <2>1, <2>5, <2>6
<1>8. /\ \A k \in DOMAIN ledger.event : ledger.event[k] \in Events(ledger)
      /\ \A k \in DOMAIN ledger.rev : ledger.rev[k] \in Events(ledger)
      /\ \A k \in DOMAIN ledger.idem : /\ ledger.idem[k] \in Events(ledger)
                                       /\ k = IdemKey(ledger.idem[k])
  BY <1>1 DEF Sound, IndexesAgreeIn, Events
<1>9. ASSUME NEW a, NEW i, <<u.tenant, <<a, i, id>>>> \in DOMAIN ledger.idem PROVE FALSE
  <2> DEFINE k == <<u.tenant, <<a, i, id>>>>
             e == ledger.idem[k]
  <2>1. e \in Events(ledger) /\ IdemKey(e) = k
    BY <1>8, <1>9
  <2> HIDE DEF e
  <2>2. PICK q \in Requests : \E m \in DOMAIN q.upload.rows : e = EventOf(q, m)
    BY <1>1, <2>1 DEF EventsFromFiles
  <2>3. PICK m \in DOMAIN q.upload.rows : e = EventOf(q, m)
    BY <2>2
  <2>4. IdemKey(e) = <<q.upload.tenant, <<q.account, e.id, e.source>>>>
    BY <2>3 DEF EventOf, IdemKey
  <2>5. e.source = id
    BY <2>1, <2>4
  <2> QED BY <1>7, <2>1, <2>5
<1> QED BY <1>5, <1>6, <1>7, <1>8, <1>9 DEF Fresh, id

(* A file with two neighbouring rows exchanged is the file reordered.      *)
Exchange(u, n) == [m \in DOMAIN u.rows |-> IF m = n THEN n + 1 ELSE IF m = n + 1 THEN n ELSE m]

LEMMA SwappedIsReordered ==
  ASSUME NEW r \in Requests, NEW n \in 1 .. (Len(r.upload.rows) - 1)
  PROVE  Reordered(r, [r EXCEPT !.upload.rows = Swapped(@, n)], Exchange(r.upload, n))
<1> DEFINE s == [r EXCEPT !.upload.rows = Swapped(@, n)]
           u == r.upload
           N == Len(u.rows)
           D == 1 .. N
           pi == Exchange(u, n)
<1>1. Readable(r)
  BY RequestsAssumption
<1>2. N \in Nat /\ DOMAIN u.rows = D
  BY <1>1, ReadableFacts
<1>3. n \in D /\ n + 1 \in D /\ n # n + 1
  BY <1>2
<1>4. r \in [upload : ReportFile, account : Accounts] /\ u \in ReportFile
  BY <1>1 DEF Readable
<1>5. u.rows \in Seq({Malformed} \cup ReportLine)
  BY <1>4 DEF ReportFile
<1> DEFINE rows == Swapped(u.rows, n)
<1>6. /\ DOMAIN rows = D
      /\ \A m \in D : rows[pi[m]] = u.rows[m]
      /\ \A m \in D : pi[m] \in D /\ pi[pi[m]] = m
  BY <1>2, <1>3 DEF Swapped, Exchange
<1> HIDE DEF pi
<1>7. rows \in Seq({Malformed} \cup ReportLine)
  <2>0. \A m \in D : u.rows[m] \in {Malformed} \cup ReportLine
    <3> HIDE DEF D, rows
    <3> QED BY <1>2, <1>5
  <2>1. \A m \in D : rows[m] \in {Malformed} \cup ReportLine
    <3> HIDE DEF D, rows
    <3>1. ASSUME NEW m \in D PROVE rows[m] = u.rows[pi[m]] /\ pi[m] \in D
      BY <1>6
    <3> QED BY <2>0, <3>1
  <2>2. rows \in [D -> {Malformed} \cup ReportLine]
    BY <1>6, <2>1 DEF Swapped
  <2> QED BY <1>2, <2>2
<1>8. /\ s.upload = [u EXCEPT !.rows = rows] /\ s.account = r.account
      /\ s \in [upload : ReportFile, account : Accounts]
      /\ s.upload.tenant = u.tenant /\ s.upload.id = u.id /\ s.upload.bytes = u.bytes
      /\ s.upload.rows = rows
  <2> HIDE DEF rows
  <2>1. s.upload = [u EXCEPT !.rows = rows] /\ s.account = r.account
    BY <1>4 DEF rows
  <2>2. [u EXCEPT !.rows = rows] \in ReportFile
    BY <1>4, <1>7 DEF ReportFile
  <2>3. /\ s.upload.tenant = u.tenant /\ s.upload.id = u.id /\ s.upload.bytes = u.bytes
        /\ s.upload.rows = rows
    BY <1>4, <2>1 DEF ReportFile
  <2>4. s \in [upload : ReportFile, account : Accounts]
    BY <1>4, <2>1, <2>2
  <2> QED BY <2>1, <2>3, <2>4
<1> HIDE DEF rows, s
<1>9. Readable(s)
  <2>1. SUFFICES ASSUME NEW m \in DOMAIN s.upload.rows
                 PROVE  /\ m + 1 \in Lines
                        /\ s.upload.rows[m] # Malformed =>
                             LET id == <<s.upload.rows[m].operation, s.upload.rows[m].revision>>
                             IN id \in EventIds /\ EventIdPlace[id] \in Nat
    BY <1>8 DEF Readable
  <2>2. m \in DOMAIN u.rows /\ pi[m] \in DOMAIN u.rows /\ s.upload.rows[m] = u.rows[pi[m]]
    BY <1>2, <1>6, <1>8, <2>1
  <2> QED BY <1>1, <2>2 DEF Readable
<1>10. pi \in Bijection(D, D)
  <2>1. pi \in [D -> D]
    BY <1>2, <1>6 DEF Exchange, pi
  <2>2. \A x, y \in D : pi[x] = pi[y] => x = y
    BY <1>6
  <2>3. \A y \in D : \E x \in D : pi[x] = y
    BY <1>6
  <2> QED BY <2>1, <2>2, <2>3 DEF Bijection, Injection, Surjection, IsInjective
<1>11. Reordered(r, s, pi)
  BY <1>1, <1>2, <1>6, <1>8, <1>9, <1>10 DEF Reordered
<1> QED BY <1>11 DEF s, pi

LEMMA InvRowOrder == IngestInv => RowOrderIrrelevant
<1> SUFFICES ASSUME IngestInv, NEW r \in Requests, RowsOf(r.upload) = {},
                    DistinctEvents(r.upload.rows), NEW n \in 1 .. (Len(r.upload.rows) - 1)
             PROVE  OutcomeOf(PlanOn(ledger, [r EXCEPT !.upload.rows = Swapped(@, n)]))
                      = OutcomeOf(PlanOn(ledger, r))
  BY DEF RowOrderIrrelevant
<1> DEFINE s == [r EXCEPT !.upload.rows = Swapped(@, n)]
           pi == Exchange(r.upload, n)
<1>1. Reordered(r, s, pi)
  BY SwappedIsReordered
<1>2. Filed(ledger) /\ Sound(ledger)
  BY DEF IngestInv, Filed
<1>3. AllNew(ledger, r.upload)
  BY <1>2, UnpublishedIsNew
<1> HIDE DEF s, pi
<1>4. AllNew(ledger, s.upload)
  <2>1. /\ s.upload.tenant = r.upload.tenant /\ s.upload.id = r.upload.id
        /\ s.upload.bytes = r.upload.bytes /\ DOMAIN s.upload.rows = DOMAIN r.upload.rows
    <3>1. DOMAIN s.upload.rows = DOMAIN r.upload.rows
      <4>1. DOMAIN Swapped(r.upload.rows, n) = DOMAIN r.upload.rows
        BY DEF Swapped
      <4>2. r \in [upload : ReportFile, account : Accounts]
        BY RequestsAssumption DEF Readable
      <4>3. s.upload.rows = Swapped(r.upload.rows, n)
        BY <4>2 DEF s, ReportFile
      <4> QED BY <4>1, <4>3
    <3> QED BY <1>1, <3>1 DEF Reordered
  <2>2. \A k : SourceRecordId(s.upload, k) = SourceRecordId(r.upload, k)
    BY <2>1 DEF SourceRecordId
  <2> QED BY <1>3, <2>1, <2>2 DEF AllNew, Fresh
<1>5. Twins(r, s, pi, PlanOn(ledger, r), PlanOn(ledger, s))
  BY <1>1, <1>2, <1>3, <1>4, PlanTwins
<1>6. OutcomeOf(PlanOn(ledger, r)) = OutcomeOf(PlanOn(ledger, s))
  BY <1>5, TwinOutcomes
<1> QED BY <1>6 DEF s

(* For a file that is new to the ledger and whose events are all different *)
(* the order of its rows changes nothing ingest reports: _resolve_batch    *)
(* comes to the same code, publishes the same events and quarantines as    *)
(* many rows, whatever the ledger holds.                                   *)
THEOREM RowOrderNeverMatters == Spec => []RowOrderIrrelevant
BY IngestInvariant, InvRowOrder, PTL
=============================================================================
