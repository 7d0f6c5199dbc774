----------------------- MODULE CanonicalLedgerProofs -----------------------
(***************************************************************************)
(* Proofs about CanonicalLedger, for every set of tenants, rows, events    *)
(* and offers and every batch length.                                      *)
(***************************************************************************)
EXTENDS CanonicalLedger, LedgerRulesProofs

LEMMA OfferFields ==
  ASSUME NEW o \in Offers
  PROVE  /\ o.by \in Tenants
         /\ o.row \in SourceRow
         /\ o.event \in CanonicalEvent \cup {NoEvent}
BY OffersAssumption DEF Offer

LEMMA AnswerTypes ==
  /\ NoAnswer \in Answers /\ Raised \in Answers
  /\ \A L, row, e : Answer("OK", NewRows(L, row), NewEvents(L, e)) \in Answers
  /\ answer \in Answers =>
       /\ \A o : Counted(o, "NONE") \in Answers
       /\ [answer EXCEPT !.code = "OK"] \in Answers
<1>1. \A L, row, e : NewRows(L, row) \in {0, 1} /\ NewEvents(L, e) \in {0, 1}
  BY DEF NewRows, NewEvents
<1>2. NoAnswer \in Answers /\ Raised \in Answers
  BY DEF NoAnswer, Raised, Answer, Answers
<1>3. \A L, row, e : Answer("OK", NewRows(L, row), NewEvents(L, e)) \in Answers
  BY <1>1 DEF Answer, Answers
<1>4. ASSUME answer \in Answers, NEW o PROVE Counted(o, "NONE") \in Answers
  BY <1>1, <1>4 DEF Counted, Answer, Answers
<1>5. answer \in Answers => [answer EXCEPT !.code = "OK"] \in Answers
  BY DEF Answers
<1> QED BY <1>2, <1>3, <1>4, <1>5

LEMMA InitType == Init => TypeOK
<1> SUFFICES ASSUME Init PROVE TypeOK
  OBVIOUS
<1>1. LedgerType(ledger) /\ LedgerType(backup)
  BY EmptyLedgerType, Zenon DEF Init
<1>2. <<>> \in Seq(Offers)
  OBVIOUS
<1> QED BY <1>1, <1>2, AnswerTypes, Zenon DEF Init, TypeOK

LEMMA NextType == TypeOK /\ [Next]_vars => TypeOK'
<1> SUFFICES ASSUME TypeOK, [Next]_vars PROVE TypeOK'
  OBVIOUS
<1>1. ASSUME NEW o \in Offers, Append_(o) PROVE TypeOK'
  <2>1. LedgerType(ledger')
    BY <1>1, OfferFields, InsertType DEF Append_, TypeOK
  <2>2. answer' \in Answers
    BY <1>1, AnswerTypes, Zenon DEF Append_
  <2> QED BY <2>1, <2>2, <1>1 DEF Append_, TypeOK, batchVars
<1>2. ASSUME NEW o \in Offers, AppendRaises(o) PROVE TypeOK'
  BY <1>2, AnswerTypes DEF AppendRaises, TypeOK, batchVars
<1>3. ASSUME NEW t \in Tenants, NEW items \in BatchesOf(t), BatchBegin(items)
      PROVE  TypeOK'
  <2>1. items \in Seq(Offers)
    <3>1. PICK n \in 0..MaxBatch : items \in [1..n -> {o \in Offers : o.by = t}]
      BY DEF BatchesOf
    <3>2. n \in Nat
      BY MaxBatchAssumption
    <3>3. items \in [1..n -> Offers]
      BY <3>1
    <3> QED BY <3>2, <3>3
  <2> QED BY <2>1, <1>3, AnswerTypes DEF BatchBegin, TypeOK
<1>4. ASSUME BatchItem PROVE TypeOK'
  <2>1. Head(todo) \in Offers /\ Tail(todo) \in Seq(Offers)
    BY <1>4 DEF BatchItem, TypeOK
  <2>2. LedgerType(ledger')
    BY <1>4, <2>1, OfferFields, InsertType DEF BatchItem, TypeOK
  <2>3. answer' \in Answers
    BY <1>4, AnswerTypes, Zenon DEF BatchItem, TypeOK
  <2> QED BY <2>1, <2>2, <2>3, <1>4 DEF BatchItem, TypeOK
<1>5. CASE BatchReturns
  <2>1. answer' \in Answers
    BY <1>5, AnswerTypes, Zenon DEF BatchReturns, TypeOK
  <2> QED BY <2>1, <1>5, EmptyLedgerType DEF BatchReturns, Release, TypeOK
<1>6. CASE BatchRaises
  <2>1. LedgerType(ledger') /\ LedgerType(backup')
    BY <1>6, EmptyLedgerType, Zenon DEF BatchRaises, Release, TypeOK
  <2>2. <<>> \in Seq(Offers)
    OBVIOUS
  <2> QED BY <2>1, <2>2, <1>6, AnswerTypes, Zenon DEF BatchRaises, Release, TypeOK
<1>7. CASE TraceEvent
  <2>1. Events(ledger) \subseteq CanonicalEvent
    BY DEF Events, TypeOK, LedgerType, IsDict
  <2> QED BY <2>1, <1>7 DEF TraceEvent, TypeOK, batchVars
<1>8. CASE TraceSource
  BY <1>8 DEF TraceSource, TypeOK, batchVars
<1>9. CASE UNCHANGED vars
  BY <1>9 DEF TypeOK, vars, batchVars
<1> QED BY <1>1, <1>2, <1>3, <1>4, <1>5, <1>6, <1>7, <1>8, <1>9 DEF Next

(* Every variable of the ledger keeps its type.                            *)
THEOREM TypeCorrect == Spec => []TypeOK
BY InitType, NextType, PTL DEF Spec

-----------------------------------------------------------------------------
(* The inductive invariant.  The properties speak of the ledger and of     *)
(* what readers see; they are preserved because the backup a refused batch *)
(* puts back is sound itself, and readers lose nothing when a batch is     *)
(* released because the ledger extends the backup all through the batch.   *)
LedgerInv ==
  /\ TypeOK
  /\ Sound(ledger)
  /\ Sound(backup)
  /\ inBatch => Extends(ledger, backup)
  /\ traced # NoEvent => traced \in Events(Committed)

LEMMA InitInv == Init => LedgerInv
<1> SUFFICES ASSUME Init PROVE LedgerInv
  OBVIOUS
<1>1. TypeOK
  BY InitType
<1>2. Sound(ledger) /\ Sound(backup)
  BY EmptyLedgerSound, Zenon DEF Init
<1> QED BY <1>1, <1>2, Zenon DEF Init, LedgerInv

(* One step keeps the invariant and takes nothing from the readers.        *)
LEMMA NextInv ==
  ASSUME LedgerInv, [Next]_vars
  PROVE  LedgerInv' /\ Extends(Committed', Committed)
<1> DEFINE Goal == /\ Sound(ledger') /\ Sound(backup')
                   /\ inBatch' => Extends(ledger', backup')
                   /\ traced' # NoEvent => traced' \in Events(Committed')
                   /\ Extends(Committed', Committed)
<1>0. TypeOK'
  BY NextType DEF LedgerInv
<1> SUFFICES Goal
  BY <1>0 DEF LedgerInv
<1>a. ASSUME UNCHANGED traced, Extends(Committed', Committed)
      PROVE  traced' # NoEvent => traced' \in Events(Committed')
  BY <1>a, ExtendsEvents DEF LedgerInv
<1>1. ASSUME NEW o \in Offers, Append_(o) PROVE Goal
  <2>1. Sound(ledger') /\ Extends(ledger', ledger)
    BY <1>1, OfferFields, InsertSound DEF Append_, Accepts, LedgerInv
  <2>2. inBatch = FALSE /\ inBatch' = FALSE /\ UNCHANGED <<backup, traced>>
    BY <1>1, Zenon DEF Append_, batchVars, LedgerInv, TypeOK
  <2>3. Extends(Committed', Committed)
    BY <2>1, <2>2 DEF Committed
  <2> QED BY <2>1, <2>2, <2>3, <1>a DEF LedgerInv
<1>2. ASSUME NEW o \in Offers, AppendRaises(o) PROVE Goal
  <2>1. UNCHANGED <<ledger, inBatch, backup, traced>>
    BY <1>2 DEF AppendRaises, batchVars
  <2>2. Extends(Committed', Committed)
    BY <2>1, ExtendsItself DEF Committed
  <2> QED BY <2>1, <2>2, <1>a DEF LedgerInv
<1>3. ASSUME NEW t \in Tenants, NEW items \in BatchesOf(t), BatchBegin(items)
      PROVE  Goal
  <2>1. ~inBatch /\ inBatch' /\ backup' = ledger /\ UNCHANGED <<ledger, traced>>
    BY <1>3 DEF BatchBegin
  <2>2. Extends(ledger', backup')
    BY <2>1, ExtendsItself
  <2>3. Extends(Committed', Committed)
    BY <2>1, ExtendsItself DEF Committed
  <2> QED BY <2>1, <2>2, <2>3, <1>a DEF LedgerInv
<1>4. CASE BatchItem
  <2>1. Head(todo) \in Offers
    BY <1>4 DEF BatchItem, LedgerInv, TypeOK
  <2>2. Sound(ledger') /\ Extends(ledger', ledger)
    BY <1>4, <2>1, OfferFields, InsertSound DEF BatchItem, Accepts, LedgerInv
  <2>3. inBatch /\ inBatch' /\ UNCHANGED <<backup, traced>>
    BY <1>4, Zenon DEF BatchItem
  <2>4. Extends(ledger', backup')
    BY <2>2, <2>3, ExtendsTransitive DEF LedgerInv
  <2>5. Extends(Committed', Committed)
    BY <2>3, ExtendsItself DEF Committed
  <2> QED BY <2>2, <2>3, <2>4, <2>5, <1>a DEF LedgerInv
<1>5. CASE BatchReturns
  <2>1. /\ inBatch /\ ~inBatch' /\ backup' = EmptyLedger
        /\ UNCHANGED <<ledger, traced>>
    BY <1>5, Zenon DEF BatchReturns, Release
  <2>2. Extends(Committed', Committed)
    BY <2>1 DEF Committed, LedgerInv
  <2> QED BY <2>1, <2>2, <1>a, EmptyLedgerSound DEF LedgerInv
<1>6. CASE BatchRaises
  <2>1. /\ inBatch /\ ~inBatch' /\ backup' = EmptyLedger
        /\ ledger' = backup /\ UNCHANGED traced
    BY <1>6, Zenon DEF BatchRaises, Release
  <2>2. Extends(Committed', Committed)
    BY <2>1, ExtendsItself DEF Committed
  <2> QED BY <2>1, <2>2, <1>a, EmptyLedgerSound DEF LedgerInv
<1>7. CASE TraceEvent
  <2>1. /\ ~inBatch /\ ~inBatch' /\ traced' \in Events(ledger)
        /\ UNCHANGED <<ledger, backup>>
    BY <1>7, Zenon DEF TraceEvent, batchVars
  <2>2. traced' \in Events(Committed') /\ Extends(Committed', Committed)
    BY <2>1, ExtendsItself DEF Committed
  <2> QED BY <2>1, <2>2 DEF LedgerInv
<1>8. CASE TraceSource
  <2>1. /\ ~inBatch /\ ~inBatch' /\ traced' = NoEvent
        /\ UNCHANGED <<ledger, backup>>
    BY <1>8, Zenon DEF TraceSource, batchVars
  <2>2. Extends(Committed', Committed)
    BY <2>1, ExtendsItself DEF Committed
  <2> QED BY <2>1, <2>2 DEF LedgerInv
<1>9. CASE UNCHANGED vars
  <2>1. UNCHANGED <<ledger, inBatch, backup, todo, traced>>
    BY <1>9 DEF vars
  <2>2. Extends(Committed', Committed)
    BY <2>1, ExtendsItself DEF Committed
  <2> QED BY <2>1, <2>2, <1>a DEF LedgerInv
<1> HIDE DEF Goal
<1> QED BY <1>1, <1>2, <1>3, <1>4, <1>5, <1>6, <1>7, <1>8, <1>9 DEF Next

LEMMA InvHolds == Spec => []LedgerInv
<1>1. LedgerInv /\ [Next]_vars => LedgerInv'
  BY NextInv
<1> QED BY InitInv, <1>1, PTL DEF Spec

LEMMA SoundCommitted ==
  ASSUME LedgerInv
  PROVE  Sound(Committed)
BY DEF LedgerInv, Committed

(* The three event indexes of the ledger agree in every reachable state,   *)
(* inside a batch and after its rollback.                                  *)
THEOREM IndexesAlwaysAgree == Spec => []IndexesAgree
<1>1. LedgerInv => IndexesAgree
  BY SoundCommitted DEF LedgerInv, Sound, IndexesAgree
<1> QED BY InvHolds, <1>1, PTL

(* Every event has its VALID row and every locator a row.                  *)
THEOREM AlwaysTraceable == Spec => []Traceable
<1>1. LedgerInv => Traceable
  BY SoundCommitted DEF LedgerInv, Sound, Traceable
<1> QED BY InvHolds, <1>1, PTL

(* The revisions of every business key form one chain.                     *)
THEOREM AlwaysChained == Spec => []RevisionsFormChains
<1>1. LedgerInv => RevisionsFormChains
  BY SoundCommitted DEF LedgerInv, Sound, RevisionsFormChains
<1> QED BY InvHolds, <1>1, PTL

(* Active returns stay within the sale they reverse, in quantity and in    *)
(* amount, whatever returns and revisions _validate_reversal has let in    *)
(* before them, inside a batch and after its rollback.                     *)
THEOREM ReversalsStayWithin == Spec => []ReversalsWithinOriginal
<1>1. LedgerInv => ReversalsWithinOriginal
  BY SoundCommitted DEF LedgerInv, Sound, ReversalsWithinOriginal
<1> QED BY InvHolds, <1>1, PTL

(* trace_event finds the row of the event it has read, in spite of the     *)
(* lock being free between its two reads.                                  *)
THEOREM TraceCompletes == Spec => []TracedSourceStays
<1>1. LedgerInv => TracedSourceStays
  BY SoundCommitted DEF LedgerInv, Sound, TraceableIn, TracedSourceStays
<1> QED BY InvHolds, <1>1, PTL

(* No call and no rollback takes or changes what a reader has seen.        *)
THEOREM NothingSeenIsLost == Spec => AppendOnly
<1>1. LedgerInv /\ [Next]_vars => Extends(Committed', Committed)
  BY NextInv
<1> QED BY InvHolds, <1>1, PTL DEF Spec, AppendOnly

-----------------------------------------------------------------------------
(* The refinement.  While a batch runs, some set B of submissions has been *)
(* applied to the backup, and the ledger is what publishing B would leave. *)
Applied(B) ==
  /\ IsFiniteSet(B) /\ Cardinality(B) + Len(todo) <= MaxBatch
  /\ \E t \in Tenants : /\ \A o \in B : o.by = t /\ o.row.tenant = t
                        /\ \A i \in 1 .. Len(todo) : todo[i].by = t
  /\ Rows(ledger) \subseteq Rows(backup) \cup {o.row : o \in B}
  /\ \A o \in B : \E r \in Rows(ledger) : Fingerprint(r) = Fingerprint(o.row)
  /\ Events(ledger) = Events(backup) \cup ({o.event : o \in B} \ {NoEvent})
  /\ IsFiniteSet(Rows(ledger) \ Rows(backup))
  /\ answer = Answer("NONE", Cardinality(Rows(ledger) \ Rows(backup)),
                             Cardinality(Events(ledger) \ Events(backup)))

BatchInv == inBatch => \E B \in SUBSET Offers : Applied(B)

(* The contract states its rules with the operators of LedgerRules.        *)
LEMMA ContractCardinality == \A S : Contract!Cardinality(S) = Cardinality(S)
BY Zenon DEF Contract!Cardinality, Cardinality

LEMMA ContractRules ==
  ASSUME NEW L
  PROVE  /\ Contract!Rows(L) = Rows(L) /\ Contract!Events(L) = Events(L)
         /\ IndexesAgreeIn(L) => Contract!IndexesAgreeIn(L)
         /\ TraceableIn(L) => Contract!TraceableIn(L)
         /\ ChainedIn(L) => Contract!ChainedIn(L)
         /\ WithinOriginalIn(L) => Contract!WithinOriginalIn(L)
<1>1. Contract!Rows(L) = Rows(L) /\ Contract!Events(L) = Events(L)
  BY DEF Contract!Rows, Contract!Events, Rows, Events
<1>2. IndexesAgreeIn(L) => Contract!IndexesAgreeIn(L)
  BY DEF Contract!IndexesAgreeIn, Contract!EventKey, Contract!IdemKey, Contract!RevisionKey,
         IndexesAgreeIn, EventKey, IdemKey, RevisionKey
<1>3. TraceableIn(L) => Contract!TraceableIn(L)
  BY DEF Contract!TraceableIn, Contract!SourceKey, Contract!Events, Contract!LineageHolds,
         Contract!IsValid, TraceableIn, SourceKey, Events, LineageHolds, IsValid
<1>4. ChainedIn(L) => Contract!ChainedIn(L)
  BY DEF Contract!ChainedIn, Contract!Events, ChainedIn, Events
<1>5. WithinOriginalIn(L) => Contract!WithinOriginalIn(L)
  <2>1. /\ Contract!Sale = Sale /\ Contract!Return = Return
        /\ \A S : /\ Contract!TotalQuantity(S) = TotalQuantity(S)
                  /\ Contract!TotalAmount(S) = TotalAmount(S)
    BY ContractCardinality, Zenon
    DEF Contract!Sale, Contract!Return, Contract!TotalQuantity, Contract!TotalAmount,
        Sale, Return, TotalQuantity, TotalAmount
  <2> SUFFICES ASSUME WithinOriginalIn(L), NEW s \in Contract!Events(L)
               PROVE  LET active == {x \in Contract!Events(L) :
                                       /\ x.tenant = s.tenant
                                       /\ x.type = Contract!Return
                                       /\ x.reversalOf = s.id
                                       /\ ~\E y \in Contract!Events(L) :
                                             y.tenant = x.tenant /\ y.supersedes = x.id}
                      IN active # {} =>
                           /\ s.type = Contract!Sale
                           /\ \A x \in active : x.good = s.good /\ x.account = s.account
                           /\ Contract!TotalQuantity(active) <= s.quantity
                           /\ Contract!TotalAmount(active) <= s.amount
    BY DEF Contract!WithinOriginalIn
  <2>2. ActiveIn(L, s) = {x \in Contract!Events(L) :
                            /\ x.tenant = s.tenant
                            /\ x.type = Contract!Return
                            /\ x.reversalOf = s.id
                            /\ ~\E y \in Contract!Events(L) :
                                  y.tenant = x.tenant /\ y.supersedes = x.id}
    BY <1>1, <2>1 DEF ActiveIn
  <2>3. ActiveIn(L, s) # {} => WithinIn(ActiveIn(L, s), s)
    BY <1>1, WithinOriginalParts
  <2> QED BY <2>1, <2>2, <2>3, Zenon DEF WithinIn
<1> QED BY <1>1, <1>2, <1>3, <1>4, <1>5

(* The dictionaries of a sound ledger are determined by its rows and       *)
(* events: each key is computed from the value it leads to.                *)
LEMMA LedgerFromSets ==
  ASSUME NEW L, Sound(L)
  PROVE  Contract!AsLedger(Rows(L), Events(L)) = [L EXCEPT !.locator = <<>>]
<1> DEFINE R == Rows(L)
           E == Events(L)
<1>1. /\ \A r \in R : SourceKey(r) \in DOMAIN L.source /\ L.source[SourceKey(r)] = r
      /\ \A k \in DOMAIN L.source : L.source[k] \in R /\ SourceKey(L.source[k]) = k
  BY DEF Sound, TraceableIn, Rows
<1>2. /\ \A e \in E : /\ EventKey(e) \in DOMAIN L.event /\ L.event[EventKey(e)] = e
                     /\ IdemKey(e) \in DOMAIN L.idem /\ L.idem[IdemKey(e)] = e
                     /\ RevisionKey(e) \in DOMAIN L.rev /\ L.rev[RevisionKey(e)] = e
      /\ \A k \in DOMAIN L.event : L.event[k] \in E /\ EventKey(L.event[k]) = k
      /\ \A k \in DOMAIN L.idem : L.idem[k] \in E /\ IdemKey(L.idem[k]) = k
      /\ \A k \in DOMAIN L.rev : L.rev[k] \in E /\ RevisionKey(L.rev[k]) = k
  BY DEF Sound, IndexesAgreeIn, Events
<1> HIDE DEF R, E
<1>3. [k \in {SourceKey(r) : r \in R} |-> CHOOSE r \in R : SourceKey(r) = k] = L.source
  <2>1. \A r \in R : SourceKey(r) \in DOMAIN L.source /\ L.source[SourceKey(r)] = r
    BY <1>1, <1>2
  <2>2. \A k \in DOMAIN L.source : L.source[k] \in R /\ SourceKey(L.source[k]) = k
    BY <1>1, <1>2
  <2>3. {SourceKey(r) : r \in R} = DOMAIN L.source
    BY <2>1, <2>2
  <2>4. \A k \in DOMAIN L.source : (CHOOSE r \in R : SourceKey(r) = k) = L.source[k]
    BY <2>1, <2>2
  <2>5. L.source = [k \in DOMAIN L.source |-> L.source[k]]
    BY DEF Sound, LedgerType, IsDict
  <2> QED BY <2>3, <2>4, <2>5
<1>4. [k \in {EventKey(e) : e \in E} |-> CHOOSE e \in E : EventKey(e) = k] = L.event
  <2>1. \A e \in E : EventKey(e) \in DOMAIN L.event /\ L.event[EventKey(e)] = e
    BY <1>1, <1>2
  <2>2. \A k \in DOMAIN L.event : L.event[k] \in E /\ EventKey(L.event[k]) = k
    BY <1>1, <1>2
  <2>3. {EventKey(e) : e \in E} = DOMAIN L.event
    BY <2>1, <2>2
  <2>4. \A k \in DOMAIN L.event : (CHOOSE e \in E : EventKey(e) = k) = L.event[k]
    BY <2>1, <2>2
  <2>5. L.event = [k \in DOMAIN L.event |-> L.event[k]]
    BY DEF Sound, LedgerType, IsDict
  <2> QED BY <2>3, <2>4, <2>5
<1>5. [k \in {IdemKey(e) : e \in E} |-> CHOOSE e \in E : IdemKey(e) = k] = L.idem
  <2>1. \A e \in E : IdemKey(e) \in DOMAIN L.idem /\ L.idem[IdemKey(e)] = e
    BY <1>1, <1>2
  <2>2. \A k \in DOMAIN L.idem : L.idem[k] \in E /\ IdemKey(L.idem[k]) = k
    BY <1>1, <1>2
  <2>3. {IdemKey(e) : e \in E} = DOMAIN L.idem
    BY <2>1, <2>2
  <2>4. \A k \in DOMAIN L.idem : (CHOOSE e \in E : IdemKey(e) = k) = L.idem[k]
    BY <2>1, <2>2
  <2>5. L.idem = [k \in DOMAIN L.idem |-> L.idem[k]]
    BY DEF Sound, LedgerType, IsDict
  <2> QED BY <2>3, <2>4, <2>5
<1>6. [k \in {RevisionKey(e) : e \in E} |-> CHOOSE e \in E : RevisionKey(e) = k] = L.rev
  <2>1. \A e \in E : RevisionKey(e) \in DOMAIN L.rev /\ L.rev[RevisionKey(e)] = e
    BY <1>1, <1>2
  <2>2. \A k \in DOMAIN L.rev : L.rev[k] \in E /\ RevisionKey(L.rev[k]) = k
    BY <1>1, <1>2
  <2>3. {RevisionKey(e) : e \in E} = DOMAIN L.rev
    BY <2>1, <2>2
  <2>4. \A k \in DOMAIN L.rev : (CHOOSE e \in E : RevisionKey(e) = k) = L.rev[k]
    BY <2>1, <2>2
  <2>5. L.rev = [k \in DOMAIN L.rev |-> L.rev[k]]
    BY DEF Sound, LedgerType, IsDict
  <2> QED BY <2>3, <2>4, <2>5
<1>7. [L EXCEPT !.locator = <<>>] = [source |-> L.source, locator |-> <<>>, event |-> L.event,
                                     idem |-> L.idem, rev |-> L.rev]
  BY DEF Sound, LedgerType
<1>8. Contract!AsLedger(R, E) = [source |-> L.source, locator |-> <<>>, event |-> L.event,
                                 idem |-> L.idem, rev |-> L.rev]
  BY <1>3, <1>4, <1>5, <1>6, Zenon
  DEF Contract!AsLedger, Contract!SourceKey, Contract!EventKey, Contract!IdemKey,
      Contract!RevisionKey, SourceKey, EventKey, IdemKey, RevisionKey
<1> QED BY <1>7, <1>8 DEF R, E

(* Hence the rows and events of a sound ledger are a history.              *)
LEMMA SoundIsHistory ==
  ASSUME NEW L, Sound(L)
  PROVE  Contract!History(Rows(L), Events(L))
<1> DEFINE A == [L EXCEPT !.locator = <<>>]
<1>1. /\ A.source = L.source /\ A.locator = <<>> /\ A.event = L.event
      /\ A.idem = L.idem /\ A.rev = L.rev
  BY DEF Sound, LedgerType
<1>2. DOMAIN <<>> = {}
  OBVIOUS
<1>3. Contract!AsLedger(Rows(L), Events(L)) = A
  BY LedgerFromSets
<1> HIDE DEF A
<1>4. Rows(A) = Rows(L) /\ Events(A) = Events(L)
  BY <1>1 DEF Rows, Events
<1>5. IndexesAgreeIn(A)
  BY <1>1 DEF Sound, IndexesAgreeIn
<1>6. TraceableIn(A)
  BY <1>1, <1>2, <1>4 DEF Sound, TraceableIn
<1>7. ChainedIn(A)
  BY <1>1, <1>4 DEF Sound, ChainedIn
<1>8. WithinOriginalIn(A)
  <2>1. \A s : ActiveIn(A, s) = ActiveIn(L, s)
    BY <1>4 DEF ActiveIn
  <2> QED BY <1>4, <2>1, WithinOriginalParts DEF Sound
<1> QED BY <1>3, <1>4, <1>5, <1>6, <1>7, <1>8, ContractRules, Zenon DEF Contract!History

LEMMA BatchItemApplied ==
  ASSUME LedgerInv, NEW B \in SUBSET Offers, Applied(B), BatchItem
  PROVE  \E D \in SUBSET Offers : Applied(D)'
<1>1. PICK o \in Offers : o = Head(todo)
  BY DEF BatchItem, LedgerInv, TypeOK
<1>2. PICK D \in SUBSET Offers : D = B \cup {o}
  OBVIOUS
<1>3. /\ Verdict(ledger, o.by, o.row, o.event) = "OK"
      /\ ledger' = Insert(ledger, o.row, o.event)
      /\ todo' = Tail(todo) /\ backup' = backup /\ todo # <<>>
      /\ answer' = Answer("NONE", answer.rows + NewRows(ledger, o.row),
                                  answer.events + NewEvents(ledger, o.event))
  BY <1>1 DEF BatchItem, Accepts, Counted
<1>4. Sound(ledger) /\ Extends(ledger, backup) /\ IsFiniteSet(Events(ledger)) /\ todo \in Seq(Offers)
  BY DEF LedgerInv, TypeOK, Sound, BatchItem
<1>5. /\ o.row.tenant = o.by
      /\ \/ /\ NewRows(ledger, o.row) = 1 /\ o.row \notin Rows(ledger)
            /\ Rows(ledger') = Rows(ledger) \cup {o.row}
         \/ NewRows(ledger, o.row) = 0 /\ Rows(ledger') = Rows(ledger)
      /\ \E r \in Rows(ledger') : Fingerprint(r) = Fingerprint(o.row)
      /\ \/ /\ NewEvents(ledger, o.event) = 1 /\ o.event \notin Events(ledger) /\ o.event # NoEvent
            /\ Events(ledger') = Events(ledger) \cup {o.event}
         \/ /\ NewEvents(ledger, o.event) = 0 /\ o.event \in Events(ledger) \cup {NoEvent}
            /\ Events(ledger') = Events(ledger)
  BY <1>3, <1>4, InsertAdds
<1>6. Rows(backup) \subseteq Rows(ledger) /\ Events(backup) \subseteq Events(ledger)
  BY <1>4 DEF Extends, Rows, Events
<1>7. IsFiniteSet(D) /\ Cardinality(D) + Len(todo') <= MaxBatch
  <2>1. IsFiniteSet(B) /\ Cardinality(B) + Len(todo) <= MaxBatch /\ Cardinality(B) \in Nat
    BY FS_CardinalityType DEF Applied
  <2>2. IsFiniteSet(D) /\ (Cardinality(D) = Cardinality(B) \/ Cardinality(D) = Cardinality(B) + 1)
    BY <1>2, <2>1, FS_AddElement
  <2>3. Len(todo') = Len(todo) - 1 /\ Len(todo) \in Nat
    BY <1>3, <1>4
  <2> QED BY <2>1, <2>2, <2>3, MaxBatchAssumption
<1>8. \E t \in Tenants : /\ \A x \in D : x.by = t /\ x.row.tenant = t
                         /\ \A i \in 1 .. Len(todo') : todo'[i].by = t
  <2>1. PICK t \in Tenants : /\ \A x \in B : x.by = t /\ x.row.tenant = t
                             /\ \A i \in 1 .. Len(todo) : todo[i].by = t
    BY DEF Applied
  <2>2. o.by = t
    BY <1>1, <1>3, <1>4, <2>1
  <2>3. \A i \in 1 .. Len(todo') : todo'[i].by = t
    BY <1>3, <1>4, <2>1
  <2> QED BY <1>2, <1>5, <2>1, <2>2, <2>3
<1>9. Rows(ledger') \subseteq Rows(backup) \cup {x.row : x \in D}
  BY <1>2, <1>5 DEF Applied
<1>10. \A x \in D : \E r \in Rows(ledger') : Fingerprint(r) = Fingerprint(x.row)
  <2>1. \A x \in B : \E r \in Rows(ledger) : Fingerprint(r) = Fingerprint(x.row)
    BY DEF Applied
  <2>2. Rows(ledger) \subseteq Rows(ledger')
    BY <1>5
  <2> QED BY <1>2, <1>5, <2>1, <2>2
<1>11. Events(ledger') = Events(backup) \cup ({x.event : x \in D} \ {NoEvent})
  <2>1. Events(ledger) = Events(backup) \cup ({x.event : x \in B} \ {NoEvent})
    BY DEF Applied
  <2>2. {x.event : x \in D} = {x.event : x \in B} \cup {o.event}
    BY <1>2
  <2>3. NoEvent \notin Events(ledger)
    BY <1>4, NoEventAssumption DEF Sound, LedgerType, IsDict, Events
  <2> QED BY <1>5, <2>1, <2>2, <2>3
<1>12. /\ IsFiniteSet(Rows(ledger') \ Rows(backup))
       /\ Cardinality(Rows(ledger') \ Rows(backup))
            = Cardinality(Rows(ledger) \ Rows(backup)) + NewRows(ledger, o.row)
  <2>1. IsFiniteSet(Rows(ledger) \ Rows(backup)) /\ Cardinality(Rows(ledger) \ Rows(backup)) \in Nat
    BY FS_CardinalityType DEF Applied
  <2>2. CASE NewRows(ledger, o.row) = 0 /\ Rows(ledger') = Rows(ledger)
    BY <2>1, <2>2
  <2>3. CASE NewRows(ledger, o.row) = 1 /\ o.row \notin Rows(ledger)
             /\ Rows(ledger') = Rows(ledger) \cup {o.row}
    <3>1. /\ Rows(ledger') \ Rows(backup) = (Rows(ledger) \ Rows(backup)) \cup {o.row}
          /\ o.row \notin Rows(ledger) \ Rows(backup)
      BY <1>6, <2>3
    <3> QED BY <2>1, <2>3, <3>1, FS_AddElement
  <2> QED BY <1>5, <2>2, <2>3
<1>13. Cardinality(Events(ledger') \ Events(backup))
            = Cardinality(Events(ledger) \ Events(backup)) + NewEvents(ledger, o.event)
  <2>1. IsFiniteSet(Events(ledger) \ Events(backup))
    BY <1>4, FS_Subset
  <2>2. Cardinality(Events(ledger) \ Events(backup)) \in Nat
    BY <2>1, FS_CardinalityType
  <2>3. CASE NewEvents(ledger, o.event) = 0 /\ Events(ledger') = Events(ledger)
    BY <2>2, <2>3
  <2>4. CASE NewEvents(ledger, o.event) = 1 /\ o.event \notin Events(ledger)
             /\ Events(ledger') = Events(ledger) \cup {o.event}
    <3>1. /\ Events(ledger') \ Events(backup) = (Events(ledger) \ Events(backup)) \cup {o.event}
          /\ o.event \notin Events(ledger) \ Events(backup)
      BY <1>6, <2>4
    <3> QED BY <2>1, <2>4, <3>1, FS_AddElement
  <2> QED BY <1>5, <2>3, <2>4
<1>14. answer' = Answer("NONE", Cardinality(Rows(ledger') \ Rows(backup)),
                                Cardinality(Events(ledger') \ Events(backup)))
  <2>1. answer = Answer("NONE", Cardinality(Rows(ledger) \ Rows(backup)),
                                Cardinality(Events(ledger) \ Events(backup)))
    BY DEF Applied
  <2> QED BY <1>3, <1>12, <1>13, <2>1 DEF Answer
<1> QED BY <1>3, <1>7, <1>8, <1>9, <1>10, <1>11, <1>12, <1>14 DEF Applied

LEMMA BatchBeginApplied ==
  ASSUME LedgerInv, NEW t \in Tenants, NEW items \in BatchesOf(t), BatchBegin(items)
  PROVE  \E D \in SUBSET Offers : Applied(D)'
<1>1. PICK n \in 0 .. MaxBatch : items \in [1 .. n -> {o \in Offers : o.by = t}]
  BY DEF BatchesOf
<1>2. n \in Nat /\ n <= MaxBatch /\ Len(items) = n
  BY <1>1, MaxBatchAssumption
<1>3. ledger' = ledger /\ backup' = ledger /\ todo' = items /\ answer' = Answer("NONE", 0, 0)
  BY DEF BatchBegin, NoAnswer
<1>4. IsFiniteSet({}) /\ Cardinality({}) = 0
  BY FS_EmptySet
<1>5. /\ Rows(ledger') \ Rows(backup') = {}
      /\ Events(ledger') \ Events(backup') = {}
  BY <1>3
<1>6. PICK D \in SUBSET Offers : D = {}
  OBVIOUS
<1>7. \A i \in 1 .. Len(items) : items[i].by = t
  BY <1>1, <1>2
<1>8. Cardinality(D) + Len(todo') <= MaxBatch
  BY <1>2, <1>3, <1>4, <1>6, MaxBatchAssumption
<1>9. Events(ledger') = Events(backup') \cup ({o.event : o \in D} \ {NoEvent})
  BY <1>3, <1>6
<1>10. Rows(ledger') \subseteq Rows(backup') \cup {o.row : o \in D}
  BY <1>3
<1>11. IsFiniteSet(D) /\ IsFiniteSet(Rows(ledger') \ Rows(backup'))
       /\ answer' = Answer("NONE", Cardinality(Rows(ledger') \ Rows(backup')),
                                   Cardinality(Events(ledger') \ Events(backup')))
  BY <1>3, <1>4, <1>5, <1>6
<1>12. /\ \A o \in D : o.by = t /\ o.row.tenant = t
       /\ \A i \in 1 .. Len(todo') : todo'[i].by = t
       /\ \A o \in D : \E r \in Rows(ledger') : Fingerprint(r) = Fingerprint(o.row)
  BY <1>3, <1>6, <1>7
<1> QED BY <1>8, <1>9, <1>10, <1>11, <1>12, Zenon DEF Applied

LEMMA BatchNext ==
  ASSUME LedgerInv, BatchInv, [Next]_vars
  PROVE  BatchInv'
<1>1. ASSUME NEW o \in Offers, Append_(o) \/ AppendRaises(o) PROVE BatchInv'
  BY <1>1, Zenon DEF Append_, AppendRaises, batchVars, BatchInv
<1>2. ASSUME NEW t \in Tenants, NEW items \in BatchesOf(t), BatchBegin(items)
      PROVE  BatchInv'
  BY <1>2, BatchBeginApplied DEF BatchInv
<1>3. CASE BatchItem
  BY <1>3, BatchItemApplied DEF BatchInv, BatchItem
<1>4. CASE BatchReturns \/ BatchRaises
  BY <1>4, Zenon DEF BatchReturns, BatchRaises, Release, BatchInv
<1>5. CASE TraceEvent \/ TraceSource
  BY <1>5, Zenon DEF TraceEvent, TraceSource, batchVars, BatchInv
<1>6. CASE UNCHANGED vars
  BY <1>6 DEF vars, BatchInv, Applied
<1> QED BY <1>1, <1>2, <1>3, <1>4, <1>5, <1>6 DEF Next

(* A set of at most MaxBatch submissions is a batch of the contract.       *)
LEMMA IsBatch ==
  ASSUME NEW B \in SUBSET Offers, IsFiniteSet(B), Cardinality(B) <= MaxBatch
  PROVE  B \in Contract!Batches
<1>1. Cardinality(B) \in 0 .. MaxBatch
  BY FS_CardinalityType, MaxBatchAssumption
<1>2. B \in Contract!kSubset(Cardinality(B), Offers)
  BY ContractCardinality DEF Contract!kSubset
<1> QED BY <1>1, <1>2 DEF Contract!Batches

(* What the refinement mapping gives the contract for its variables.       *)
ContractAnswer == IF inBatch THEN NoAnswer ELSE answer
Kept == [Contract!Next]_<<Rows(Committed), Events(Committed), ContractAnswer>>

(* A step that inserts the submissions of B and says so publishes B.       *)
LEMMA Publishes ==
  ASSUME NEW B \in SUBSET Offers, IsFiniteSet(B), Cardinality(B) <= MaxBatch,
         \E t \in Tenants : \A o \in B : o.by = t /\ o.row.tenant = t,
         Rows(Committed) \subseteq Rows(Committed'),
         Rows(Committed') \subseteq Rows(Committed) \cup {o.row : o \in B},
         \A o \in B : \E r \in Rows(Committed') : Fingerprint(r) = Fingerprint(o.row),
         Events(Committed') = Events(Committed) \cup ({o.event : o \in B} \ {NoEvent}),
         Sound(Committed'), ~inBatch',
         answer' = Answer("OK", Cardinality(Rows(Committed') \ Rows(Committed)),
                                Cardinality(Events(Committed') \ Events(Committed)))
  PROVE  Kept
<1>1. B \in Contract!Batches
  BY IsBatch
<1>2. Contract!History(Rows(Committed'), Events(Committed'))
  BY SoundIsHistory
<1>3. Contract!Answered("OK", Contract!Cardinality(Rows(Committed') \ Rows(Committed)),
                        Contract!Cardinality(Events(Committed') \ Events(Committed)))
  BY ContractCardinality DEF Contract!Answered, Answer
<1>4. \A o \in B : \E r \in Rows(Committed') :
        Contract!Fingerprint(r) = Contract!Fingerprint(o.row)
  BY DEF Contract!Fingerprint, Fingerprint
<1>5. Contract!Publish(B)
  BY <1>2, <1>3, <1>4 DEF Contract!Publish
<1> QED BY <1>1, <1>5 DEF Kept, Contract!Next

LEMMA Refines ==
  ASSUME LedgerInv, BatchInv, [Next]_vars
  PROVE  Kept
<1>1. ASSUME NEW o \in Offers, Append_(o) PROVE Kept
  <2>1. /\ ~inBatch /\ ~inBatch' /\ ledger' = Insert(ledger, o.row, o.event)
        /\ Verdict(ledger, o.by, o.row, o.event) = "OK"
        /\ answer' = Answer("OK", NewRows(ledger, o.row), NewEvents(ledger, o.event))
    BY <1>1, Zenon DEF Append_, Accepts, batchVars
  <2>2. Sound(ledger) /\ Sound(ledger')
    BY <2>1, OfferFields, InsertSound DEF LedgerInv
  <2>3. Committed = ledger /\ Committed' = ledger'
    BY <2>1 DEF Committed
  <2>4. /\ o.row.tenant = o.by
        /\ \/ /\ NewRows(ledger, o.row) = 1 /\ o.row \notin Rows(ledger)
              /\ Rows(ledger') = Rows(ledger) \cup {o.row}
           \/ NewRows(ledger, o.row) = 0 /\ Rows(ledger') = Rows(ledger)
        /\ \E r \in Rows(ledger') : Fingerprint(r) = Fingerprint(o.row)
        /\ \/ /\ NewEvents(ledger, o.event) = 1 /\ o.event \notin Events(ledger) /\ o.event # NoEvent
              /\ Events(ledger') = Events(ledger) \cup {o.event}
           \/ /\ NewEvents(ledger, o.event) = 0 /\ o.event \in Events(ledger) \cup {NoEvent}
              /\ Events(ledger') = Events(ledger)
    BY <2>1, <2>2, InsertAdds
  <2>5. PICK B \in SUBSET Offers : B = {o}
    OBVIOUS
  <2>6. IsFiniteSet(B) /\ Cardinality(B) <= MaxBatch
    <3>1. IsFiniteSet({o}) /\ Cardinality({o}) = 1
      BY FS_Singleton
    <3> QED BY <2>5, <3>1, MaxBatchAssumption
  <2>7. \E t \in Tenants : \A x \in B : x.by = t /\ x.row.tenant = t
    BY <2>4, <2>5, OfferFields
  <2>8. /\ Rows(ledger) \subseteq Rows(ledger')
        /\ Rows(ledger') \subseteq Rows(ledger) \cup {x.row : x \in B}
        /\ \A x \in B : \E r \in Rows(ledger') : Fingerprint(r) = Fingerprint(x.row)
    BY <2>4, <2>5
  <2>9. Events(ledger') = Events(ledger) \cup ({x.event : x \in B} \ {NoEvent})
    <3>1. {x.event : x \in B} = {o.event}
      BY <2>5
    <3>2. NoEvent \notin Events(ledger)
      BY <2>2, NoEventAssumption DEF Sound, LedgerType, IsDict, Events
    <3> QED BY <2>4, <3>1, <3>2
  <2>10. Cardinality(Rows(ledger') \ Rows(ledger)) = NewRows(ledger, o.row)
    <3>1. \/ Rows(ledger') \ Rows(ledger) = {o.row} /\ NewRows(ledger, o.row) = 1
          \/ Rows(ledger') \ Rows(ledger) = {} /\ NewRows(ledger, o.row) = 0
      BY <2>4
    <3> QED BY <3>1, FS_Singleton, FS_EmptySet
  <2>11. Cardinality(Events(ledger') \ Events(ledger)) = NewEvents(ledger, o.event)
    <3>1. \/ Events(ledger') \ Events(ledger) = {o.event} /\ NewEvents(ledger, o.event) = 1
          \/ Events(ledger') \ Events(ledger) = {} /\ NewEvents(ledger, o.event) = 0
      BY <2>4
    <3> QED BY <3>1, FS_Singleton, FS_EmptySet
  <2>12. answer' = Answer("OK", Cardinality(Rows(ledger') \ Rows(ledger)),
                                Cardinality(Events(ledger') \ Events(ledger)))
    BY <2>1, <2>10, <2>11
  <2> QED BY <2>1, <2>2, <2>3, <2>6, <2>7, <2>8, <2>9, <2>12, Publishes
<1>2. ASSUME NEW o \in Offers, AppendRaises(o) PROVE Kept
  <2>1. ~inBatch /\ ~inBatch' /\ ledger' = ledger /\ answer' = Raised
    BY <1>2, Zenon DEF AppendRaises, batchVars
  <2>2. Contract!Refuse
    BY <2>1 DEF Contract!Refuse, Contract!Answered, Committed, Raised, Answer
  <2> QED BY <2>2 DEF Kept, Contract!Next
<1>3. ASSUME NEW t \in Tenants, NEW items \in BatchesOf(t), BatchBegin(items) PROVE Kept
  <2>1. ~inBatch /\ inBatch' /\ ledger' = ledger /\ backup' = ledger
    BY <1>3, Zenon DEF BatchBegin
  <2>2. Contract!Begin
    BY <2>1 DEF Contract!Begin, Contract!Answered, Committed, NoAnswer, Answer
  <2> QED BY <2>2 DEF Kept, Contract!Next
<1>4. CASE BatchItem
  <2>1. inBatch /\ inBatch' /\ backup' = backup
    BY <1>4, Zenon DEF BatchItem
  <2> QED BY <2>1 DEF Kept, Committed, ContractAnswer, NoAnswer, Answer
<1>5. CASE BatchReturns
  <2>1. /\ inBatch /\ ~inBatch' /\ ledger' = ledger /\ todo = <<>>
        /\ answer' = [answer EXCEPT !.code = "OK"]
    BY <1>5, Zenon DEF BatchReturns, Release
  <2>2. PICK B \in SUBSET Offers : Applied(B)
    BY <2>1 DEF BatchInv
  <2>3. Committed = backup /\ Committed' = ledger'
    BY <2>1 DEF Committed
  <2>4. Sound(Committed') /\ Rows(backup) \subseteq Rows(ledger)
    BY <2>1, <2>3 DEF LedgerInv, Extends, Rows
  <2>5. Cardinality(B) <= MaxBatch
    <3>1. Cardinality(B) \in Nat /\ Cardinality(B) + Len(todo) <= MaxBatch
      BY <2>2, FS_CardinalityType DEF Applied
    <3> QED BY <2>1, <3>1, MaxBatchAssumption
  <2>6. answer' = Answer("OK", Cardinality(Rows(ledger) \ Rows(backup)),
                               Cardinality(Events(ledger) \ Events(backup)))
    BY <2>1, <2>2 DEF Applied, Answer
  <2>7. /\ IsFiniteSet(B) /\ \E t \in Tenants : \A o \in B : o.by = t /\ o.row.tenant = t
        /\ Rows(ledger) \subseteq Rows(backup) \cup {o.row : o \in B}
        /\ \A o \in B : \E r \in Rows(ledger) : Fingerprint(r) = Fingerprint(o.row)
        /\ Events(ledger) = Events(backup) \cup ({o.event : o \in B} \ {NoEvent})
    BY <2>2 DEF Applied
  <2> QED BY <2>1, <2>3, <2>4, <2>5, <2>6, <2>7, Publishes
<1>6. CASE BatchRaises
  <2>1. inBatch /\ ~inBatch' /\ ledger' = backup /\ answer' = Raised
    BY <1>6, Zenon DEF BatchRaises, Release
  <2>2. Contract!Refuse
    BY <2>1 DEF Contract!Refuse, Contract!Answered, Committed, Raised, Answer
  <2> QED BY <2>2 DEF Kept, Contract!Next
<1>7. CASE TraceEvent \/ TraceSource \/ UNCHANGED vars
  <2>1. UNCHANGED <<ledger, inBatch, backup, answer>>
    BY <1>7, Zenon DEF TraceEvent, TraceSource, batchVars, vars
  <2> QED BY <2>1 DEF Kept, Committed, ContractAnswer
<1> QED BY <1>1, <1>2, <1>3, <1>4, <1>5, <1>6, <1>7 DEF Next

(* The ledger implements LedgerContract: batches become visible whole or   *)
(* not at all, in spite of being applied item by item and rolled back, and *)
(* what a call answers is what it has inserted.                            *)
THEOREM LedgerImplementsContract == Spec => ImplementsContract
<1>1. Init => LedgerInv /\ BatchInv /\ Contract!Init
  <2> SUFFICES ASSUME Init PROVE LedgerInv /\ BatchInv /\ Contract!Init
    OBVIOUS
  <2>1. LedgerInv
    BY InitInv
  <2>2. BatchInv /\ Committed = EmptyLedger /\ answer = NoAnswer
    BY Zenon DEF Init, BatchInv, Committed
  <2>3. Rows(EmptyLedger) = {} /\ Events(EmptyLedger) = {}
    BY DEF Rows, Events, EmptyLedger
  <2>4. Contract!Init
    BY <2>2, <2>3 DEF Contract!Init, Init, NoAnswer, Answer
  <2> QED BY <2>1, <2>2, <2>4
<1>2. LedgerInv /\ BatchInv /\ [Next]_vars => LedgerInv' /\ BatchInv' /\ Kept
  BY NextInv, BatchNext, Refines
<1>3. Kept <=> [Contract!Next]_(Contract!contractVars)
  BY DEF Kept, ContractAnswer, Contract!contractVars
<1> QED BY <1>1, <1>2, <1>3, PTL DEF Spec, ImplementsContract, Contract!Spec
=============================================================================
