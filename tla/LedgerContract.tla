--------------------------- MODULE LedgerContract ---------------------------
(***************************************************************************)
(* What the canonical ledger promises its users, without dictionaries,     *)
(* locks or rollback: a set of rows and a set of events that grow by whole *)
(* batches, each leaving a history in which every event is traceable,      *)
(* chained to its earlier revisions and within the sale it reverses.  What *)
(* a call answers tells what it has inserted: nothing if it raises.        *)
(***************************************************************************)
EXTENDS LedgerRules

CONSTANTS
  Offers,        \* the (row, event) pairs callers submit: [by, row, event]
  MaxBatch       \* bound: longest batch

VARIABLES rows, events, answer

contractVars == <<rows, events, answer>>

Batches == UNION {kSubset(n, Offers) : n \in 0..MaxBatch}

(* The ledger value whose rows and events these are, for reading the rules *)
(* of LedgerRules off the two sets.  Locators are no part of the promise.  *)
AsLedger(R, E) ==
  [source  |-> [k \in {SourceKey(r) : r \in R} |->
                  CHOOSE r \in R : SourceKey(r) = k],
   locator |-> <<>>,
   event   |-> [k \in {EventKey(e) : e \in E} |->
                  CHOOSE e \in E : EventKey(e) = k],
   idem    |-> [k \in {IdemKey(e) : e \in E} |->
                  CHOOSE e \in E : IdemKey(e) = k],
   rev     |-> [k \in {RevisionKey(e) : e \in E} |->
                  CHOOSE e \in E : RevisionKey(e) = k]]

History(R, E) ==
  LET L == AsLedger(R, E) IN
  /\ Rows(L) = R /\ Events(L) = E
  /\ IndexesAgreeIn(L) /\ TraceableIn(L) /\ ChainedIn(L) /\ WithinOriginalIn(L)

Answered(code, n, m) == answer' = [code |-> code, rows |-> n, events |-> m]

Init ==
  /\ rows = {} /\ events = {}
  /\ answer = [code |-> "NONE", rows |-> 0, events |-> 0]

(* A call begins, or ends with an error.                                   *)
Begin == Answered("NONE", 0, 0) /\ UNCHANGED <<rows, events>>
Refuse == Answered("RAISED", 0, 0) /\ UNCHANGED <<rows, events>>

(* A batch of one tenant is published as a whole: all of its events are    *)
(* there, each of its rows is there under its own id with its own content, *)
(* and nothing else is new.                                                *)
Publish(B) ==
  /\ \E t \in Tenants : \A o \in B : o.by = t /\ o.row.tenant = t
  /\ rows \subseteq rows'
  /\ rows' \subseteq rows \cup {o.row : o \in B}
  /\ \A o \in B : \E r \in rows' : Fingerprint(r) = Fingerprint(o.row)
  /\ events' = events \cup ({o.event : o \in B} \ {NoEvent})
  /\ History(rows', events')
  /\ Answered("OK", Cardinality(rows' \ rows), Cardinality(events' \ events))

Next ==
  \/ Begin
  \/ Refuse
  \/ \E B \in Batches : Publish(B)

Spec == Init /\ [][Next]_contractVars
=============================================================================
