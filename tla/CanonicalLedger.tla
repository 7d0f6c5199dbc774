-------------------------- MODULE CanonicalLedger --------------------------
(***************************************************************************)
(* InMemoryCanonicalLedger under threads.  append and append_batch run     *)
(* with the ledger's lock held; append_batch changes the dictionaries item *)
(* by item and puts its backups back if an item is refused.  Readers take  *)
(* the lock too: they see the ledger only while no batch is under way, but *)
(* trace_event takes it twice, once for the event and once for its row.    *)
(***************************************************************************)
EXTENDS LedgerRules, Sequences

CONSTANTS
  Offers,        \* the (row, event) pairs callers submit, with the calling
                 \* tenant: [by, row, event]
  MaxBatch       \* bound: longest batch

Offer == [by : Tenants, row : SourceRow, event : CanonicalEvent \cup {NoEvent}]

ASSUME OffersAssumption == Offers \subseteq Offer
ASSUME MaxBatchAssumption == MaxBatch \in Nat \ {0}

VARIABLES
  ledger,     \* the five dictionaries
  inBatch,    \* a thread is inside append_batch and holds the lock
  backup,     \* its copies of the dictionaries
  todo,       \* the items it has not applied yet
  traced,     \* the event trace_event has read, its row still to be read
  answer      \* what the latest append or append_batch has answered: the
              \* sums of its results, collected while a batch runs

vars == <<ledger, inBatch, backup, todo, traced, answer>>
batchVars == <<inBatch, backup, todo>>

Answers == [code : {"NONE", "OK", "RAISED"}, rows : Nat, events : Nat]
Answer(code, n, m) == [code |-> code, rows |-> n, events |-> m]
NoAnswer == Answer("NONE", 0, 0)
Raised == Answer("RAISED", 0, 0)

(* The answer with the result of inserting o added to it.                  *)
Counted(o, code) ==
  Answer(code, answer.rows + NewRows(ledger, o.row),
               answer.events + NewEvents(ledger, o.event))

Accepts(o) == Verdict(ledger, o.by, o.row, o.event) = "OK"

Init ==
  /\ ledger = EmptyLedger
  /\ inBatch = FALSE
  /\ backup = EmptyLedger
  /\ todo = <<>>
  /\ traced = NoEvent
  /\ answer = NoAnswer

-----------------------------------------------------------------------------
(* append: one call with the lock held, accepted or refused.               *)
Append_(o) ==
  /\ ~inBatch
  /\ Accepts(o)
  /\ ledger' = Insert(ledger, o.row, o.event)
  /\ answer' = Answer("OK", NewRows(ledger, o.row), NewEvents(ledger, o.event))
  /\ UNCHANGED <<batchVars, traced>>

AppendRaises(o) ==
  /\ ~inBatch
  /\ ~Accepts(o)
  /\ answer' = Raised
  /\ UNCHANGED <<ledger, batchVars, traced>>

(* append_batch: take the lock and copy the dictionaries ...               *)
BatchBegin(items) ==
  /\ ~inBatch
  /\ inBatch' = TRUE
  /\ backup' = ledger
  /\ todo' = items
  /\ answer' = NoAnswer
  /\ UNCHANGED <<ledger, traced>>

(* ... apply one item ...                                                  *)
BatchItem ==
  /\ inBatch
  /\ todo # <<>>
  /\ Accepts(Head(todo))
  /\ ledger' = Insert(ledger, Head(todo).row, Head(todo).event)
  /\ todo' = Tail(todo)
  /\ answer' = Counted(Head(todo), "NONE")
  /\ UNCHANGED <<inBatch, backup, traced>>

Release ==
  /\ inBatch' = FALSE
  /\ backup' = EmptyLedger
  /\ todo' = <<>>

(* ... and either return with every item applied ...                       *)
BatchReturns ==
  /\ inBatch
  /\ todo = <<>>
  /\ Release
  /\ answer' = [answer EXCEPT !.code = "OK"]
  /\ UNCHANGED <<ledger, traced>>

(* Slip: one index is left out of the backups.                             *)
BatchRaisesWithoutRevisions ==
  /\ inBatch
  /\ todo # <<>>
  /\ ~Accepts(Head(todo))
  /\ ledger' = [backup EXCEPT !.rev = ledger.rev]
  /\ Release
  /\ answer' = Raised
  /\ UNCHANGED traced

(* Slip: what was applied before the refused item stays.                   *)
BatchRaisesWithoutRestore ==
  /\ inBatch
  /\ todo # <<>>
  /\ ~Accepts(Head(todo))
  /\ Release
  /\ answer' = Raised
  /\ UNCHANGED <<ledger, traced>>

(* ... or restore all five dictionaries on the first refused item.         *)
BatchRaises ==
  /\ inBatch
  /\ todo # <<>>
  /\ ~Accepts(Head(todo))
  /\ ledger' = backup
  /\ Release
  /\ answer' = Raised
  /\ UNCHANGED traced

(* Slip: the event is read without the lock, in the middle of a batch.     *)
TraceEventUnlocked ==
  /\ traced = NoEvent
  /\ \E e \in Events(ledger) : traced' = e
  /\ UNCHANGED <<ledger, batchVars, answer>>

(* trace_event, first half: get_event under the lock.                      *)
TraceEvent ==
  /\ ~inBatch
  /\ traced = NoEvent
  /\ \E e \in Events(ledger) : traced' = e
  /\ UNCHANGED <<ledger, batchVars, answer>>

(* trace_event, second half: get_source_row of the event it holds.         *)
TraceSource ==
  /\ ~inBatch
  /\ traced # NoEvent
  /\ <<traced.tenant, traced.source>> \in DOMAIN ledger.source
  /\ traced' = NoEvent
  /\ UNCHANGED <<ledger, batchVars, answer>>

(* One caller passes one tenant for all items of a batch.                  *)
BatchesOf(t) ==
  UNION {[1..n -> {o \in Offers : o.by = t}] : n \in 0..MaxBatch}

Next ==
  \/ \E o \in Offers : Append_(o)
  \/ \E o \in Offers : AppendRaises(o)
  \/ \E t \in Tenants : \E items \in BatchesOf(t) : BatchBegin(items)
  \/ BatchItem
  \/ BatchReturns
  \/ BatchRaises
  \/ TraceEvent
  \/ TraceSource

Spec == Init /\ [][Next]_vars

-----------------------------------------------------------------------------
(* What a reader, who needs the lock, can see.                             *)
Committed == IF inBatch THEN backup ELSE ledger

(* Every variable has its type: the one type invariant of the module.      *)
TypeOK ==
  /\ LedgerType(ledger) /\ LedgerType(backup)
  /\ inBatch \in BOOLEAN
  /\ todo \in Seq(Offers)
  /\ traced \in CanonicalEvent \cup {NoEvent}
  /\ answer \in Answers

(* The three event indexes never disagree, in the middle of a batch and    *)
(* after a rollback included: _append_locked writes three dictionaries and *)
(* append_batch restores five.                                             *)
IndexesAgree == IndexesAgreeIn(ledger) /\ IndexesAgreeIn(Committed)

(* No event without the VALID row it was made from, no locator to a row    *)
(* that is not there: a duplicate row is dropped on the strength of its    *)
(* fingerprint while its locator and its event are still written.          *)
Traceable == TraceableIn(ledger) /\ TraceableIn(Committed)

(* Revisions arrive in any order, in batches, from several callers, and    *)
(* still form one chain without gap or fork per account and business key.  *)
RevisionsFormChains == ChainedIn(ledger) /\ ChainedIn(Committed)

(* Active returns never exceed their sale, however returns and revisions   *)
(* of returns are interleaved.                                             *)
ReversalsWithinOriginal == WithinOriginalIn(ledger) /\ WithinOriginalIn(Committed)

(* Whatever is returned of a sale, under any of its revisions, stays       *)
(* within the sale as its latest revision states it.                       *)
ReversalsWithinCurrentSale == WithinCurrentSaleIn(Committed)

(* A trace that has read an event will find the row, although the lock is  *)
(* free between its two reads and batches may be rolled back in between.   *)
TracedSourceStays ==
  traced # NoEvent =>
    /\ <<traced.tenant, traced.source>> \in DOMAIN Committed.source
    /\ LineageHolds(Committed.source[<<traced.tenant, traced.source>>], traced)

(* History is append-only: what a reader has seen is never changed or lost *)
(* by a later call, a rolled-back batch included.                          *)
AppendOnly == [][Extends(Committed', Committed)]_vars

(* The ledger implements LedgerContract: a call that raises has left       *)
(* nothing behind for readers, one that returns has inserted exactly what  *)
(* its results say, and what readers see is always a consistent history.   *)
Contract == INSTANCE LedgerContract WITH
              rows <- Rows(Committed), events <- Events(Committed),
              answer <- IF inBatch THEN NoAnswer ELSE answer
ImplementsContract == Contract!Spec
=============================================================================
