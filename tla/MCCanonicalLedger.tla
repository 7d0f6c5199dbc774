------------------------- MODULE MCCanonicalLedger -------------------------
(***************************************************************************)
(* A small pool of submissions for CanonicalLedger: a sale of 2 items with *)
(* a revision to 1, a return with a revision that enlarges it, a competing *)
(* return, and the submissions the ledger must refuse.                     *)
(***************************************************************************)
EXTENDS CanonicalLedger

CONSTANTS t1, t2, s1, s2, s3, s4, s5, s6, f1, f2, c1, c2, g1, none, noEvent

MCTenants == {t1, t2}
MCSourceIds == {s1, s2, s3, s4, s5, s6}
MCFiles == {f1, f2}
MCContents == {c1, c2}
MCEventIds == {"sale-r1", "sale-r2", "ret-r1", "ret-r2", "ret2-r1"}
MCIdem == MCEventIds \cup {"other"}

Row(t, id, file, line) ==
  [tenant |-> t, id |-> id, file |-> file, line |-> line,
   diagnostics |-> none, content |-> c1]

Event(t, id, key, type, rev, sup, reversal, src, n) ==
  [tenant |-> t, id |-> id, account |-> "acc", key |-> key, type |-> type,
   revision |-> rev, idem |-> id, supersedes |-> sup, reversalOf |-> reversal,
   source |-> src, content |-> c1, sound |-> TRUE, typed |-> TRUE,
   good |-> g1, quantity |-> n, amount |-> n]

By(r, e) == [by |-> r.tenant, row |-> r, event |-> e]

SaleR1  == Event(t1, "sale-r1", "sale", Sale, 1, none, none, s1, 2)
SaleR2  == Event(t1, "sale-r2", "sale", Sale, 2, "sale-r1", none, s2, 1)
RetR1   == Event(t1, "ret-r1", "ret", Return, 1, none, "sale-r1", s3, 1)
RetR2   == Event(t1, "ret-r2", "ret", Return, 2, "ret-r1", "sale-r1", s4, 2)
Ret2R1  == Event(t1, "ret2-r1", "ret2", Return, 1, none, "sale-r1", s5, 1)
OtherT  == [SaleR1 EXCEPT !.tenant = t2]

MCOffers ==
  {By(Row(t1, s1, f1, 2), SaleR1),
   By(Row(t1, s1, f2, 2), SaleR1),                  \* same row, other raw file
   By(Row(t1, s2, f1, 3), SaleR2),
   By(Row(t1, s3, f1, 4), RetR1),
   By(Row(t1, s4, f1, 5), RetR2),
   By(Row(t1, s5, f2, 3), Ret2R1),
   By(Row(t2, s1, f1, 2), OtherT),
   By([Row(t1, s3, f1, 4) EXCEPT !.diagnostics = "EXCEEDS"], noEvent),
   By(Row(t1, s6, f2, 4),                           \* same business content
      [RetR1 EXCEPT !.source = s6, !.idem = "other"]),
   By(Row(t1, s6, f2, 4),                           \* second event of one row
      [SaleR1 EXCEPT !.id = "sale-r2", !.source = s6]),
   [by |-> t2, row |-> Row(t1, s1, f1, 2), event |-> SaleR1]}
=============================================================================
