------------------------- MODULE MCCanonicalIngest -------------------------
(***************************************************************************)
(* Report files for CanonicalIngest: a sale with its return, a competing   *)
(* return with a malformed row, both also under a second raw file id, a    *)
(* correction that enlarges the return and one that takes it back, a file  *)
(* that corrects a row of its own, a file that repeats operations, one the *)
(* schema gate has not passed, and the sale again for another account.     *)
(***************************************************************************)
EXTENDS CanonicalIngest

CONSTANTS t1, bad, none, noEvent, noPlan, noResult, p1, p2

MCBytes == {"A", "B", "C", "D", "E", "G"}
MCFiles == {"fA", "fA2", "fB", "fB2", "fC", "fD", "fE", "fF", "fG"}
MCLines == 2..5
MCSourceIds == {t1} \X MCBytes \X MCLines
MCEventIds == {"s", "r", "q", "v", "w", "x"} \X (1..3)
MCIdem == {"acc", "acc2"} \X MCEventIds \X MCSourceIds
MCPlace ==
  [id \in MCEventIds |->
     3 * (CHOOSE i \in 1..6 : <<"q", "r", "s", "v", "w", "x">>[i] = id[1]) + id[2]]

Line(op, type, rev, sup, reversal, n, time) ==
  [operation |-> op, type |-> type, revision |-> rev, supersedes |-> sup,
   reversalOf |-> reversal, good |-> "g", quantity |-> n, amount |-> n,
   time |-> time]

SaleS   == Line("s", Sale, 1, none, none, 2, 1)
ReturnR == Line("r", Return, 1, none, <<"s", 1>>, 1, 2)
ReturnQ == Line("q", Return, 1, none, <<"s", 1>>, 1, 3)
FixR    == Line("r", Return, 2, <<"r", 1>>, <<"s", 1>>, 2, 4)
FixFixR == Line("r", Return, 3, <<"r", 2>>, <<"s", 1>>, 1, 5)
SaleV   == Line("v", Sale, 1, none, none, 2, 1)
ReturnW == Line("w", Return, 1, none, <<"v", 1>>, 2, 2)
ReturnX == Line("x", Return, 1, none, <<"v", 1>>, 1, 3)
FixW    == Line("w", Return, 2, <<"w", 1>>, <<"v", 1>>, 1, 4)

Upload(file, bytes, rows) ==
  [id |-> file, tenant |-> t1, bytes |-> bytes, valid |-> TRUE, rows |-> rows]

SaleFile       == Upload("fA", "A", <<ReturnR, SaleS>>)
CompetingFile  == Upload("fB", "B", <<bad, ReturnQ>>)
FixFile        == Upload("fC", "C", <<FixR>>)
FixAgainFile   == Upload("fG", "G", <<FixFixR>>)
SelfFixedFile  == Upload("fD", "D", <<FixW, ReturnW, ReturnX, SaleV>>)
RepeatingFile  == Upload("fE", "E", <<SaleV, SaleS>>)

MCRequests ==
  {[upload |-> u, account |-> "acc"] :
     u \in {SaleFile, [SaleFile EXCEPT !.id = "fA2"],
           CompetingFile, [CompetingFile EXCEPT !.id = "fB2"], FixFile, FixAgainFile,
           SelfFixedFile, RepeatingFile,
           [SaleFile EXCEPT !.id = "fF", !.valid = FALSE]}}
    \cup {[upload |-> SaleFile, account |-> "acc2"]}

(* The ingestors run the same code: exchanging them changes nothing.       *)
Symmetry == Permutations(Ingestors)
=============================================================================
