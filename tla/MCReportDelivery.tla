-------------------------- MODULE MCReportDelivery --------------------------
(***************************************************************************)
(* Records of two tenants, one revised under its id, one whose text a      *)
(* spreadsheet would take for a formula, one with a line separator in its  *)
(* text and one whose hash is wrong; collections that repeat an id, mix    *)
(* tenants or are one record over the limit.                               *)
(***************************************************************************)
EXTENDS ReportDelivery

Reported(id, tenant, text, intact) ==
  [id |-> id, tenant |-> tenant, mode |-> "ACTUAL", text |-> text, intact |-> intact]
First == Reported("r1", "o", <<"a">>, TRUE)
Revised == Reported("r1", "o", <<"a", "LF">>, TRUE)
Formula == Reported("r2", "o", <<"LF", "=">>, TRUE)
Separated == Reported("r3", "o", <<"a", "LS", "a">>, TRUE)
Torn == Reported("r2", "o", <<"a">>, FALSE)
Foreign == Reported("r4", "o2", << >>, TRUE)

MCReportRecords == {First, Revised, Formula, Separated, Torn, Foreign}
MCCollections ==
  {<< >>, <<First>>, <<First, Formula, Separated>>, <<Revised, Formula, Separated>>,
   <<Formula, First>>, <<Formula, Revised>>, <<First, Foreign>>, <<First, Revised>>,
   <<First, Torn>>, <<First, Formula, Separated, Foreign>>}
=============================================================================
