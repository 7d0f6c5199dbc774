--------------------------- MODULE MCRawStorage ---------------------------
(***************************************************************************)
(* Two threads upload up to two of three files, one of each kind.          *)
(***************************************************************************)
EXTENDS RawStorage

CONSTANTS d1, d2, d3

MCKind ==
  [d \in {d1, d2, d3} |->
     CASE d = d1 -> "MATCHED" [] d = d2 -> "UNKNOWN" [] d = d3 -> "MALFORMED"]
MCBound == [uploads |-> 2, crashes |-> 1, faults |-> 1, damages |-> 1]
=============================================================================
