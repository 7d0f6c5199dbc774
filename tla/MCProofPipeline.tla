-------------------------- MODULE MCProofPipeline -------------------------
(***************************************************************************)
(* Two sales and the return of one; a new sale followed by an operation of *)
(* the first file, so that one of the two files fails on a row after it    *)
(* has added another; a correction of the other sale; and a file that is   *)
(* quarantined.  Another process puts the first object, too.               *)
(***************************************************************************)
EXTENDS ProofPipeline, TLC

CONSTANTS w1, w2

MCPid == [w \in {w1, w2} |-> IF w = w1 THEN "p1" ELSE "p2"]

Row(row, id, sale, supersedes, reverses) ==
  [row |-> row, id |-> id, sale |-> sale, supersedes |-> supersedes, reverses |-> reverses]

MCRows ==
  [f \in {"fA", "fB", "fC", "fQ"} |->
     CASE f = "fA" -> <<Row("1", "s-r1", TRUE, NoEventId, NoEventId),
                        Row("2", "v-r1", TRUE, NoEventId, NoEventId),
                        Row("3", "q-r1", FALSE, NoEventId, "s-r1")>>
       [] f = "fB" -> <<Row("1", "x-r1", TRUE, NoEventId, NoEventId),
                        Row("2", "s-r1", TRUE, NoEventId, NoEventId)>>
       [] f = "fC" -> <<Row("1", "v-r2", TRUE, "v-r1", NoEventId)>>
       [] f = "fQ" -> <<>>]

MCRecordPlace ==
  (<<"fA", "1">> :> 1) @@ (<<"fA", "2">> :> 2) @@ (<<"fA", "3">> :> 3)
    @@ (<<"fB", "1">> :> 4) @@ (<<"fB", "2">> :> 5) @@ (<<"fC", "1">> :> 6)

(* A copy of the first file, one whose stream went wrong, other bytes.     *)
MCOtherPuts ==
  {[key |-> "fA", stream |-> "fA", expected |-> "fA"],
   [key |-> "fA", stream |-> "fB", expected |-> "fA"],
   [key |-> "fA", stream |-> "fB", expected |-> "fB"]}
MCBound == [imports |-> 3, puts |-> 1, crashes |-> 1]
=============================================================================
