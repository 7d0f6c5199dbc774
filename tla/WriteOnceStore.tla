-------------------------- MODULE WriteOnceStore --------------------------
(***************************************************************************)
(* What an immutable object store promises its clients: a key takes one    *)
(* value, for ever, and a put that was acknowledged can be read back.      *)
(***************************************************************************)
CONSTANTS Keys, Bytes, NoObject

VARIABLES objects, acknowledged

Init ==
  /\ objects = [k \in Keys |-> NoObject]
  /\ acknowledged = {}

Store(k, b) ==
  /\ objects[k] = NoObject
  /\ objects' = [objects EXCEPT ![k] = b]
  /\ UNCHANGED acknowledged

Acknowledge(k, b) ==
  /\ objects[k] = b
  /\ acknowledged' = acknowledged \cup {<<k, b>>}
  /\ UNCHANGED objects

Next == \E k \in Keys, b \in Bytes : Store(k, b) \/ Acknowledge(k, b)

Spec == Init /\ [][Next]_<<objects, acknowledged>>
=============================================================================
