----------------------------- MODULE MCReceipts -----------------------------
(* An instance of ReadReceipts for TLC: the first message comes from the   *)
(* first contact, the second one from the other.                           *)
EXTENDS ReadReceipts

CONSTANTS a, b, m1, m2

TwoRooms == [m \in {m1, m2} |-> IF m = m1 THEN a ELSE b]
=============================================================================
