------------------------------ MODULE MCNearby ------------------------------
(* Small instances of Nearby for TLC. *)
EXTENDS Nearby, TLC
CONSTANTS c1, c2, o1, f1
=============================================================================
