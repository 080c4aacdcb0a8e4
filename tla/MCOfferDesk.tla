---------------------------- MODULE MCOfferDesk ----------------------------
(* Small instances of OfferDesk for TLC. *)
EXTENDS OfferDesk

CONSTANTS o1, o2, o3, d1, d2, k1, k2

\* The first offer comes from one device, the others from another.
TwoSenders == [o \in Offers |-> IF o = o1 THEN d1 ELSE d2]

=============================================================================
