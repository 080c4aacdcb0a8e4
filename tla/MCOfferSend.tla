---------------------------- MODULE MCOfferSend ----------------------------
(* Small instances of OfferSend for TLC. *)
EXTENDS OfferSend

CONSTANTS t1, t2, h1, h2, d1, d2, c1, c2, o1, o2

OwnContent == [t \in Transfers |-> IF t = t1 THEN h1 ELSE h2]
TwoPeers   == [c \in Conns |-> IF c = c1 THEN d1 ELSE d2]

\* Two neighbors, or twice the same one.
TwoNeighbors == [o \in Offers |-> IF o = o1 THEN d1 ELSE d2]
SameNeighbor == [o \in Offers |-> d1]

=============================================================================
