---------------------------- MODULE MCSendServe ----------------------------
(* Small instances of SendServe for TLC. *)
EXTENDS SendServe

CONSTANTS t1, t2, h1, h2, d1, d2, c1, c2, c3

\* Each send has bytes of its own, or all send the same.
OwnContent  == [t \in Transfers |-> IF t = t1 THEN h1 ELSE h2]
SameContent == [t \in Transfers |-> h1]

\* Two devices, or two devices and one the server could not name.
TwoPeers   == [c \in Conns |-> IF c = c1 THEN d1 ELSE d2]
ThreePeers == [c \in Conns |-> CASE c = c1 -> d1 [] c = c2 -> d2 [] OTHER -> None]

=============================================================================
