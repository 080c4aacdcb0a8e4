----------------------------- MODULE MCReceive -----------------------------
(* Small instances of Receive for TLC. *)
EXTENDS Receive

CONSTANTS r1, r2, f1, f2

\* The selective calls take one file.
SecondFile == [r \in Receives |-> {f2} \cap Files]

=============================================================================
