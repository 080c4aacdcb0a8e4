----------------------------- MODULE MCSettings -----------------------------
(* Small instances of Settings for TLC. *)
EXTENDS Settings, TLC

CONSTANTS k1, t1, t2, n1, n2, p1

\* Calls of set_device_name are alike, and so are the names they give.
Alike == Permutations({t1, t2}) \cup Permutations({n1, n2})

=============================================================================
