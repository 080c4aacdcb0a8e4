----------------------------- MODULE MCConsent -----------------------------
(* Small instances of Consent for TLC. *)
EXTENDS Consent

CONSTANTS o1, o2, u1, u2

=============================================================================
