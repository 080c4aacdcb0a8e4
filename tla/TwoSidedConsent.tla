-------------------------- MODULE TwoSidedConsent --------------------------
(***************************************************************************)
(* What the offer handshake promises: the sender learns one final outcome  *)
(* per offer, and it is an acceptance only if the receiving user was shown *)
(* the offer and said yes, which is decided once.                          *)
(***************************************************************************)
CONSTANT Offers

VARIABLES
    shown,  \* was the offer put before the receiving user?
    will,   \* the user's verdict: "none", "accept" or "decline"
    seen    \* what the sender knows: "waiting", "accepted", "declined", "failed"

vars == <<shown, will, seen>>

Init ==
    /\ shown = [o \in Offers |-> FALSE]
    /\ will  = [o \in Offers |-> "none"]
    /\ seen  = [o \in Offers |-> "waiting"]

Show(o) ==
    /\ ~shown[o]
    /\ shown' = [shown EXCEPT ![o] = TRUE]
    /\ UNCHANGED <<will, seen>>

Decide(o, verdict) ==
    /\ shown[o]
    /\ will[o] = "none"
    /\ will' = [will EXCEPT ![o] = verdict]
    /\ UNCHANGED <<shown, seen>>

LearnAccept(o) ==
    /\ seen[o] = "waiting"
    /\ will[o] = "accept"
    /\ seen' = [seen EXCEPT ![o] = "accepted"]
    /\ UNCHANGED <<shown, will>>

\* A refusal needs no verdict: the receiver may be hidden, silent or gone.
LearnRefusal(o, outcome) ==
    /\ seen[o] = "waiting"
    /\ seen' = [seen EXCEPT ![o] = outcome]
    /\ UNCHANGED <<shown, will>>

Next == \E o \in Offers :
    \/ Show(o)
    \/ \E v \in {"accept", "decline"} : Decide(o, v)
    \/ LearnAccept(o)
    \/ \E r \in {"declined", "failed"} : LearnRefusal(o, r)

Spec == Init /\ [][Next]_vars

=============================================================================
