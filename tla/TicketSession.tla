--------------------------- MODULE TicketSession ---------------------------
(***************************************************************************)
(* What a send promises, without a word about maps, locks and channels: it *)
(* opens once, lets the first device in and no other, and closes when the  *)
(* user has asked it to stop (send.rs:148, send.rs:309).                   *)
(***************************************************************************)
CONSTANTS Transfers, Devices

VARIABLES
    phase,  \* "idle", "open" or "closed"
    users,  \* the devices that were let in
    stop    \* has the user cancelled?

vars == <<phase, users, stop>>

Init ==
    /\ phase = [t \in Transfers |-> "idle"]
    /\ users = [t \in Transfers |-> {}]
    /\ stop  = [t \in Transfers |-> FALSE]

Open(t) ==
    /\ phase[t] = "idle"
    /\ phase' = [phase EXCEPT ![t] = "open"]
    /\ UNCHANGED <<users, stop>>

\* A send that fails or is cancelled before it has a ticket.
Abandon(t) ==
    /\ phase[t] = "idle"
    /\ phase' = [phase EXCEPT ![t] = "closed"]
    /\ UNCHANGED <<users, stop>>

Admit(t, d) ==
    /\ phase[t] = "open"
    /\ users[t] \subseteq {d}
    /\ users' = [users EXCEPT ![t] = {d}]
    /\ UNCHANGED <<phase, stop>>

Stop(t) ==
    /\ stop' = [stop EXCEPT ![t] = TRUE]
    /\ UNCHANGED <<phase, users>>

Close(t) ==
    /\ phase[t] = "open"
    /\ stop[t]
    /\ phase' = [phase EXCEPT ![t] = "closed"]
    /\ UNCHANGED <<users, stop>>

Next == \E t \in Transfers :
    Open(t) \/ Abandon(t) \/ Stop(t) \/ Close(t) \/ \E d \in Devices : Admit(t, d)

Spec == Init /\ [][Next]_vars

=============================================================================
