----------------------------- MODULE SendServe -----------------------------
(***************************************************************************)
(* The sender's engine (core/src/send.rs): the tasks spawned by            *)
(* Core::send, the maps they share, and the single consumer of the blob    *)
(* server's provider events, which gates every request for served content  *)
(* and routes its progress to a send.                                      *)
(*                                                                         *)
(* A send is keyed by its transfer id, the shared maps by content hash, so *)
(* two sends of the same bytes meet in serving and in bound.  Every lock   *)
(* is released between two steps of a task: each action below is one       *)
(* critical section, with the private work around it.                      *)
(***************************************************************************)
EXTENDS Naturals, Sequences, FiniteSets

CONSTANTS
    Transfers,  \* transfer ids, one per call of Core::send
    Hashes,     \* content hashes (HashSeq roots)
    Devices,    \* endpoint ids of the receiving devices
    Conns,      \* connection ids of the blob server
    Content,    \* the hash the import of each transfer arrives at
    Peer,       \* the device behind each connection, None when not reported
    Earlier,    \* hashes that tickets of an earlier run of the app name
    Asks,       \* what a request may fetch: "peek" (inspect) or "files"
    MailCap,    \* capacity of the provider-event channel (64 in the code)
    InboxCap,   \* bound on a send's event queue (unbounded in the code)
    None        \* "no entry" of the maps

ASSUME ContentAssumption == Content \in [Transfers -> Hashes]
ASSUME PeerAssumption    == Peer \in [Conns -> Devices \cup {None}]
ASSUME EarlierAssumption == Earlier \subseteq Hashes
ASSUME NoneAssumption    == None \notin Transfers \cup Devices \cup Conns
ASSUME AsksAssumption    == Asks \subseteq {"peek", "files"}
ASSUME CapAssumption     == MailCap \in Nat \ {0} /\ InboxCap \in Nat \ {0}

VARIABLES
    pc,         \* where the task of each send stands
    token,      \* is its CancellationToken cancelled?
    completed,  \* run_send's local flag
    inbox,      \* its queue of ProviderEvents
    active,     \* Inner.active: ids whose token can be reached
    serving,    \* Inner.serving: hash -> the send registered for it
    bound,      \* Inner.bound: hash -> the device the ticket is bound to
    conns,      \* Inner.conns: connection -> device
    catalog,    \* status of the Send record of each transfer
    link,       \* life of each connection, as the blob server sees it
    req,        \* the request in progress on each connection
    mailbox,    \* ProviderMessages on their way to the consumer
    gate,       \* the consumer: which request it is gating, and how far
    told,       \* history: last life-cycle event on the progress stream
    shared,     \* history: hashes some ticket was announced for, now or earlier
    joined,     \* history: devices routed to each send
    delivered   \* history: did a routed request fetch all the files?

task     == <<pc, token, completed, inbox, active>>
maps     == <<serving, bound, conns, catalog>>
provider == <<link, req, mailbox, gate>>
history  == <<told, shared, joined, delivered>>
vars     == <<pc, token, completed, inbox, active, serving, bound, conns,
              catalog, link, req, mailbox, gate, told, shared, joined,
              delivered>>

Phases   == {"none", "importing", "register", "publish", "serving", "unserve",
             "unbind", "settle", "failed", "retire", "ended"}
Statuses == {"absent", "active", "done", "cancelled", "error"}
Events   == {"joined", "done", "aborted"}
Messages == {"nothing", "ready", "joined", "done", "cancelled", "error"}
NoAsk    == [st |-> "none", hash |-> None, ask |-> None, sub |-> None]
Requests == [st : {"none", "pending", "granted"}, hash : Hashes \cup {None},
             ask : Asks \cup {None}, sub : Transfers \cup {None}]
Mail     == [kind : {"connected", "get", "closed"}, conn : Conns]
Gates    == [at : {"idle", "bind", "route"}, conn : Conns \cup {None}]
Idle     == [at |-> "idle", conn |-> None]

Init ==
    /\ pc        = [t \in Transfers |-> "none"]
    /\ token     = [t \in Transfers |-> FALSE]
    /\ completed = [t \in Transfers |-> FALSE]
    /\ inbox     = [t \in Transfers |-> <<>>]
    /\ active    = {}
    /\ serving   = [h \in Hashes |-> None]
    /\ bound     = [h \in Hashes |-> None]
    /\ conns     = [c \in Conns |-> None]
    /\ catalog   = [t \in Transfers |-> "absent"]
    /\ link      = [c \in Conns |-> "idle"]
    /\ req       = [c \in Conns |-> NoAsk]
    /\ mailbox   = <<>>
    /\ gate      = Idle
    /\ told      = [t \in Transfers |-> "nothing"]
    /\ shared    = Earlier
    /\ joined    = [t \in Transfers |-> {}]
    /\ delivered = [t \in Transfers |-> FALSE]

-----------------------------------------------------------------------------
(* Helpers.                                                                *)

Goto(t, from, to) == pc[t] = from /\ pc' = [pc EXCEPT ![t] = to]
Tell(t, msg)      == told' = [told EXCEPT ![t] = msg]

\* Catalog::set_status: an id without a record is left alone.
SetStatus(t, status) ==
    catalog' = [catalog EXCEPT ![t] = IF @ = "absent" THEN @ ELSE status]

\* Does a sender of t's event channel exist?  The registration holds one and
\* so does the forwarding task of each request routed to t.
ChannelOpen(t) ==
    serving[Content[t]] = t \/ \E c \in Conns : req[c].sub = t

\* Events sent once the loop is over are never read.
Listening(t) == pc[t] \in {"publish", "serving"}
Post(t, event) ==
    inbox' = IF t # None /\ Listening(t)
             THEN [inbox EXCEPT ![t] = Append(@, event)] ELSE inbox
RoomFor(t) == t # None /\ Listening(t) => Len(inbox[t]) < InboxCap

-----------------------------------------------------------------------------
(* The task of a send: run_send and the wrapper Core::send spawns.         *)

Begin(t) ==
    /\ Goto(t, "none", "importing")
    /\ active' = active \cup {t}
    /\ UNCHANGED <<token, completed, inbox, maps, provider, history>>

\* Mutant: the token is only looked at when an event arrives.
CancelSeenLate(t) == token[t] /\ inbox[t] # <<>>
CancelSeen(t)     == token[t]

\* The token is only read between two files.
ImportCancelled(t) ==
    /\ Goto(t, "importing", "retire")
    /\ CancelSeen(t)
    /\ Tell(t, "cancelled")
    /\ UNCHANGED <<token, completed, inbox, active, maps, provider,
                   shared, joined, delivered>>

ImportFailed(t) ==
    /\ Goto(t, "importing", "failed")
    /\ Tell(t, "error")
    /\ UNCHANGED <<token, completed, inbox, active, maps, provider,
                   shared, joined, delivered>>

Imported(t) ==
    /\ Goto(t, "importing", "register")
    /\ UNCHANGED <<token, completed, inbox, active, maps, provider, history>>

\* HashMap::insert drops the sender of an earlier send of the same content.
Register(t) ==
    /\ Goto(t, "register", "publish")
    /\ serving' = [serving EXCEPT ![Content[t]] = t]
    /\ UNCHANGED <<token, completed, inbox, active, bound, conns, catalog,
                   provider, history>>

\* The record and the Ready event: nobody else writes between the two.
Publish(t) ==
    /\ Goto(t, "publish", "serving")
    /\ catalog' = [catalog EXCEPT ![t] = "active"]
    /\ Tell(t, "ready")
    /\ shared' = shared \cup {Content[t]}
    /\ UNCHANGED <<token, completed, inbox, active, serving, bound, conns,
                   provider, joined, delivered>>

ServeEvent(t) ==
    /\ pc[t] = "serving"
    /\ inbox[t] # <<>>
    /\ inbox' = [inbox EXCEPT ![t] = Tail(@)]
    /\ \/ /\ Head(inbox[t]) = "joined"
          /\ Tell(t, "joined")
          /\ UNCHANGED <<completed, catalog>>
       \/ /\ Head(inbox[t]) = "done"
          /\ completed' = [completed EXCEPT ![t] = TRUE]
          /\ SetStatus(t, "done")
          /\ Tell(t, "done")
       \/ /\ Head(inbox[t]) = "aborted"
          /\ UNCHANGED <<completed, catalog, told>>
    /\ UNCHANGED <<pc, token, active, serving, bound, conns, provider,
                   shared, joined, delivered>>

ServeCancelled(t) ==
    /\ Goto(t, "serving", "unserve")
    /\ CancelSeen(t)
    /\ UNCHANGED <<token, completed, inbox, active, maps, provider, history>>

\* recv() returns None: nothing queued and no sender left.
ServeClosed(t) ==
    /\ Goto(t, "serving", "unserve")
    /\ inbox[t] = <<>>
    /\ ~ChannelOpen(t)
    /\ UNCHANGED <<token, completed, inbox, active, maps, provider, history>>

\* Mutant: the registration is left behind.
UnserveKeeps(t) ==
    /\ Goto(t, "unserve", "unbind")
    /\ UNCHANGED <<token, completed, inbox, active, maps, provider, history>>

Unserve(t) ==
    /\ Goto(t, "unserve", "unbind")
    /\ serving' = [serving EXCEPT ![Content[t]] = None]
    /\ UNCHANGED <<token, completed, inbox, active, bound, conns, catalog,
                   provider, history>>

Unbind(t) ==
    /\ Goto(t, "unbind", "settle")
    /\ bound' = [bound EXCEPT ![Content[t]] = None]
    /\ UNCHANGED <<token, completed, inbox, active, serving, conns, catalog,
                   provider, history>>

\* Mutant: the test of the local flag inverted.
UndeliveredNot(t) == completed[t]
Undelivered(t)    == ~completed[t]

\* The tail of run_send; the queue goes with its receiver.
Settle(t) ==
    /\ Goto(t, "settle", "retire")
    /\ IF Undelivered(t) THEN SetStatus(t, "cancelled") ELSE UNCHANGED catalog
    /\ Tell(t, "cancelled")
    /\ inbox' = [inbox EXCEPT ![t] = <<>>]
    /\ UNCHANGED <<token, completed, active, serving, bound, conns, provider,
                   shared, joined, delivered>>

RecordFailure(t) ==
    /\ Goto(t, "failed", "retire")
    /\ SetStatus(t, "error")
    /\ UNCHANGED <<token, completed, inbox, active, serving, bound, conns,
                   provider, history>>

Retire(t) ==
    /\ Goto(t, "retire", "ended")
    /\ active' = active \ {t}
    /\ UNCHANGED <<token, completed, inbox, maps, provider, history>>

-----------------------------------------------------------------------------
(* The user.                                                               *)

Cancel(t) ==
    /\ t \in active
    /\ token' = [token EXCEPT ![t] = TRUE]
    /\ UNCHANGED <<pc, completed, inbox, active, maps, provider, history>>

ClearFinished ==
    /\ catalog' = [t \in Transfers |->
                      IF catalog[t] = "active" THEN "active" ELSE "absent"]
    /\ UNCHANGED <<task, serving, bound, conns, provider, history>>

-----------------------------------------------------------------------------
(* The blob server, external: connections and the requests on them.        *)

Mailed(kind, c) ==
    /\ Len(mailbox) < MailCap
    /\ mailbox' = Append(mailbox, [kind |-> kind, conn |-> c])

Connect(c) ==
    /\ link[c] = "idle"
    /\ link' = [link EXCEPT ![c] = "open"]
    /\ Mailed("connected", c)
    /\ UNCHANGED <<task, maps, req, gate, history>>

\* A device asks for a hash it was given a ticket for.
Ask(c, h, a) ==
    /\ link[c] = "open"
    /\ req[c].st = "none"
    /\ h \in shared
    /\ req' = [req EXCEPT ![c] =
                  [st |-> "pending", hash |-> h, ask |-> a, sub |-> None]]
    /\ Mailed("get", c)
    /\ UNCHANGED <<task, maps, link, gate, history>>

Disconnect(c) ==
    /\ link[c] = "open"
    /\ link' = [link EXCEPT ![c] = "closed"]
    /\ Mailed("closed", c)
    /\ UNCHANGED <<task, maps, req, gate, history>>

\* RequestUpdate::Completed reaches the forwarding task, which then ends.
Complete(c) ==
    LET t == req[c].sub IN
    /\ link[c] = "open"
    /\ req[c].st = "granted"
    /\ RoomFor(t)
    /\ Post(t, "done")
    /\ delivered' = IF t # None /\ req[c].ask = "files"
                    THEN [delivered EXCEPT ![t] = TRUE] ELSE delivered
    /\ req' = [req EXCEPT ![c] = NoAsk]
    /\ UNCHANGED <<pc, token, completed, active, maps, link, mailbox, gate,
                   told, shared, joined>>

\* RequestUpdate::Aborted: the transfer of the blobs broke off.
Abort(c) ==
    /\ req[c].st = "granted"
    /\ RoomFor(req[c].sub)
    /\ Post(req[c].sub, "aborted")
    /\ req' = [req EXCEPT ![c] = NoAsk]
    /\ UNCHANGED <<pc, token, completed, active, maps, link, mailbox, gate,
                   history>>

\* The update stream of a dead connection ends without a word.
Lose(c) ==
    /\ link[c] = "closed"
    /\ req[c].st = "granted"
    /\ req' = [req EXCEPT ![c] = NoAsk]
    /\ UNCHANGED <<task, maps, link, mailbox, gate, history>>

-----------------------------------------------------------------------------
(* consume_provider_events: one message at a time.                         *)

Hear(kind, c) ==
    /\ gate.at = "idle"
    /\ mailbox # <<>>
    /\ Head(mailbox) = [kind |-> kind, conn |-> c]
    /\ mailbox' = Tail(mailbox)

\* Mutant: the connection is recorded under its own id.
PeerOfById(c) == c
PeerOf(c)     == Peer[c]

HearConnected(c) ==
    /\ Hear("connected", c)
    /\ conns' = [conns EXCEPT ![c] = PeerOf(c)]
    /\ UNCHANGED <<task, serving, bound, catalog, link, req, gate, history>>

\* Mutant: a receiver that hangs up gives its tickets back.
HearClosedReleases(c) ==
    /\ Hear("closed", c)
    /\ conns' = [conns EXCEPT ![c] = None]
    /\ bound' = [h \in Hashes |-> IF bound[h] = conns[c] THEN None ELSE bound[h]]
    /\ UNCHANGED <<task, serving, catalog, link, req, gate, history>>

HearClosed(c) ==
    /\ Hear("closed", c)
    /\ conns' = [conns EXCEPT ![c] = None]
    /\ UNCHANGED <<task, serving, bound, catalog, link, req, gate, history>>

\* The lookups that open the gate without reading bound: the peer is unknown,
\* or this device is not serving the hash.
Ungated(c) == conns[c] = None \/ serving[req[c].hash] = None

\* Mutant: a request for content that is not served is dropped unanswered.
GatedAtServed(c) ==
    IF serving[req[c].hash] = None THEN Idle
    ELSE [at |-> IF Ungated(c) THEN "route" ELSE "bind", conn |-> c]
GatedAt(c) == [at |-> IF Ungated(c) THEN "route" ELSE "bind", conn |-> c]

\* GetRequestReceived, up to the release of the lock on serving.
HearGet(c) ==
    /\ Hear("get", c)
    /\ gate' = GatedAt(c)
    /\ UNCHANGED <<task, maps, link, req, history>>

\* Mutant: a device's second request is taken for another device's.
AdmitsOnce(h, d) == bound[h] = None
Admits(h, d)     == bound[h] \in {None, d}

\* The lock on bound: the first device takes the ticket, another is denied.
GateBind(c) ==
    LET h == req[c].hash IN
    /\ gate = [at |-> "bind", conn |-> c]
    /\ \/ /\ Admits(h, conns[c])
          /\ bound' = [bound EXCEPT ![h] = conns[c]]
          /\ gate' = [at |-> "route", conn |-> c]
          /\ UNCHANGED req
       \/ /\ ~Admits(h, conns[c])
          /\ gate' = Idle
          /\ req' = [req EXCEPT ![c] = NoAsk]
          /\ UNCHANGED bound
    /\ UNCHANGED <<task, serving, conns, catalog, link, mailbox, history>>

\* Answer Ok, then look the send up and hand it the request's updates.
GateRoute(c) ==
    LET t == serving[req[c].hash] IN
    /\ gate = [at |-> "route", conn |-> c]
    /\ RoomFor(t)
    /\ gate' = Idle
    /\ req' = [req EXCEPT ![c] =
                  [st |-> "granted", hash |-> @.hash, ask |-> @.ask, sub |-> t]]
    /\ Post(t, "joined")
    /\ joined' = IF t # None /\ conns[c] # None
                 THEN [joined EXCEPT ![t] = @ \cup {conns[c]}] ELSE joined
    /\ UNCHANGED <<pc, token, completed, active, maps, link, mailbox, told,
                   shared, delivered>>

-----------------------------------------------------------------------------
\* The straight-line steps of a task: they only wait for a lock or for disk.
Advance(t) ==
    \/ ImportCancelled(t) \/ ImportFailed(t) \/ Imported(t)
    \/ Register(t) \/ Publish(t) \/ Unserve(t) \/ Unbind(t)
    \/ Settle(t) \/ RecordFailure(t) \/ Retire(t)

Task(t) ==
    Begin(t) \/ Advance(t) \/ ServeEvent(t) \/ ServeCancelled(t) \/ ServeClosed(t)

User == ClearFinished \/ \E t \in Transfers : Cancel(t)

Server(c) ==
    \/ Connect(c) \/ Disconnect(c) \/ Complete(c) \/ Abort(c) \/ Lose(c)
    \/ \E h \in Hashes, a \in Asks : Ask(c, h, a)

Consume(c) ==
    HearConnected(c) \/ HearClosed(c) \/ HearGet(c) \/ GateBind(c) \/ GateRoute(c)

Next ==
    \/ \E t \in Transfers : Task(t)
    \/ User
    \/ \E c \in Conns : Server(c) \/ Consume(c)

Spec == Init /\ [][Next]_vars

\* tokio polls every spawned task again; select! picks among its ready
\* branches at random, so a cancelled token is not passed over for ever.
Fairness ==
    /\ \A t \in Transfers :
           WF_vars(Advance(t)) /\ WF_vars(ServeCancelled(t)) /\ WF_vars(ServeEvent(t))
    /\ WF_vars(\E c \in Conns : Consume(c))

FairSpec == Spec /\ Fairness

-----------------------------------------------------------------------------
(* Properties.                                                             *)

\* Every variable stays in its domain.
TypeOK ==
    /\ pc        \in [Transfers -> Phases]
    /\ token     \in [Transfers -> BOOLEAN]
    /\ completed \in [Transfers -> BOOLEAN]
    /\ inbox     \in [Transfers -> Seq(Events)]
    /\ active    \subseteq Transfers
    /\ serving   \in [Hashes -> Transfers \cup {None}]
    /\ bound     \in [Hashes -> Devices \cup {None}]
    /\ conns     \in [Conns -> Devices \cup {None}]
    /\ catalog   \in [Transfers -> Statuses]
    /\ link      \in [Conns -> {"idle", "open", "closed"}]
    /\ req       \in [Conns -> Requests]
    /\ mailbox   \in Seq(Mail)
    /\ gate      \in Gates
    /\ told      \in [Transfers -> Messages]
    /\ shared    \subseteq Hashes
    /\ joined    \in [Transfers -> SUBSET Devices]
    /\ delivered \in [Transfers -> BOOLEAN]

\* No two sends have the same bytes.
DistinctContent == \A t, u \in Transfers : Content[t] = Content[u] => t = u

\* No ticket is out for what is sent here before it is.
FirstTickets == \A t \in Transfers : Content[t] \notin Earlier

\* A send as its users see it: open from its registration to the end of it.
SessionPhase ==
    [t \in Transfers |->
        CASE pc[t] \in {"none", "importing", "register"}      -> "idle"
          [] pc[t] \in {"publish", "serving", "unserve"}      -> "open"
          [] OTHER                                            -> "closed"]

Session == INSTANCE TicketSession
               WITH phase <- SessionPhase, users <- joined, stop <- token

\* run_send keeps the promises of a ticket session, however its critical
\* sections interleave with the gate's: one device, and open until cancelled.
ImplementsSession == Session!Spec

\* "A ticket is served to the FIRST device that requests it ... a different
\* device is denied" (send.rs:309): over the whole life of a send, with the
\* gate, the registration and the binding under three locks, the requests
\* routed to it all come from one device.
OneRecipient == \A t \in Transfers : \A d, e \in joined[t] : d = e

\* The same promise from the other side: while a send is registered, a device
\* is only turned away because another one was let in to this very send.  A
\* binding left over from an earlier send of the content breaks it.
FirstComerServed ==
    [][\A c \in Conns :
          LET h == req[c].hash IN
          (/\ gate = [at |-> "bind", conn |-> c]
           /\ gate' = Idle
           /\ serving[h] # None)
          => joined[serving[h]] \ {conns[c]} # {}]_vars

\* Entries of serving, which keep a channel alive and switch the gate on, never
\* outlive the send that made them, though another send may overwrite them.
RegistrationIsLive ==
    \A h \in Hashes : serving[h] # None =>
        /\ Content[serving[h]] = h
        /\ pc[serving[h]] \in {"publish", "serving", "unserve"}

\* A finished task leaves no live trace: no token to reach, no active record,
\* and a last word on its stream, whichever way it ended.
EndedIsSettled ==
    \A t \in Transfers : pc[t] = "ended" =>
        /\ t \notin active
        /\ catalog[t] # "active"
        /\ told[t] \in {"cancelled", "error"}

\* A send that delivered is never rewritten as cancelled or failed by its own
\* teardown; only the user can forget the record.
DoneIsFinal ==
    [][\A t \in Transfers :
          catalog[t] = "done" => catalog'[t] \in {"done", "absent"}]_vars

\* What the stream says is already in the catalog: after Done or the final
\* Cancelled the record is not still active.
ToldIsRecorded ==
    \A t \in Transfers :
        told[t] \in {"done", "cancelled", "error"} => catalog[t] # "active"

\* "Transfer completed successfully" (progress.rs:109): a send reports Done
\* only when a receiver has fetched its files.
DoneMeansDelivered ==
    \A t \in Transfers : catalog[t] = "done" => delivered[t]

\* Cancelling always ends the send, from any phase.
CancelEnds == \A t \in Transfers : token[t] ~> pc[t] = "ended"

\* Every request is answered: the gate never leaves a receiver waiting.
RequestsAnswered ==
    \A c \in Conns : req[c].st = "pending" ~> req[c].st # "pending"

=============================================================================
