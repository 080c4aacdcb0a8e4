------------------------------- MODULE Nearby -------------------------------
(***************************************************************************)
(* Nearby discovery (core/src/discover.rs and the operations of            *)
(* core/src/offer.rs that drive it): sessions that start, stop and rename  *)
(* under the nearby lock of their Core; the one browse and the one pump    *)
(* thread they share; the daemon of the mdns-sd crate, which announces     *)
(* instances and their departure to whoever browsed last.                  *)
(*                                                                         *)
(* An instance name is a device with the number of its display name:       *)
(* identities are taken to differ in their first eight digits, and a       *)
(* device never goes back to a name it had (bound Renames).                *)
(***************************************************************************)
EXTENDS Naturals, Sequences

CONSTANTS
    Cores,      \* sessions of this process, one per engine
    Others,     \* devices elsewhere on the network
    Foreign,    \* those whose announcements carry no endpoint id
    None,       \* no name, no core, no event
    Renames,    \* bound: how often a device changes its name
    MaxPending  \* bound: events waiting in a channel

ASSUME DeviceAssumption ==
    /\ Cores \cap Others = {} /\ Foreign \subseteq Others /\ None \notin Cores
ASSUME BoundAssumption == Renames \in Nat /\ MaxPending \in Nat \ {0} /\ None \notin Nat

Devices   == Cores \cup Others
Versions  == 0..Renames
Instances == Devices \X Versions
Events    == {"resolved", "removed"} \X Instances

VARIABLES
    op,          \* how far the holder of each nearby lock has got
    renaming,    \* is it the stop half of a rename?
    name,        \* device_name, as its number
    running,     \* the flag the offer gate reads, without the lock
    registered,  \* the name each session is advertised under
    table,       \* NearbyState.peers: device -> name it was resolved under
    subscribers, \* sessions whose table is in SUBSCRIBERS
    started,     \* STARTED: has somebody claimed the pump?
    pump,        \* whose receiver the pump thread reads
    hand, todo,  \* the event it is applying, the tables still to do
    listener,    \* external: the last browse, the only one served
    chan,        \* external: events waiting for each browse
    announced,   \* external: instances that browse has been told of
    net,         \* external: instances advertised on the network
    leaked,      \* history: local ones whose unregistration was refused
    missed       \* history: announcements handled before a table existed

session == <<op, renaming, name, running, registered>>
browse  == <<started, listener>>
reading == <<pump, hand, todo>>
network == <<chan, announced, net>>
history == <<leaked, missed>>
vars    == <<session, table, subscribers, browse, reading, network, history>>

Free      == [d \in Devices |-> None]
Of(d, is) == {i \in is : i[1] = d}

Init ==
    /\ op         = [c \in Cores |-> "free"]
    /\ renaming   = [c \in Cores |-> FALSE]
    /\ name       = [d \in Devices |-> 0]
    /\ running    = [c \in Cores |-> FALSE]
    /\ registered = [c \in Cores |-> None]
    /\ table      = [c \in Cores |-> Free]
    /\ subscribers = {} /\ started = FALSE
    /\ pump = None /\ hand = None /\ todo = {} /\ listener = None
    /\ chan       = [c \in Cores |-> <<>>]
    /\ announced = {} /\ net = {} /\ leaked = {}
    /\ missed     = [c \in Cores |-> {}]

Goto(c, from, to) == op[c] = from /\ op' = [op EXCEPT ![c] = to]

-----------------------------------------------------------------------------
(* NearbyState::start.                                                     *)

StartNearby(c) ==
    /\ registered[c] = None
    /\ Goto(c, "free", "starting")
    /\ UNCHANGED <<renaming, name, running, registered, table, subscribers,
                   browse, reading, network, history>>

RegisterFails(c) ==
    /\ Goto(c, "starting", "free")
    /\ UNCHANGED <<renaming, name, running, registered, table, subscribers,
                   browse, reading, network, history>>

\* Mutant: a session is registered under the name after its own.
MutantRegister(c) ==
    /\ Goto(c, "starting", "ensure")
    /\ running'    = [running EXCEPT ![c] = TRUE]
    /\ registered' = [registered EXCEPT ![c] = name[c] + 1]
    /\ net'        = net \cup {<<c, name[c] + 1>>}
    /\ UNCHANGED <<renaming, name, table, subscribers, browse, reading, chan,
                   announced, history>>

Register(c) ==
    /\ Goto(c, "starting", "ensure")
    /\ running'    = [running EXCEPT ![c] = TRUE]
    /\ registered' = [registered EXCEPT ![c] = name[c]]
    /\ net'        = net \cup {<<c, name[c]>>}
    /\ UNCHANGED <<renaming, name, table, subscribers, browse, reading, chan,
                   announced, history>>

EnsureBrowse(c) ==
    /\ Goto(c, "ensure", IF started THEN "subscribe" ELSE "browse")
    /\ UNCHANGED <<renaming, name, running, registered, table, subscribers,
                   browse, reading, network, history>>

\* The daemon serves the newest browse from the beginning.
Browse(c) ==
    /\ Goto(c, "browse", "claim")
    /\ listener'  = c
    /\ chan'      = [chan EXCEPT ![c] = <<>>]
    /\ announced' = {}
    /\ UNCHANGED <<renaming, name, running, registered, table, subscribers,
                   started, reading, net, history>>

BrowseFails(c) ==
    /\ Goto(c, "browse", "subscribe")
    /\ UNCHANGED <<renaming, name, running, registered, table, subscribers,
                   browse, reading, network, history>>

\* The loser of the race drops the receiver of its browse.
Claim(c) ==
    /\ Goto(c, "claim", "subscribe")
    /\ started' = TRUE
    /\ pump'    = IF started THEN pump ELSE c
    /\ UNCHANGED <<renaming, name, running, registered, table, subscribers,
                   listener, hand, todo, network, history>>

Awaited == IF listener = None THEN {}
           ELSE {chan[listener][k][2] : k \in
                 {j \in 1..Len(chan[listener]) : chan[listener][j][1] = "resolved"}}

\* Mutant: the session goes on with the table it had.
MutantSubscribe(c) ==
    /\ Goto(c, "subscribe", "free")
    /\ subscribers' = subscribers \cup {c}
    /\ missed'      = [missed EXCEPT ![c] = announced \ Awaited]
    /\ UNCHANGED <<renaming, name, running, registered, table, browse, reading, network, leaked>>

\* The new table replaces one the pump may still hold.
Subscribe(c) ==
    /\ Goto(c, "subscribe", "free")
    /\ table'       = [table EXCEPT ![c] = Free]
    /\ subscribers' = subscribers \cup {c}
    /\ todo'        = todo \ {c}
    /\ hand'        = IF todo \subseteq {c} THEN None ELSE hand
    /\ missed'      = [missed EXCEPT ![c] = announced \ Awaited]
    /\ UNCHANGED <<renaming, name, running, registered, browse, pump, network, leaked>>

-----------------------------------------------------------------------------
(* NearbyState::stop and rename.                                           *)

\* Mutant: a rename leaves the flag alone.
MutantStop(c, rename) ==
    /\ Goto(c, "free", IF registered[c] = None THEN "unsubscribe" ELSE "unregister")
    /\ running'  = [running EXCEPT ![c] = @ /\ rename]
    /\ renaming' = [renaming EXCEPT ![c] = rename]

Stop(c, rename) ==
    /\ Goto(c, "free", IF registered[c] = None THEN "unsubscribe" ELSE "unregister")
    /\ running'  = [running EXCEPT ![c] = FALSE]
    /\ renaming' = [renaming EXCEPT ![c] = rename]

StopNearby(c) ==
    /\ Stop(c, FALSE)
    /\ UNCHANGED <<name, registered, table, subscribers, browse, reading, network, history>>

\* Mutant: only the next session takes the name.
MutantRename(c) ==
    /\ op[c] = "free" /\ name[c] < Renames
    /\ name' = [name EXCEPT ![c] = @ + 1]
    /\ UNCHANGED <<op, renaming, running, registered, table, subscribers, browse,
                   reading, network, history>>

Rename(c) ==
    /\ op[c] = "free" /\ name[c] < Renames
    /\ name' = [name EXCEPT ![c] = @ + 1]
    /\ IF registered[c] # None THEN Stop(c, TRUE) ELSE UNCHANGED <<op, running, renaming>>
    /\ UNCHANGED <<registered, table, subscribers, browse, reading, network, history>>

Unregister(c) ==
    /\ Goto(c, "unregister", "unsubscribe")
    /\ registered' = [registered EXCEPT ![c] = None]
    /\ \/ net' = net \ {<<c, registered[c]>>} /\ leaked' = leaked \ {<<c, registered[c]>>}
       \/ net' = net /\ leaked' = leaked \cup {<<c, registered[c]>>}
    /\ UNCHANGED <<renaming, name, running, table, subscribers, browse, reading,
                   chan, announced, missed>>

Unsubscribe(c) ==
    /\ Goto(c, "unsubscribe", "clear")
    /\ subscribers' = subscribers \ {c}
    /\ UNCHANGED <<renaming, name, running, registered, table, browse, reading,
                   network, history>>

Clear(c) ==
    /\ Goto(c, "clear", IF renaming[c] THEN "starting" ELSE "free")
    /\ renaming' = [renaming EXCEPT ![c] = FALSE]
    /\ table'    = [table EXCEPT ![c] = Free]
    /\ UNCHANGED <<name, running, registered, subscribers, browse, reading,
                   network, history>>

-----------------------------------------------------------------------------
(* The pump thread: one event at a time, into a snapshot of the tables.    *)

Take ==
    /\ pump # None /\ todo = {} /\ chan[pump] # <<>>
    /\ hand' = IF subscribers = {} THEN None ELSE Head(chan[pump])
    /\ todo' = subscribers
    /\ chan' = [chan EXCEPT ![pump] = Tail(@)]
    /\ UNCHANGED <<session, table, subscribers, browse, pump, announced, net, history>>

\* Mutant: any instance of a device that goes takes the device with it.
MutantFoldedByDevice(t, kind, d, v) ==
    IF kind = "removed" THEN [t EXCEPT ![d] = None]
    ELSE IF d \in Foreign THEN t ELSE [t EXCEPT ![d] = v]

\* Mutant: departures are left to a time-out nobody runs.
MutantFoldedNoRemoval(t, kind, d, v) ==
    IF kind = "resolved" /\ d \notin Foreign THEN [t EXCEPT ![d] = v] ELSE t

Folded(t, kind, d, v) ==
    IF kind = "removed" THEN [t EXCEPT ![d] = IF @ = v THEN None ELSE @]
    ELSE IF d \in Foreign THEN t ELSE [t EXCEPT ![d] = v]

ApplyEvent(c) ==
    /\ c \in todo
    /\ table' = [table EXCEPT ![c] = Folded(@, hand[1], hand[2][1], hand[2][2])]
    /\ todo'  = todo \ {c}
    /\ hand'  = IF todo = {c} THEN None ELSE hand
    /\ UNCHANGED <<session, subscribers, browse, pump, network, history>>

-----------------------------------------------------------------------------
(* External: the daemon, and the other devices.                            *)

Room    == listener # None /\ Len(chan[listener]) < MaxPending
Emit(e) == chan' = [chan EXCEPT ![listener] = Append(@, e)]

Announce(i) ==
    /\ Room /\ i \in net \ announced
    /\ Emit(<<"resolved", i>>)
    /\ announced' = announced \cup {i}
    /\ UNCHANGED <<session, table, subscribers, browse, reading, net, history>>

\* A goodbye, or the expiry of an instance that left without one.
Expire(i) ==
    /\ Room /\ i \in announced \ net
    /\ Emit(<<"removed", i>>)
    /\ announced' = announced \ {i}
    /\ missed' = [c \in Cores |-> missed[c] \ {i}]
    /\ UNCHANGED <<session, table, subscribers, browse, reading, net, leaked>>

Arrive(o) ==
    /\ Of(o, net) = {}
    /\ \E v \in name[o]..Renames :
          name' = [name EXCEPT ![o] = v] /\ net' = net \cup {<<o, v>>}
    /\ UNCHANGED <<op, renaming, running, registered, table, subscribers, browse,
                   reading, chan, announced, history>>

Leave(o) ==
    /\ Of(o, net) # {}
    /\ net' = net \ Of(o, net)
    /\ UNCHANGED <<session, table, subscribers, browse, reading, chan, announced, history>>

-----------------------------------------------------------------------------
User(c)  == StartNearby(c) \/ StopNearby(c) \/ Rename(c)
\* The holder of the lock goes on.
Task(c)  == Register(c) \/ RegisterFails(c) \/ EnsureBrowse(c) \/ Browse(c) \/ BrowseFails(c)
            \/ Claim(c) \/ Subscribe(c) \/ Unregister(c) \/ Unsubscribe(c) \/ Clear(c)
Pump     == Take \/ \E c \in Cores : ApplyEvent(c)
Daemon   == \E i \in Instances : Announce(i) \/ Expire(i)
Next     == \/ \E c \in Cores : User(c) \/ Task(c)
            \/ Pump \/ Daemon
            \/ \E o \in Others : Arrive(o) \/ Leave(o)

Spec     == Init /\ [][Next]_vars
\* Holders of the lock and the pump run on; the daemon keeps announcing.
FairSpec == /\ Spec /\ WF_vars(Pump)
            /\ \A c \in Cores : WF_vars(Task(c))
            /\ \A i \in Instances : WF_vars(Announce(i)) /\ WF_vars(Expire(i))

-----------------------------------------------------------------------------
Ops == {"free", "starting", "ensure", "browse", "claim", "subscribe",
        "unregister", "unsubscribe", "clear"}

\* The state stays within its types.
TypeOK ==
    /\ op \in [Cores -> Ops] /\ renaming \in [Cores -> BOOLEAN]
    /\ name \in [Devices -> Versions]
    /\ running \in [Cores -> BOOLEAN] /\ registered \in [Cores -> Versions \cup {None}]
    /\ table \in [Cores -> [Devices -> Versions \cup {None}]]
    /\ subscribers \subseteq Cores /\ started \in BOOLEAN
    /\ pump \in Cores \cup {None} /\ listener \in Cores \cup {None}
    /\ hand \in Events \cup {None} /\ todo \subseteq Cores /\ (todo # {} => hand \in Events)
    /\ chan \in [Cores -> Seq(Events)]
    /\ announced \subseteq Instances /\ net \subseteq Instances /\ leaked \subseteq Instances
    /\ missed \in [Cores -> SUBSET Instances]

\* Between operations a session is on or off as a whole: the flag the offer gate
\* reads, the advertisement and the subscription agree, after a rename whose
\* start failed too (discover.rs:350-368, 376-401; offer.rs:157-161).
SessionWhole ==
    \A c \in Cores : op[c] = "free" =>
        /\ (running[c] <=> registered[c] # None)
        /\ (running[c] <=> c \in subscribers)

\* Between operations a device is advertised while its session is on, under its
\* present name and no older one, unless the daemon refused to unregister it
\* (discover.rs:373-375, 390-398).
AdvertisedAsNamed ==
    \A c \in Cores : op[c] = "free" =>
        Of(c, net) \ leaked = IF running[c] THEN {<<c, name[c]>>} \ leaked ELSE {}

Quiet == pump # None /\ pump = listener /\ chan[pump] = <<>> /\ todo = {}
Listed(c) == {d \in Devices \ {c} : table[c][d] # None}

\* Once every event has been applied, a session lists only devices the daemon
\* still holds for present (discover.rs:404-410).
ListedArePresent ==
    Quiet => \A c \in subscribers : \A d \in Listed(c) : <<d, table[c][d]>> \in announced

\* Once every event has been applied, a session lists each announced device
\* under its present name, unless the pump handled the announcement before the
\* table of the session existed (discover.rs:353-368).
ListedUnlessMissed ==
    Quiet => \A c \in subscribers, i \in announced \cap net :
        \/ i[1] \in Foreign \/ i \in missed[c] \/ Of(i[1], leaked) # {}
        \/ table[c][i[1]] = i[2]

\* A device that stays away is dropped from the list of a session that stays on
\* (discover.rs:410).
DepartedIsForgotten ==
    \A c \in Cores, d \in Devices :
        (c \in subscribers /\ table[c][d] # None /\ Of(d, net) = {})
            ~> (c \notin subscribers \/ table[c][d] = None \/ Of(d, net) # {} \/ pump # listener)

=============================================================================
