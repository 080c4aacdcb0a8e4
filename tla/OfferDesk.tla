----------------------------- MODULE OfferDesk -----------------------------
(***************************************************************************)
(* An incoming offer on its way to the receiving user and back: the        *)
(* broadcast of route_offer (core/src/offer.rs), the pump and the commands *)
(* of src-tauri/src/lib.rs, and the window (ui/app.js) with its consent    *)
(* dialog, its queue, its timers, and the peer it remembers when a receive *)
(* is done.  The window is one thread: its handlers run to their next      *)
(* await, and go on with what they had read before it.                     *)
(*                                                                         *)
(* Time passes in ticks, and only while no local step is due.              *)
(***************************************************************************)
EXTENDS Naturals, Sequences, SequencesExt

CONSTANTS
    Offers,
    Devices,
    Device,     \* the device an offer comes from
    Code,       \* a code typed in, its sender unknown
    Calls,      \* calls of nearby_respond under way at once
    Cap,        \* capacity of the broadcast channel, 64
    Wait,       \* ANSWER_WAIT
    Ttl,        \* OFFER_TTL_MS
    SkipCode,   \* PREFS.skipCodeForTrusted
    Remembered, \* devices remembered at first
    None

ASSUME DeviceAssumption == Device \in [Offers -> Devices] /\ Remembered \subseteq Devices
ASSUME NameAssumption   == Code \notin Offers /\ None \notin Offers \cup Devices \cup {Code}
ASSUME TimeAssumption   == Cap \in Nat \ {0} /\ Wait \in Nat /\ Ttl \in Nat /\ Ttl < Wait
ASSUME SkipAssumption   == SkipCode \in BOOLEAN

VARIABLES
    running,    \* nearby_running
    starting,   \* a nearby_start has set it and not yet reached its pump
    pump,       \* is the pump subscribed?
    entry,      \* what the engine's maps have of each offer
    bus,        \* the pump's part of the broadcast channel
    mail,       \* nearby-offer events on their way to the window
    call,       \* the calls of nearby_respond
    dialog,     \* offerState
    enabled,    \* can Accept be pressed?
    since,      \* ticks since the dialog came up, nearby.offerTimer
    closing,    \* dialogs that expired and close in a moment
    queue,      \* nearby.queue
    overlay,    \* what else is open: the preview, a sheet
    previewed,  \* previewTicket
    receiving,  \* receives under way
    peer,       \* lastOfferPeer
    remembering,\* devices whose trust_remember is under way
    trusted,    \* PREFS.trusted
    age,        \* ticks since each offer arrived
    missed,     \* history: offers the channel dropped
    dropped,    \* history: offers whose dialog closed
    silent,     \* history: has a sheet closed with nothing else open?
    received    \* history: what has been received

engine  == <<running, starting, pump, entry, bus, age, missed>>
screen  == <<dialog, enabled, since, closing, queue, dropped>>
preview == <<overlay, previewed, silent>>
trust   == <<receiving, peer, remembering, trusted, received>>
vars    == <<engine, mail, call, screen, preview, trust>>

Idle  == [kind |-> "idle", offer |-> None, result |-> "none"]
Panes == {"preview", "sheet"}

Init ==
    /\ running = FALSE /\ starting = FALSE /\ pump = FALSE
    /\ entry = [o \in Offers |-> "new"] /\ age = [o \in Offers |-> 0]
    /\ bus = <<>> /\ mail = <<>> /\ missed = {}
    /\ call = [c \in Calls |-> Idle]
    /\ dialog = None /\ enabled = FALSE /\ since = 0 /\ closing = {}
    /\ queue = <<>> /\ dropped = {}
    /\ overlay = {} /\ previewed = None /\ silent = FALSE
    /\ receiving = {} /\ received = {}
    /\ peer = None /\ remembering = {} /\ trusted = Remembered

-----------------------------------------------------------------------------
(* The engine and the pump.                                                *)

\* Only the first start has a pump to spawn.
StartNearby ==
    /\ ~starting
    /\ running' = TRUE /\ starting' = ~pump
    /\ UNCHANGED <<pump, entry, bus, age, missed, mail, call, screen, preview, trust>>

\* One subscription for the life of the process; what came before it is lost.
SpawnPump ==
    /\ starting
    /\ starting' = FALSE /\ pump' = TRUE
    /\ UNCHANGED <<running, entry, bus, age, missed, mail, call, screen, preview, trust>>

StopNearby ==
    /\ running
    /\ running' = FALSE
    /\ UNCHANGED <<starting, pump, entry, bus, age, missed, mail, call, screen, preview, trust>>

\* A full channel loses its oldest message.
Broadcast(o) ==
    \/ /\ pump /\ Len(bus) < Cap
       /\ bus' = Append(bus, o) /\ UNCHANGED missed
    \/ /\ pump /\ Len(bus) = Cap
       /\ bus' = Append(Tail(bus), o) /\ missed' = missed \cup {Head(bus)}
    \/ /\ ~pump
       /\ missed' = missed \cup {o} /\ UNCHANGED bus

\* route_offer; the offer is declined at once while sharing is off.
Arrive(o) ==
    /\ entry[o] = "new"
    /\ \/ /\ running
          /\ entry' = [entry EXCEPT ![o] = "open"]
          /\ Broadcast(o)
       \/ /\ ~running
          /\ entry' = [entry EXCEPT ![o] = "declined"]
          /\ UNCHANGED <<bus, missed>>
    /\ UNCHANGED <<running, starting, pump, age, mail, call, screen, preview, trust>>

\* The pump goes on after Lagged.
Recv ==
    /\ pump /\ bus # <<>>
    /\ mail' = Append(mail, Head(bus)) /\ bus' = Tail(bus)
    /\ UNCHANGED <<running, starting, pump, entry, age, missed, call, screen, preview, trust>>

\* expire_offer, once the parked connection has waited long enough.
LapseDue(o) == entry[o] = "open" /\ age[o] = Wait
Lapse(o) ==
    /\ LapseDue(o)
    /\ entry' = [entry EXCEPT ![o] = "lapsed"]
    /\ UNCHANGED <<running, starting, pump, bus, age, missed, mail, call, screen, preview, trust>>

Verdict(kind) == IF kind = "decline" THEN "declined" ELSE "accepted"

\* respond_offer: Ok for the call that takes the waiter, an error for all others.
Serve(c) ==
    LET o == call[c].offer IN
    /\ call[c].result = "waiting"
    /\ \/ /\ entry[o] = "open"
          /\ entry' = [entry EXCEPT ![o] = Verdict(call[c].kind)]
          /\ call'  = [call EXCEPT ![c].result = "ok"]
       \/ /\ entry[o] # "open"
          /\ call' = [call EXCEPT ![c].result = "error"]
          /\ UNCHANGED entry
    /\ UNCHANGED <<running, starting, pump, bus, age, missed, mail, screen, preview, trust>>

-----------------------------------------------------------------------------
(* The window: what is on screen.                                          *)

Invoke(c, kind, o) ==
    /\ call[c] = Idle
    /\ call' = [call EXCEPT ![c] = [kind |-> kind, offer |-> o, result |-> "waiting"]]

Covered == dialog # None \/ overlay # {}

\* Whatever is on screen.
showOfferModal(o) ==
    /\ dialog' = o /\ enabled' = TRUE /\ since' = 0
    /\ silent' = FALSE

\* The dialog that is shown goes, whoever asked; the next offer comes up unless
\* something else is open.
HideOffer ==
    /\ dialog' = None /\ enabled' = FALSE /\ since' = 0
    /\ dropped' = dropped \cup ({dialog} \ {None})

\* Mutant: the next offer is taken off the queue before it is known to be shown.
MutantShowNext(panes) ==
    \/ /\ queue # <<>> /\ panes = {}
       /\ showOfferModal(Head(queue)) /\ queue' = Tail(queue)
    \/ /\ queue # <<>> /\ panes # {}
       /\ dialog' = None /\ enabled' = FALSE /\ since' = 0 /\ queue' = Tail(queue)
       /\ UNCHANGED silent
    \/ /\ queue = <<>>
       /\ dialog' = None /\ enabled' = FALSE /\ since' = 0 /\ UNCHANGED <<queue, silent>>

\* showNextOffer, when no dialog is up and these panes are left.
ShowNext(panes) ==
    \/ /\ queue # <<>> /\ panes = {}
       /\ showOfferModal(Head(queue)) /\ queue' = Tail(queue)
    \/ /\ queue = <<>> \/ panes # {}
       /\ dialog' = None /\ enabled' = FALSE /\ since' = 0 /\ UNCHANGED <<queue, silent>>

closeOfferModal ==
    /\ ShowNext(overlay)
    /\ dropped' = dropped \cup ({dialog} \ {None})
    /\ UNCHANGED <<closing, overlay, previewed>>

\* The preview of another ticket is replaced.
openPreview(t) ==
    /\ overlay' = overlay \cup {"preview"} /\ previewed' = t /\ silent' = FALSE

isTrusted(o) == Device[o] \in trusted

\* enqueueOffer, on the next event.
Skip(c, o) ==
    /\ SkipCode /\ isTrusted(o)
    /\ Invoke(c, "skip", o)
    /\ peer' = Device[o]
    /\ UNCHANGED <<screen, preview, receiving, remembering, trusted, received>>

Enqueue(o) ==
    /\ ~(SkipCode /\ isTrusted(o))
    /\ \/ /\ Covered
          /\ queue' = Append(queue, o)
          /\ UNCHANGED <<dialog, enabled, since, silent>>
       \/ /\ ~Covered
          /\ showOfferModal(o) /\ UNCHANGED queue
    /\ UNCHANGED <<closing, dropped, overlay, previewed, call, trust>>

Event ==
    /\ mail # <<>>
    /\ mail' = Tail(mail)
    /\ Enqueue(Head(mail)) \/ \E c \in Calls : Skip(c, Head(mail))
    /\ UNCHANGED engine

-----------------------------------------------------------------------------
(* The window: the buttons of the dialog, and what follows the answer.     *)

ClickAccept(c) ==
    /\ dialog # None /\ enabled
    /\ Invoke(c, "accept", dialog)
    /\ enabled' = FALSE
    /\ UNCHANGED <<engine, mail, dialog, since, closing, queue, dropped, preview, trust>>

ClickDecline(c) ==
    /\ dialog # None
    /\ Invoke(c, "decline", dialog)
    /\ UNCHANGED <<engine, mail, screen, preview, trust>>

\* Mutant: the dialog of an offer that expired stays until the user closes it.
MutantExpire(o) ==
    IF dialog = o THEN enabled' = FALSE /\ UNCHANGED closing
    ELSE UNCHANGED <<enabled, closing>>

\* expireOfferModal, for the dialog of that offer alone.
expireOfferModal(o) ==
    IF dialog = o THEN enabled' = FALSE /\ closing' = closing \cup {o}
    ELSE UNCHANGED <<enabled, closing>>

\* Mutant: the preview opens whatever the engine has answered.
MutantAccepted(c) == call[c].kind = "accept"
Accepted(c)       == call[c].kind = "accept" /\ call[c].result = "ok"

\* The accept handler closes whatever dialog is up by now.
AcceptReturns(c) ==
    LET o == call[c].offer IN
    /\ call[c].kind = "accept"
    /\ \/ /\ Accepted(c)
          /\ peer' = Device[o]
          /\ HideOffer /\ openPreview(o) /\ UNCHANGED <<closing, queue>>
       \/ /\ ~Accepted(c)
          /\ expireOfferModal(o)
          /\ UNCHANGED <<peer, dialog, since, queue, dropped, preview>>
    /\ UNCHANGED <<receiving, remembering, trusted, received>>

DeclineReturns(c) ==
    /\ call[c].kind = "decline"
    /\ closeOfferModal
    /\ UNCHANGED trust

\* Of a device that is trusted the dialog comes up only when the answer failed.
SkipReturns(c) ==
    LET o == call[c].offer IN
    /\ call[c].kind = "skip"
    /\ \/ /\ call[c].result = "ok"
          /\ openPreview(o) /\ UNCHANGED <<dialog, enabled, since, dropped>>
       \/ /\ call[c].result = "error"
          /\ showOfferModal(o) /\ dropped' = dropped \cup ({dialog} \ {None})
          /\ UNCHANGED <<overlay, previewed>>
    /\ UNCHANGED <<closing, queue, trust>>

Return(c) ==
    /\ call[c].result \in {"ok", "error"}
    /\ call' = [call EXCEPT ![c] = Idle]
    /\ AcceptReturns(c) \/ DeclineReturns(c) \/ SkipReturns(c)
    /\ UNCHANGED <<engine, mail>>

\* Escape, or a click beside the dialog: no answer is given.
Dismiss ==
    /\ dialog # None
    /\ closeOfferModal
    /\ UNCHANGED <<engine, mail, call, trust>>

\* Mutant: the timer of the window is longer than the engine's.
MutantExpireDue == dialog # None /\ dialog \notin closing /\ since = Wait + 1
ExpireDue       == dialog # None /\ dialog \notin closing /\ since = Ttl

Expire ==
    /\ ExpireDue
    /\ expireOfferModal(dialog)
    /\ UNCHANGED <<engine, mail, call, dialog, since, queue, dropped, preview, trust>>

\* The dialog closes a moment after it expired, if it is still up.
Fade(o) ==
    /\ o \in closing
    /\ closing' = closing \ {o}
    /\ \/ /\ dialog = o
          /\ ShowNext(overlay)
          /\ dropped' = dropped \cup {o} /\ UNCHANGED <<overlay, previewed>>
       \/ /\ dialog # o
          /\ UNCHANGED <<dialog, enabled, since, queue, dropped, preview>>
    /\ UNCHANGED <<engine, mail, call, trust>>

-----------------------------------------------------------------------------
(* The window: the preview and the sheets.  The dialog lies above them, but *)
(* their buttons have the focus when they open beneath it.                 *)

\* The settings open from a key whatever is on screen.
OpenSheet ==
    /\ overlay' = overlay \cup {"sheet"}
    /\ UNCHANGED <<engine, mail, call, screen, previewed, silent, trust>>

\* Settings, history, text and set-up close without a look at the queue.
CloseSheet ==
    /\ "sheet" \in overlay
    /\ overlay' = overlay \ {"sheet"}
    /\ silent' = (overlay = {"sheet"} /\ dialog = None)
    /\ UNCHANGED <<engine, mail, call, screen, previewed, trust>>

\* Also a code typed in the tray's panel, over whatever is on screen.
TypeCode ==
    /\ openPreview(Code)
    /\ UNCHANGED <<engine, mail, call, screen, trust>>

closePreview ==
    /\ "preview" \in overlay
    /\ overlay' = overlay \ {"preview"} /\ previewed' = None
    /\ \/ dialog = None /\ ShowNext(overlay')
       \/ dialog # None /\ UNCHANGED <<dialog, enabled, since, queue, silent>>
    /\ UNCHANGED <<engine, mail, call, closing, dropped>>

ClosePreview == closePreview /\ UNCHANGED trust

\* Accept in the preview begins the receive.
AcceptPreview ==
    /\ closePreview
    /\ receiving' = receiving \cup {previewed}
    /\ UNCHANGED <<peer, remembering, trusted, received>>

\* The peer of the last accepted offer is to be remembered.
ReceiveDone(t) ==
    /\ t \in receiving
    /\ receiving' = receiving \ {t} /\ received' = received \cup {t}
    /\ remembering' = remembering \cup ({peer} \ {None}) /\ peer' = None
    /\ UNCHANGED <<engine, mail, call, screen, preview, trusted>>

\* The reply of trust_remember brings the list with the device in it.
RememberReturns(d) ==
    /\ d \in remembering
    /\ remembering' = remembering \ {d} /\ trusted' = trusted \cup {d}
    /\ UNCHANGED <<engine, mail, call, screen, preview, receiving, peer, received>>

ReceiveFails(t) ==
    /\ t \in receiving
    /\ receiving' = receiving \ {t}
    /\ UNCHANGED <<engine, mail, call, screen, preview, peer, remembering, trusted, received>>

-----------------------------------------------------------------------------
\* External: the clock.  Steps of this machine take no time beside the waits.
Due ==
    \/ pump /\ bus # <<>>
    \/ mail # <<>>
    \/ \E c \in Calls : call[c] # Idle
    \/ \E o \in Offers : LapseDue(o)
    \/ ExpireDue
    \/ dialog \in closing

Tick ==
    /\ ~Due
    /\ dialog # None \/ \E o \in Offers : entry[o] = "open"
    /\ age'   = [o \in Offers |-> IF entry[o] = "open" THEN age[o] + 1 ELSE age[o]]
    /\ since' = IF dialog = None THEN since ELSE since + 1
    /\ UNCHANGED <<running, starting, pump, entry, bus, missed, mail, call, dialog,
                   enabled, closing, queue, dropped, preview, trust>>

User ==
    \/ StartNearby \/ StopNearby
    \/ \E c \in Calls : ClickAccept(c) \/ ClickDecline(c)
    \/ Dismiss \/ OpenSheet \/ CloseSheet \/ TypeCode \/ ClosePreview \/ AcceptPreview

Next ==
    \/ User \/ SpawnPump \/ Recv \/ Event \/ Expire \/ Tick
    \/ \E c \in Calls : Serve(c) \/ Return(c)
    \/ \E o \in Offers : Arrive(o) \/ Lapse(o) \/ Fade(o)
    \/ \E t \in Offers \cup {Code} : ReceiveDone(t) \/ ReceiveFails(t)
    \/ \E d \in Devices : RememberReturns(d)

Spec == Init /\ [][Next]_vars

\* The tasks of this machine run, its timers fire, and time passes.
Fairness ==
    /\ WF_vars(Recv) /\ WF_vars(Event) /\ WF_vars(Expire) /\ WF_vars(Tick)
    /\ \A c \in Calls : WF_vars(Serve(c)) /\ WF_vars(Return(c))
    /\ \A o \in Offers : WF_vars(Lapse(o)) /\ WF_vars(Fade(o))

FairSpec == Spec /\ Fairness

-----------------------------------------------------------------------------
EngineOK ==
    /\ running \in BOOLEAN /\ starting \in BOOLEAN /\ pump \in BOOLEAN
    /\ entry \in [Offers -> {"new", "open", "accepted", "declined", "lapsed"}]
    /\ age \in [Offers -> 0..Wait]
    /\ bus \in Seq(Offers) /\ Len(bus) <= Cap /\ missed \subseteq Offers

CallOK == call \in [Calls -> [kind : {"accept", "decline", "skip"}, offer : Offers,
                              result : {"waiting", "ok", "error"}] \cup {Idle}]

ScreenOK ==
    /\ dialog \in Offers \cup {None} /\ enabled \in BOOLEAN /\ since \in 0..Ttl
    /\ dialog = None => ~enabled /\ since = 0
    /\ closing \subseteq Offers /\ queue \in Seq(Offers) /\ dropped \subseteq Offers

PreviewOK ==
    /\ overlay \subseteq Panes /\ previewed \in Offers \cup {Code, None}
    /\ "preview" \in overlay <=> previewed # None
    /\ silent \in BOOLEAN

TrustOK ==
    /\ receiving \subseteq Offers \cup {Code} /\ received \subseteq Offers \cup {Code}
    /\ peer \in Devices \cup {None} /\ remembering \subseteq Devices /\ trusted \subseteq Devices

\* Every variable stays in its domain, what is not on screen has no timer, and the
\* preview shows a ticket.
TypeOK == EngineOK /\ mail \in Seq(Offers) /\ CallOK /\ ScreenOK /\ PreviewOK /\ TrustOK

InHand == {call[c].offer : c \in {d \in Calls : call[d] # Idle}}

\* No offer falls between the parts: while the engine waits for an answer it is on
\* its way, queued, shown or being answered, unless the channel dropped it or its
\* dialog closed; and the queue waits only while something is on screen, or after
\* a sheet that covered it (offer.rs:528, lib.rs:271-281, app.js:1161-1168, 675-680).
NoneForgotten ==
    /\ \A o \in Offers : entry[o] = "open" =>
          o \in ToSet(bus \o mail \o queue) \cup {dialog} \cup InHand \cup missed \cup dropped
    /\ queue # <<>> => Covered \/ silent

\* The preview of an offer opens, and its files are received, only when the engine
\* has taken this user's yes, though dialogs, queue and timers went on during the
\* await (app.js:1223-1236, 1154-1156).
PreviewConsented ==
    \A o \in Offers : previewed = o \/ o \in receiving \cup received => entry[o] = "accepted"

\* A dialog that came up soon enough expires before the engine gives up on the
\* offer: as long as Accept can be pressed and no answer is under way, the offer is
\* there to be accepted (app.js:1138, 1191; offer.rs:458-462).
FreshCanBeAccepted ==
    enabled /\ age[dialog] - since <= Wait - Ttl - 1 /\ dialog \notin InHand
        => entry[dialog] = "open"

\* Every dialog goes, also when the user does nothing and whatever covers or
\* replaces it: its own timer closes it (app.js:1190-1211).
DialogCloses == \A o \in Offers : dialog = o ~> dialog # o

\* "so a completed transfer can remember the device it actually happened with"
\* (app.js:1135-1136): a device is remembered for a transfer from it.
TrustIsEarned ==
    trusted \subseteq Remembered \cup {Device[o] : o \in received \cap Offers}

=============================================================================
