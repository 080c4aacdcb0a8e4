------------------------------ MODULE Consent ------------------------------
(***************************************************************************)
(* The consent handshake of a nearby offer, end to end: deliver_offer at   *)
(* the sender, the connection it opens, the control handler the receiver   *)
(* parks it on (core/src/control.rs), the two maps of ConsentCtx, and the  *)
(* respond_offer calls of the receiving user (core/src/offer.rs).          *)
(*                                                                         *)
(* Time is counted in ticks that only pass while every local step is done: *)
(* the waits are minutes, the steps between two locks are not.             *)
(***************************************************************************)
EXTENDS Naturals, FiniteSets

CONSTANTS
    Offers,          \* offer ids, one connection each
    Malformed,       \* those whose ticket does not parse
    Callers,         \* calls of respond_offer
    ANSWER_WAIT,     \* how long the receiver parks an offer (115 s)
    ANSWER_TIMEOUT,  \* how long the sender waits (120 s)
    MaxDelay,        \* how long a frame travels at most
    NoOffer          \* a call not made yet

ASSUME MalformedAssumption == Malformed \subseteq Offers
ASSUME NoOfferAssumption   == NoOffer \notin Offers
\* The five seconds between the two waits cover a frame in each direction.
ASSUME TimingAssumption ==
    /\ ANSWER_WAIT \in Nat /\ ANSWER_TIMEOUT \in Nat /\ MaxDelay \in Nat
    /\ ANSWER_WAIT + 2 * MaxDelay < ANSWER_TIMEOUT

VARIABLES
    sender,   \* deliver_offer of each offer
    link,     \* its connection
    wire,     \* the frame travelling on it
    handler,  \* Ctrl::accept of that connection
    reply,    \* the frame the handler answers, or is about to
    queue,    \* the verdict channel of the parked handler
    waiter,   \* ConsentCtx.verdict_waiters: is the offer in it?
    pending,  \* ConsentCtx.incoming_offers: is the offer in it?
    nearby,   \* ConsentCtx.nearby_running
    call,     \* respond_offer calls
    since,    \* ticks the sender has been waiting
    parked,   \* ticks the handler has been parked
    travel,   \* ticks the frame on the wire has been travelling
    shown,    \* history: offers broadcast to the user interface
    will      \* history: the user's verdict that reached the handler

ends   == <<sender, link, wire, handler, reply>>
ctx    == <<queue, waiter, pending, nearby>>
clocks == <<since, parked, travel>>
views  == <<shown, will>>
vars   == <<sender, link, wire, handler, reply, queue, waiter, pending, nearby,
            call, since, parked, travel, shown, will>>

Verdicts == {"accept", "decline"}
Final    == {"accepted", "declined", "unreachable", "lost", "timeout"}
Senders  == {"idle", "dialing", "awaiting"} \cup Final
Handlers == {"none", "routing", "parked", "expiring", "forgetting", "answering",
             "closing", "closed"}
Calls    == [at : {"idle", "found", "sent", "done"}, offer : Offers \cup {NoOffer},
             verdict : Verdicts, ok : BOOLEAN]
NoCall   == [at |-> "idle", offer |-> NoOffer, verdict |-> "decline", ok |-> FALSE]

Init ==
    /\ sender  = [o \in Offers |-> "idle"]
    /\ link    = [o \in Offers |-> "none"]
    /\ wire    = [o \in Offers |-> "none"]
    /\ handler = [o \in Offers |-> "none"]
    /\ reply   = [o \in Offers |-> "decline"]
    /\ queue   = [o \in Offers |-> "none"]
    /\ waiter  = [o \in Offers |-> FALSE]
    /\ pending = [o \in Offers |-> FALSE]
    /\ nearby  \in BOOLEAN
    /\ call    = [u \in Callers |-> NoCall]
    /\ since   = [o \in Offers |-> 0]
    /\ parked  = [o \in Offers |-> 0]
    /\ travel  = [o \in Offers |-> 0]
    /\ shown   = [o \in Offers |-> FALSE]
    /\ will    = [o \in Offers |-> "none"]

-----------------------------------------------------------------------------
(* The sender: deliver_offer.                                              *)

Dial(o) ==
    /\ sender[o] = "idle"
    /\ sender' = [sender EXCEPT ![o] = "dialing"]
    /\ UNCHANGED <<link, wire, handler, reply, ctx, call, clocks, views>>

\* Connected, the offer written and the stream finished; the wait begins.
SendOffer(o) ==
    /\ sender[o] = "dialing"
    /\ sender' = [sender EXCEPT ![o] = "awaiting"]
    /\ link' = [link EXCEPT ![o] = "up"]
    /\ wire' = [wire EXCEPT ![o] = "offer"]
    /\ UNCHANGED <<handler, reply, ctx, call, clocks, views>>

\* Mutant: any answer counts as a yes.
AnswerMeansYes(o) == "accepted"
AnswerMeans(o)    == IF reply[o] = "accept" THEN "accepted" ELSE "declined"

\* Mutant: the wait ends only on a live connection.
AnswerDueUp(o) == since[o] = ANSWER_TIMEOUT /\ link[o] = "up"
AnswerDue(o)   == since[o] = ANSWER_TIMEOUT

\* deliver_offer returns and drops its connection.
Conclude(o, outcome) ==
    /\ sender' = [sender EXCEPT ![o] = outcome]
    /\ link' = [link EXCEPT ![o] = IF @ = "up" THEN "closed" ELSE @]
    /\ wire' = [wire EXCEPT ![o] = "none"]
    /\ UNCHANGED <<handler, reply, ctx, call, clocks, views>>

Unreachable(o) == sender[o] = "dialing" /\ Conclude(o, "unreachable")

ReadAnswer(o) ==
    /\ sender[o] = "awaiting"
    /\ wire[o] = "answer"
    /\ Conclude(o, AnswerMeans(o))

ReadFails(o) ==
    /\ sender[o] = "awaiting"
    /\ link[o] = "lost"
    /\ Conclude(o, "lost")

AnswerTimeout(o) ==
    /\ sender[o] = "awaiting"
    /\ AnswerDue(o)
    /\ Conclude(o, "timeout")

-----------------------------------------------------------------------------
(* The network.                                                            *)

LoseLink(o) ==
    /\ link[o] = "up"
    /\ link' = [link EXCEPT ![o] = "lost"]
    /\ wire' = [wire EXCEPT ![o] = "none"]
    /\ UNCHANGED <<sender, handler, reply, ctx, call, clocks, views>>

-----------------------------------------------------------------------------
(* The receiver: Ctrl::accept on an Offer frame.                           *)

\* Mutant: the waiter is used where it lies.
TakenNot(o) == waiter
Taken(o)    == [waiter EXCEPT ![o] = FALSE]

\* Mutant: the channel is read without waiting for a verdict.
HasVerdictAlways(o) == TRUE
HasVerdict(o)       == queue[o] # "none"

\* Mutant: the receiver waits as long as the sender.
WaitDueLate(o) == parked[o] = ANSWER_TIMEOUT
WaitDue(o)     == parked[o] = ANSWER_WAIT

\* Mutant: a connection that broke is taken for a live one.
LinkGoneOrderly(o) == link[o] = "closed"
LinkGone(o)        == link[o] # "up"

\* The answer channel is registered before the offer is routed.
Park(o) ==
    /\ wire[o] = "offer"
    /\ wire' = [wire EXCEPT ![o] = "none"]
    /\ handler' = [handler EXCEPT ![o] = "routing"]
    /\ waiter' = [waiter EXCEPT ![o] = TRUE]
    /\ travel' = [travel EXCEPT ![o] = 0]
    /\ UNCHANGED <<sender, link, reply, queue, pending, nearby, call, since,
                   parked, views>>

\* route_offer.  Hidden, or a ticket that does not parse: the handler declines
\* through its own channel.  Otherwise the offer is listed and broadcast.
Route(o) ==
    /\ handler[o] = "routing"
    /\ handler' = [handler EXCEPT ![o] = "parked"]
    /\ \/ /\ ~nearby \/ o \in Malformed
          /\ waiter' = Taken(o)
          /\ queue' = [queue EXCEPT ![o] = "decline"]
          /\ UNCHANGED <<pending, shown>>
       \/ /\ nearby /\ o \notin Malformed
          /\ pending' = [pending EXCEPT ![o] = TRUE]
          /\ shown' = [shown EXCEPT ![o] = TRUE]
          /\ UNCHANGED <<waiter, queue>>
    /\ UNCHANGED <<sender, link, wire, reply, nearby, call, clocks, will>>

\* A verdict in the channel wins over a timer that is due.
Wake(o) ==
    /\ handler[o] = "parked"
    /\ HasVerdict(o)
    /\ handler' = [handler EXCEPT ![o] = "answering"]
    /\ reply' = [reply EXCEPT ![o] = queue[o]]
    /\ queue' = [queue EXCEPT ![o] = "none"]
    /\ UNCHANGED <<sender, link, wire, waiter, pending, nearby, call, clocks,
                   views>>

WaitElapsed(o) ==
    /\ handler[o] = "parked"
    /\ ~HasVerdict(o)
    /\ WaitDue(o)
    /\ handler' = [handler EXCEPT ![o] = "expiring"]
    /\ UNCHANGED <<sender, link, wire, reply, ctx, call, clocks, views>>

\* expire_offer: one map, then the other.
ForgetWaiter(o) ==
    /\ handler[o] = "expiring"
    /\ handler' = [handler EXCEPT ![o] = "forgetting"]
    /\ waiter' = Taken(o)
    /\ UNCHANGED <<sender, link, wire, reply, queue, pending, nearby, call,
                   clocks, views>>

ForgetOffer(o) ==
    /\ handler[o] = "forgetting"
    /\ handler' = [handler EXCEPT ![o] = "answering"]
    /\ pending' = [pending EXCEPT ![o] = FALSE]
    /\ UNCHANGED <<sender, link, wire, reply, queue, waiter, nearby, call,
                   clocks, views>>

\* The echo; a write on a dead connection is ignored.
Answer(o) ==
    /\ handler[o] = "answering"
    /\ handler' = [handler EXCEPT ![o] = "closing"]
    /\ wire' = [wire EXCEPT ![o] = IF link[o] = "up" THEN "answer" ELSE @]
    /\ UNCHANGED <<sender, link, reply, ctx, call, clocks, views>>

\* connection.closed() returns; the verdict receiver is dropped with the task.
Close(o) ==
    /\ handler[o] = "closing"
    /\ LinkGone(o)
    /\ handler' = [handler EXCEPT ![o] = "closed"]
    /\ queue' = [queue EXCEPT ![o] = "none"]
    /\ UNCHANGED <<sender, link, wire, reply, waiter, pending, nearby, call,
                   clocks, views>>

-----------------------------------------------------------------------------
(* The receiving user.                                                     *)

\* start_nearby and stop_nearby.
Toggle ==
    /\ nearby' = ~nearby
    /\ UNCHANGED <<ends, queue, waiter, pending, call, clocks, views>>

\* respond_offer on an offer the user was shown; an unlisted one is NotFound.
Respond(u, o, v) ==
    /\ call[u].at = "idle"
    /\ shown[o]
    /\ call' = [call EXCEPT ![u] =
                   [at |-> IF pending[o] THEN "found" ELSE "done",
                    offer |-> o, verdict |-> v, ok |-> FALSE]]
    /\ UNCHANGED <<ends, ctx, clocks, views>>

\* The call moves on, with the answer it will return.
CallAt(u, at, ok) ==
    [at |-> at, offer |-> call[u].offer, verdict |-> call[u].verdict, ok |-> ok]

\* resolve_verdict: take the waiter out, if it is there, and send down it.
Resolve(u) ==
    LET o == call[u].offer
        delivered == waiter[o] /\ handler[o] # "closed"
    IN
    /\ call[u].at = "found"
    /\ call' = [call EXCEPT ![u] = CallAt(u, "sent", delivered)]
    /\ waiter' = Taken(o)
    /\ queue' = [queue EXCEPT ![o] = IF delivered THEN call[u].verdict ELSE @]
    /\ will' = [will EXCEPT ![o] = IF delivered THEN call[u].verdict ELSE @]
    /\ UNCHANGED <<ends, pending, nearby, clocks, shown>>

\* The offer is spent; without a delivery the call is an error.
Spend(u) ==
    /\ call[u].at = "sent"
    /\ call' = [call EXCEPT ![u] = CallAt(u, "done", call[u].ok)]
    /\ pending' = [pending EXCEPT ![call[u].offer] = FALSE]
    /\ UNCHANGED <<ends, queue, waiter, nearby, clocks, views>>

-----------------------------------------------------------------------------
(* Time.                                                                   *)

Busy(o) ==
    \/ handler[o] \in {"routing", "expiring", "forgetting", "answering"}
    \/ handler[o] = "parked" /\ (HasVerdict(o) \/ WaitDue(o))
    \/ sender[o] = "awaiting" /\ since[o] = ANSWER_TIMEOUT
    \/ wire[o] # "none" /\ travel[o] = MaxDelay

Aged(age, who) == [o \in Offers |-> IF o \in who THEN age[o] + 1 ELSE age[o]]
Awaiting   == {o \in Offers : sender[o] = "awaiting"}
Parked     == {o \in Offers : handler[o] = "parked"}
Travelling == {o \in Offers : wire[o] # "none"}

Tick ==
    /\ Awaiting \cup Parked \cup Travelling # {}
    /\ \A o \in Offers : ~Busy(o)
    /\ \A u \in Callers : call[u].at \in {"idle", "done"}
    /\ since'  = Aged(since, Awaiting)
    /\ parked' = Aged(parked, Parked)
    /\ travel' = Aged(travel, Travelling)
    /\ UNCHANGED <<ends, ctx, call, views>>

-----------------------------------------------------------------------------
Sending(o)  == SendOffer(o) \/ Unreachable(o) \/ ReadAnswer(o) \/ AnswerTimeout(o)
Handling(o) ==
    \/ Park(o) \/ Route(o) \/ Wake(o) \/ WaitElapsed(o)
    \/ ForgetWaiter(o) \/ ForgetOffer(o) \/ Answer(o) \/ Close(o)
Calling(u) ==
    Resolve(u) \/ Spend(u) \/ \E o \in Offers, v \in Verdicts : Respond(u, o, v)

Next ==
    \/ \E o \in Offers : Dial(o) \/ Sending(o) \/ ReadFails(o) \/ LoseLink(o) \/ Handling(o)
    \/ \E u \in Callers : Calling(u)
    \/ Toggle
    \/ Tick

Spec == Init /\ [][Next]_vars

\* Both ends run on, the calls return, and time passes.
Fairness ==
    /\ \A o \in Offers : WF_vars(Sending(o)) /\ WF_vars(Handling(o))
    /\ \A u \in Callers : WF_vars(Resolve(u) \/ Spend(u))
    /\ WF_vars(Tick)

FairSpec == Spec /\ Fairness

-----------------------------------------------------------------------------
(* Properties.                                                             *)

\* Every variable stays in its domain.
TypeOK ==
    /\ sender  \in [Offers -> Senders]
    /\ link    \in [Offers -> {"none", "up", "lost", "closed"}]
    /\ wire    \in [Offers -> {"none", "offer", "answer"}]
    /\ handler \in [Offers -> Handlers]
    /\ reply   \in [Offers -> Verdicts]
    /\ queue   \in [Offers -> Verdicts \cup {"none"}]
    /\ waiter  \in [Offers -> BOOLEAN]
    /\ pending \in [Offers -> BOOLEAN]
    /\ nearby  \in BOOLEAN
    /\ call    \in [Callers -> Calls]
    /\ since   \in [Offers -> Nat]
    /\ parked  \in [Offers -> Nat]
    /\ travel  \in [Offers -> Nat]
    /\ shown   \in [Offers -> BOOLEAN]
    /\ will    \in [Offers -> Verdicts \cup {"none"}]

Outcome ==
    [o \in Offers |->
        CASE sender[o] \in {"idle", "dialing", "awaiting"} -> "waiting"
          [] sender[o] = "accepted"                       -> "accepted"
          [] sender[o] = "declined"                       -> "declined"
          [] OTHER                                        -> "failed"]

Abstract == INSTANCE TwoSidedConsent WITH seen <- Outcome

\* The parked connection, the two maps and the concurrent calls implement the
\* promise: the sender sees an acceptance only when the user it was shown to
\* gave it, and a verdict is given once.
ImplementsConsent == Abstract!Spec

\* Two answers to one offer, a double click or two windows: "drop it so it
\* can't be answered twice" (offer.rs:383).  Only one call returns Ok.
OneAnswer ==
    \A u, v \in Callers :
        /\ call[u].ok /\ call[v].ok
        /\ call[u].offer = call[v].offer
        => u = v

\* "Forget the offer so neither map leaks" (control.rs:92): once the handler
\* has answered and no call is under way, both maps have let the offer go.
NothingLeaks ==
    \A o \in Offers :
        /\ handler[o] \in {"closing", "closed"}
        /\ \A u \in Callers :
               call[u].at \in {"found", "sent"} => call[u].offer # o
        => ~waiter[o] /\ ~pending[o]

\* "The sender always sees the receiver's self-decline rather than its own"
\* timeout (offer.rs:460), as long as the connection holds.
ReceiverDecidesFirst ==
    [][\A o \in Offers :
          sender'[o] = "timeout" /\ sender[o] = "awaiting" => link[o] # "up"]_vars

\* Every offer the sender waits on comes to an outcome.
OfferConcludes == \A o \in Offers : sender[o] = "awaiting" ~> sender[o] \in Final

\* No handler stays parked, whatever became of the user or the sender.
ParkedEnds == \A o \in Offers : handler[o] = "parked" ~> handler[o] = "closed"

=============================================================================
