----------------------------- MODULE OfferSend -----------------------------
(***************************************************************************)
(* The sending half of a nearby offer (core/src/offer.rs), composed with   *)
(* the engine of SendServe: an offer picks the send it is about from the   *)
(* catalog, takes the one-to-one gate for the neighbor, and gives it back, *)
(* stopping the send, when the neighbor refuses.  What happens on the wire *)
(* between the two is the subject of Consent; here the answer just comes.  *)
(***************************************************************************)
EXTENDS SendServe

CONSTANTS
    Offers,     \* offer ids, one per call of offer_nearby_dial
    Target      \* the neighbor each is made to

ASSUME TargetAssumption == Target \in [Offers -> Devices]
ASSUME OfferIdAssumption == None \notin Offers

VARIABLES
    offer,    \* stage of each offer
    about,    \* the send it picked, None before
    stamp,    \* created_at of each record, 0 before it is written
    binder    \* history: the offer that last wrote bound, per hash

offerVars == <<offer, about, stamp, binder>>
allVars   == <<vars, offerVars>>

Stages == {"unused", "picked", "waiting", "accepted", "refused", "stopping",
           "settled"}

OfferInit ==
    /\ Init
    /\ offer  = [o \in Offers |-> "unused"]
    /\ about  = [o \in Offers |-> None]
    /\ stamp  = [t \in Transfers |-> 0]
    /\ binder = [h \in Hashes |-> None]

Move(o, from, to) == offer[o] = from /\ offer' = [offer EXCEPT ![o] = to]

\* A record is dated in whole seconds: in that of the newest one, or later.
Newest == CHOOSE n \in {stamp[t] : t \in Transfers} :
              \A t \in Transfers : stamp[t] <= n
Dates  == {Newest, Newest + 1} \ {0}

\* A step of the engine; the one that writes a record dates it.
EngineStep ==
    LET born == {t \in Transfers : pc[t] = "publish" /\ pc'[t] = "serving"} IN
    /\ Next
    /\ \/ born = {} /\ UNCHANGED stamp
       \/ \E t \in born, date \in Dates : stamp' = [stamp EXCEPT ![t] = date]
    /\ UNCHANGED <<offer, about, binder>>

\* Catalog::list sorts by created_at alone: within a second the order is that
\* of the random ids.
FirstInList(t) ==
    /\ catalog[t] = "active"
    /\ \A u \in Transfers : catalog[u] = "active" => stamp[u] <= stamp[t]

\* With no active send the call fails and leaves nothing behind.
Pick(o, t) ==
    /\ Move(o, "unused", "picked")
    /\ FirstInList(t)
    /\ about' = [about EXCEPT ![o] = t]
    /\ UNCHANGED <<vars, stamp, binder>>

\* Mutant: the gate is taken for the offer, not for its neighbor.
HolderOffer(o) == o
Holder(o)      == Target[o]

\* After the waits for the peer table and the device name.
Bind(o) ==
    LET h == Content[about[o]] IN
    /\ Move(o, "picked", "waiting")
    /\ bound' = [bound EXCEPT ![h] = Holder(o)]
    /\ binder' = [binder EXCEPT ![h] = o]
    /\ UNCHANGED <<task, serving, conns, catalog, provider, history,
                   about, stamp>>

\* deliver_offer returns: accepted; or declined, unreachable, not in time.
Accepted(o) ==
    /\ Move(o, "waiting", "accepted")
    /\ UNCHANGED <<vars, about, stamp, binder>>

Refused(o) ==
    /\ Move(o, "waiting", "refused")
    /\ UNCHANGED <<vars, about, stamp, binder>>

\* Mutant: the binding is given back whoever holds it.
OwnsGateAlways(o) == TRUE

\* The binding is given back only if it still names this offer's neighbor.
OwnsGate(o) == bound[Content[about[o]]] = Target[o]

Release(o) ==
    /\ Move(o, "refused", "stopping")
    /\ OwnsGate(o)
    /\ bound' = [bound EXCEPT ![Content[about[o]]] = None]
    /\ UNCHANGED <<task, serving, conns, catalog, provider, history,
                   about, stamp, binder>>

Leave(o) ==
    /\ Move(o, "refused", "settled")
    /\ ~OwnsGate(o)
    /\ UNCHANGED <<vars, about, stamp, binder>>

\* Mutant: the ownership is tested again, after the release.
ReachableOwned(o) == about[o] \in active /\ OwnsGate(o)
Reachable(o)      == about[o] \in active

\* core.cancel(transfer_id)
StopSend(o) ==
    /\ Move(o, "stopping", "settled")
    /\ token' = [token EXCEPT ![about[o]] = @ \/ Reachable(o)]
    /\ UNCHANGED <<pc, completed, inbox, active, maps, provider, history,
                   about, stamp, binder>>

OfferStep(o) ==
    \/ \E t \in Transfers : Pick(o, t)
    \/ Bind(o) \/ Accepted(o) \/ Refused(o) \/ Release(o) \/ Leave(o) \/ StopSend(o)

OfferNext == EngineStep \/ \E o \in Offers : OfferStep(o)

OfferSpec == OfferInit /\ [][OfferNext]_allVars

\* The offer's task runs on by itself once it has an answer; the engine is
\* scheduled as in SendServe.
OfferFairness ==
    /\ \A o \in Offers : WF_allVars(Release(o) \/ Leave(o) \/ StopSend(o))
    /\ \A t \in Transfers :
           /\ WF_allVars(EngineStep /\ Advance(t))
           /\ WF_allVars(EngineStep /\ ServeCancelled(t))

FairOfferSpec == OfferSpec /\ OfferFairness

-----------------------------------------------------------------------------
(* Properties.                                                             *)

\* The offers' own variables stay in their domains.
OfferTypeOK ==
    /\ TypeOK
    /\ offer  \in [Offers -> Stages]
    /\ about  \in [Offers -> Transfers \cup {None}]
    /\ stamp  \in [Transfers -> Nat]
    /\ binder \in [Hashes -> Offers \cup {None}]
    /\ \A o \in Offers : offer[o] # "unused" => about[o] # None

Pending(o) == offer[o] \in {"waiting", "accepted"}

\* "Bind the one-to-one gate to this neighbor NOW so no third party can pull
\* the content between consent and download" (offer.rs:314), released "ONLY if
\* this offer still owns the binding" (offer.rs:338): as long as the offered
\* send is registered, the latest offer's neighbor holds the gate until it
\* refuses, whatever older offers and receivers do.
NeighborHoldsGate ==
    \A o \in Offers :
        LET t == about[o] IN
        /\ Pending(o)
        /\ binder[Content[t]] = o
        /\ serving[Content[t]] = t
        => bound[Content[t]] = Target[o]

\* "Declined/failed offers release the binding and stop serving"
\* (ARCHITECTURE.md:410): unless a newer offer takes over, the send ends.
RefusedStops ==
    \A o \in Offers : \A t \in Transfers :
        (offer[o] = "refused" /\ about[o] = t /\ binder[Content[t]] = o)
            ~> (pc[t] = "ended" \/ binder[Content[t]] # o)

=============================================================================
