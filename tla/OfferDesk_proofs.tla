------------------------- MODULE OfferDesk_proofs --------------------------
(***************************************************************************)
(* What TLAPS proves about OfferDesk, for any offers, devices and calls,   *)
(* any capacity of the channel and any waits.                              *)
(***************************************************************************)
EXTENDS OfferDesk, SequenceTheorems, TLAPS

USE DeviceAssumption, NameAssumption, TimeAssumption, SkipAssumption

\* At first no offer has arrived and the screen is clear.
LEMMA InitType == Init => TypeOK
<1> SUFFICES ASSUME Init
             PROVE  TypeOK
  OBVIOUS
<1>1. EngineOK /\ mail \in Seq(Offers)
  <2>1. <<>> \in Seq(Offers) /\ Len(<<>>) = 0
    OBVIOUS
  <2>2. running \in BOOLEAN /\ starting \in BOOLEAN /\ pump \in BOOLEAN
    BY Zenon DEF Init
  <2>3. age \in [Offers -> 0..Wait]
    BY DEF Init
  <2>4. entry \in [Offers -> {"new", "open", "accepted", "declined", "lapsed"}]
    BY DEF Init
  <2> QED  BY <2>1, <2>2, <2>3, <2>4 DEF Init, EngineOK
<1>2. CallOK
  BY DEF Init, CallOK
<1>3. ScreenOK
  <2>1. enabled \in BOOLEAN /\ ~enabled
    BY Zenon DEF Init
  <2> QED  BY <2>1 DEF Init, ScreenOK
<1>4. PreviewOK
  <2>1. silent \in BOOLEAN
    BY Zenon DEF Init
  <2> QED  BY <2>1 DEF Init, PreviewOK
<1>5. TrustOK
  BY DEF Init, TrustOK
<1> QED  BY <1>1, <1>2, <1>3, <1>4, <1>5 DEF TypeOK

\* The head and the tail of a queue of offers.
LEMMA QueueParts ==
  ASSUME NEW s \in Seq(Offers), s # <<>>
  PROVE  Head(s) \in Offers /\ Tail(s) \in Seq(Offers) /\ Len(Tail(s)) = Len(s) - 1
  BY HeadTailProperties

\* A broadcast to a channel of Cap slots overwrites the oldest event when it is full.
LEMMA BroadcastType ==
  ASSUME TypeOK, NEW o \in Offers, Broadcast(o)
  PROVE  bus' \in Seq(Offers) /\ Len(bus') <= Cap /\ missed' \subseteq Offers
<1>0. bus \in Seq(Offers) /\ Len(bus) <= Cap /\ missed \subseteq Offers
  BY DEF TypeOK, EngineOK
<1>1. CASE pump /\ Len(bus) < Cap /\ bus' = Append(bus, o) /\ UNCHANGED missed
  BY <1>0, <1>1, AppendProperties
<1>2. CASE pump /\ Len(bus) = Cap /\ bus' = Append(Tail(bus), o) /\ missed' = missed \cup {Head(bus)}
  <2>1. bus # <<>>
    BY <1>0, <1>2, EmptySeq
  <2>2. Head(bus) \in Offers /\ Tail(bus) \in Seq(Offers) /\ Len(Tail(bus)) = Len(bus) - 1
    BY <1>0, <2>1, QueueParts
  <2>3. bus' \in Seq(Offers) /\ Len(bus') = Len(Tail(bus)) + 1
    BY <1>2, <2>2, AppendProperties
  <2> QED  BY <1>0, <1>2, <2>2, <2>3
<1>3. CASE missed' = missed \cup {o} /\ UNCHANGED bus
  BY <1>0, <1>3
<1> QED  BY <1>1, <1>2, <1>3 DEF Broadcast

\* What the engine and its pump do: an offer arrives, is broadcast, mailed, or lapses.
LEMMA EngineType ==
  ASSUME TypeOK,
         \/ StartNearby \/ SpawnPump \/ StopNearby \/ Recv \/ Tick
         \/ \E o \in Offers : Arrive(o) \/ Lapse(o)
         \/ \E c \in Calls : Serve(c)
  PROVE  EngineOK' /\ mail' \in Seq(Offers)
<1>0. EngineOK /\ mail \in Seq(Offers)
  BY DEF TypeOK
<1>1. CASE StartNearby \/ SpawnPump \/ StopNearby
  BY <1>0, <1>1 DEF StartNearby, SpawnPump, StopNearby, EngineOK
<1>2. CASE Recv
  <2>1. Head(bus) \in Offers /\ Tail(bus) \in Seq(Offers) /\ Len(Tail(bus)) = Len(bus) - 1
    BY <1>0, <1>2, QueueParts DEF Recv, EngineOK
  <2>2. mail' \in Seq(Offers)
    BY <1>0, <1>2, <2>1, AppendProperties DEF Recv
  <2>3. bus' \in Seq(Offers) /\ Len(bus') <= Cap
    <3>1. Len(bus) \in Nat /\ Len(bus) <= Cap
      BY <1>0, LenProperties DEF EngineOK
    <3> QED  BY <1>2, <2>1, <3>1 DEF Recv
  <2> QED  BY <1>0, <1>2, <2>2, <2>3 DEF Recv, EngineOK
<1>3. CASE Tick
  <2>1. age' \in [Offers -> 0..Wait]
    <3>1. \A o \in Offers : entry[o] = "open" => age[o] # Wait
      BY <1>3 DEF Tick, Due, LapseDue
    <3>2. \A o \in Offers : (IF entry[o] = "open" THEN age[o] + 1 ELSE age[o]) \in 0..Wait
      BY <1>0, <3>1 DEF EngineOK
    <3> QED  BY <1>3, <3>2 DEF Tick
  <2> QED  BY <1>0, <1>3, <2>1 DEF Tick, EngineOK
<1>4. ASSUME NEW o \in Offers, Arrive(o)
      PROVE  EngineOK' /\ mail' \in Seq(Offers)
  <2>1. bus' \in Seq(Offers) /\ Len(bus') <= Cap /\ missed' \subseteq Offers
    BY <1>0, <1>4, BroadcastType DEF Arrive, EngineOK
  <2>2. \E e \in {"open", "declined"} : entry' = [entry EXCEPT ![o] = e]
    BY <1>4 DEF Arrive
  <2>3. UNCHANGED <<running, starting, pump, age, mail>>
    BY <1>4 DEF Arrive
  <2> QED  BY <1>0, <2>1, <2>2, <2>3 DEF EngineOK
<1>5. ASSUME NEW o \in Offers, Lapse(o)
      PROVE  EngineOK' /\ mail' \in Seq(Offers)
  BY <1>0, <1>5 DEF Lapse, EngineOK
<1>6. ASSUME NEW c \in Calls, Serve(c)
      PROVE  EngineOK' /\ mail' \in Seq(Offers)
  <2>1. entry' \in [Offers -> {"new", "open", "accepted", "declined", "lapsed"}]
    BY <1>0, <1>6 DEF Serve, Verdict, EngineOK
  <2>2. UNCHANGED <<running, starting, pump, bus, age, missed, mail>>
    BY <1>6 DEF Serve
  <2> QED  BY <1>0, <2>1, <2>2 DEF EngineOK
<1> QED  BY <1>1, <1>2, <1>3, <1>4, <1>5, <1>6

\* What comes up when a dialog or a pane has gone.
LEMMA ShowNextType ==
  ASSUME TypeOK, NEW panes, ShowNext(panes)
  PROVE  /\ dialog' \in Offers \cup {None} /\ enabled' \in BOOLEAN /\ since' \in 0..Ttl
         /\ dialog' = None => ~enabled' /\ since' = 0
         /\ queue' \in Seq(Offers) /\ silent' \in BOOLEAN
<1>0. queue \in Seq(Offers) /\ silent \in BOOLEAN
  BY DEF TypeOK, ScreenOK, PreviewOK
<1>1. CASE queue # <<>> /\ showOfferModal(Head(queue)) /\ queue' = Tail(queue)
  <2>1. enabled' \in BOOLEAN /\ silent' \in BOOLEAN
    BY <1>1, Zenon DEF showOfferModal
  <2>2. dialog' \in Offers /\ queue' \in Seq(Offers) /\ since' = 0
    BY <1>0, <1>1, QueueParts DEF showOfferModal
  <2> QED  BY <2>1, <2>2
<1>2. CASE dialog' = None /\ enabled' = FALSE /\ since' = 0 /\ UNCHANGED <<queue, silent>>
  <2>1. enabled' \in BOOLEAN /\ ~enabled'
    BY <1>2, Zenon
  <2> QED  BY <1>0, <1>2, <2>1
<1> QED  BY <1>1, <1>2 DEF ShowNext

\* closeOfferModal leaves the dialog to the next of the queue or to nobody.
LEMMA CloseType ==
  ASSUME TypeOK, closeOfferModal
  PROVE  ScreenOK' /\ PreviewOK'
<1>1. /\ dialog' \in Offers \cup {None} /\ enabled' \in BOOLEAN /\ since' \in 0..Ttl
      /\ dialog' = None => ~enabled' /\ since' = 0
      /\ queue' \in Seq(Offers) /\ silent' \in BOOLEAN
  BY ShowNextType DEF closeOfferModal
<1>2. ScreenOK'
  BY <1>1 DEF closeOfferModal, TypeOK, ScreenOK
<1>3. PreviewOK'
  BY <1>1 DEF closeOfferModal, TypeOK, PreviewOK
<1> QED  BY <1>2, <1>3

\* A call that is made names an offer and waits.
LEMMA InvokeType ==
  ASSUME TypeOK, NEW c \in Calls, NEW o \in Offers,
         NEW kind \in {"accept", "decline", "skip"}, Invoke(c, kind, o)
  PROVE  CallOK'
  BY DEF Invoke, TypeOK, CallOK

\* An offer that reaches the window is answered at once, queued or shown.
LEMMA EventType ==
  ASSUME TypeOK, Event
  PROVE  TypeOK'
<1> DEFINE o == Head(mail)
<1>0. o \in Offers /\ mail' \in Seq(Offers)
  BY QueueParts DEF Event, TypeOK
<1>1. EngineOK'
  BY DEF Event, engine, TypeOK, EngineOK
<1>2. CASE Enqueue(o)
  <2>1. CallOK' /\ TrustOK'
    BY <1>2 DEF Enqueue, trust, TypeOK, CallOK, TrustOK
  <2>2. UNCHANGED <<closing, dropped, overlay, previewed>>
    BY <1>2 DEF Enqueue
  <2>3. CASE queue' = Append(queue, o) /\ UNCHANGED <<dialog, enabled, since, silent>>
    <3>1. queue' \in Seq(Offers)
      BY <1>0, <2>3, AppendProperties DEF TypeOK, ScreenOK
    <3>2. ScreenOK'
      BY <2>2, <2>3, <3>1 DEF TypeOK, ScreenOK
    <3>3. PreviewOK'
      BY <2>2, <2>3 DEF TypeOK, PreviewOK
    <3> QED  BY <1>0, <1>1, <2>1, <3>2, <3>3 DEF TypeOK
  <2>4. CASE showOfferModal(o) /\ UNCHANGED queue
    <3>2. ScreenOK'
      BY <1>0, <2>2, <2>4 DEF showOfferModal, TypeOK, ScreenOK
    <3>3. PreviewOK'
      BY <2>2, <2>4 DEF showOfferModal, TypeOK, PreviewOK
    <3> QED  BY <1>0, <1>1, <2>1, <3>2, <3>3 DEF TypeOK
  <2> QED  BY <1>2, <2>3, <2>4 DEF Enqueue
<1>3. ASSUME NEW c \in Calls, Skip(c, o)
      PROVE  TypeOK'
  <2>1. CallOK'
    BY <1>0, <1>3, InvokeType DEF Skip
  <2>2. ScreenOK' /\ PreviewOK'
    BY <1>3 DEF Skip, screen, preview, TypeOK, ScreenOK, PreviewOK
  <2>3. TrustOK'
    BY <1>0, <1>3 DEF Skip, TypeOK, TrustOK
  <2> QED  BY <1>0, <1>1, <2>1, <2>2, <2>3 DEF TypeOK
<1> QED  BY <1>2, <1>3 DEF Event

\* What a handler does after its await keeps queue, dialog and preview in their domains.
LEMMA ReturnType ==
  ASSUME TypeOK, NEW c \in Calls, Return(c)
  PROVE  TypeOK'
<1> DEFINE o == call[c].offer
<1>0. o \in Offers
  BY DEF Return, Idle, TypeOK, CallOK
<1>1. EngineOK' /\ mail' \in Seq(Offers)
  BY DEF Return, engine, TypeOK, EngineOK
<1>2. CallOK'
  BY DEF Return, TypeOK, CallOK
<1>3. CASE AcceptReturns(c)
  <2>1. CASE peer' = Device[o] /\ HideOffer /\ openPreview(o) /\ UNCHANGED <<closing, queue>>
    <3>0. enabled' \in BOOLEAN /\ ~enabled'
      BY <2>1, Zenon DEF HideOffer
    <3>1. ScreenOK'
      BY <2>1, <3>0 DEF HideOffer, TypeOK, ScreenOK
    <3>2. PreviewOK'
      BY <1>0, <2>1 DEF openPreview, Panes, TypeOK, PreviewOK
    <3>3. TrustOK'
      BY <1>0, <1>3, <2>1 DEF AcceptReturns, TypeOK, TrustOK
    <3> QED  BY <1>1, <1>2, <3>1, <3>2, <3>3 DEF TypeOK
  <2>2. CASE expireOfferModal(o) /\ UNCHANGED <<peer, dialog, since, queue, dropped, preview>>
    <3>1. ScreenOK'
      BY <1>0, <2>2 DEF expireOfferModal, TypeOK, ScreenOK
    <3>2. PreviewOK'
      BY <2>2 DEF preview, TypeOK, PreviewOK
    <3>3. TrustOK'
      BY <1>3, <2>2 DEF AcceptReturns, TypeOK, TrustOK
    <3> QED  BY <1>1, <1>2, <3>1, <3>2, <3>3 DEF TypeOK
  <2> QED  BY <1>3, <2>1, <2>2 DEF AcceptReturns
<1>4. CASE DeclineReturns(c)
  <2>1. ScreenOK' /\ PreviewOK'
    BY <1>4, CloseType DEF DeclineReturns
  <2>2. TrustOK'
    BY <1>4 DEF DeclineReturns, trust, TypeOK, TrustOK
  <2> QED  BY <1>1, <1>2, <2>1, <2>2 DEF TypeOK
<1>5. CASE SkipReturns(c)
  <2>1. TrustOK' /\ UNCHANGED <<closing, queue>>
    BY <1>5 DEF SkipReturns, trust, TypeOK, TrustOK
  <2>2. CASE openPreview(o) /\ UNCHANGED <<dialog, enabled, since, dropped>>
    <3>1. ScreenOK'
      BY <2>1, <2>2 DEF TypeOK, ScreenOK
    <3>2. PreviewOK'
      BY <1>0, <2>2 DEF openPreview, Panes, TypeOK, PreviewOK
    <3> QED  BY <1>1, <1>2, <2>1, <3>1, <3>2 DEF TypeOK
  <2>3. CASE /\ showOfferModal(o) /\ dropped' = dropped \cup ({dialog} \ {None})
             /\ UNCHANGED <<overlay, previewed>>
    <3>1. ScreenOK'
      BY <1>0, <2>1, <2>3 DEF showOfferModal, TypeOK, ScreenOK
    <3>2. PreviewOK'
      BY <2>3 DEF showOfferModal, TypeOK, PreviewOK
    <3> QED  BY <1>1, <1>2, <2>1, <3>1, <3>2 DEF TypeOK
  <2> QED  BY <1>5, <2>2, <2>3 DEF SkipReturns
<1> QED  BY <1>3, <1>4, <1>5 DEF Return

\* Closing the preview clears it and may show the next offer.
LEMMA ClosePreviewType ==
  ASSUME TypeOK, closePreview
  PROVE  EngineOK' /\ mail' \in Seq(Offers) /\ CallOK' /\ ScreenOK' /\ PreviewOK'
<1>1. /\ dialog' \in Offers \cup {None} /\ enabled' \in BOOLEAN /\ since' \in 0..Ttl
      /\ dialog' = None => ~enabled' /\ since' = 0
      /\ queue' \in Seq(Offers) /\ silent' \in BOOLEAN
  <2>1. CASE ShowNext(overlay')
    BY <2>1, ShowNextType
  <2>2. CASE UNCHANGED <<dialog, enabled, since, queue, silent>>
    BY <2>2 DEF TypeOK, ScreenOK, PreviewOK
  <2> QED  BY <2>1, <2>2 DEF closePreview
<1>2. EngineOK' /\ mail' \in Seq(Offers) /\ CallOK'
  BY DEF closePreview, engine, TypeOK, EngineOK, CallOK
<1>3. ScreenOK'
  BY <1>1 DEF closePreview, TypeOK, ScreenOK
<1>4. PreviewOK'
  BY <1>1 DEF closePreview, TypeOK, PreviewOK
<1> QED  BY <1>2, <1>3, <1>4

\* Every step is well typed.
LEMMA NextType ==
  ASSUME TypeOK, [Next]_vars
  PROVE  TypeOK'
<1>1. CASE StartNearby \/ SpawnPump \/ StopNearby \/ Recv \/ \E o \in Offers : Arrive(o) \/ Lapse(o)
  <2>1. EngineOK' /\ mail' \in Seq(Offers)
    BY <1>1, EngineType
  <2>2. UNCHANGED <<call, screen, preview, trust>>
    BY <1>1 DEF StartNearby, SpawnPump, StopNearby, Recv, Arrive, Lapse
  <2> QED
    BY <2>1, <2>2 DEF screen, preview, trust, TypeOK, CallOK, ScreenOK, PreviewOK, TrustOK
<1>2. CASE Tick
  <2>1. EngineOK' /\ mail' \in Seq(Offers)
    BY <1>2, EngineType
  <2>2. since' \in 0..Ttl /\ (dialog = None => since' = since)
    BY <1>2 DEF Tick, Due, ExpireDue, TypeOK, ScreenOK
  <2>3. ScreenOK'
    BY <1>2, <2>2 DEF Tick, TypeOK, ScreenOK
  <2> QED
    BY <1>2, <2>1, <2>3 DEF Tick, preview, trust, TypeOK, CallOK, PreviewOK, TrustOK
<1>3. ASSUME NEW c \in Calls, Serve(c)
      PROVE  TypeOK'
  <2>1. EngineOK' /\ mail' \in Seq(Offers)
    BY <1>3, EngineType
  <2>2. CallOK'
    BY <1>3 DEF Serve, Idle, TypeOK, CallOK
  <2> QED
    BY <1>3, <2>1, <2>2 DEF Serve, screen, preview, trust, TypeOK, ScreenOK, PreviewOK, TrustOK
<1>4. CASE Event
  BY <1>4, EventType
<1>5. ASSUME NEW c \in Calls, Return(c)
      PROVE  TypeOK'
  BY <1>5, ReturnType
<1>6. ASSUME NEW c \in Calls, ClickAccept(c) \/ ClickDecline(c)
      PROVE  TypeOK'
  <2>1. dialog \in Offers
    BY <1>6 DEF ClickAccept, ClickDecline, TypeOK, ScreenOK
  <2>2. CallOK'
    BY <1>6, <2>1, InvokeType DEF ClickAccept, ClickDecline
  <2>3. UNCHANGED <<engine, mail, preview, trust, dialog, since, closing, queue, dropped>>
    BY <1>6 DEF ClickAccept, ClickDecline, screen
  <2>4. enabled' = FALSE \/ enabled' = enabled
    BY <1>6 DEF ClickAccept, ClickDecline, screen
  <2>5. enabled' \in BOOLEAN
    BY <2>4, Zenon DEF TypeOK, ScreenOK
  <2>6. ScreenOK'
    BY <2>1, <2>3, <2>5 DEF TypeOK, ScreenOK
  <2> QED
    BY <2>2, <2>3, <2>6 DEF engine, preview, trust, TypeOK, EngineOK, PreviewOK, TrustOK
<1>7. CASE Dismiss
  <2>1. ScreenOK' /\ PreviewOK'
    BY <1>7, CloseType DEF Dismiss
  <2> QED
    BY <1>7, <2>1 DEF Dismiss, engine, trust, TypeOK, EngineOK, CallOK, TrustOK
<1>8. CASE Expire
  <2>1. enabled' = FALSE /\ closing' = closing \cup {dialog} /\ dialog \in Offers
    BY <1>8 DEF Expire, ExpireDue, expireOfferModal, TypeOK, ScreenOK
  <2>2. enabled' \in BOOLEAN /\ ~enabled'
    BY <2>1, Zenon
  <2>3. ScreenOK'
    BY <1>8, <2>1, <2>2 DEF Expire, TypeOK, ScreenOK
  <2> QED
    BY <1>8, <2>3 DEF Expire, engine, preview, trust, TypeOK, EngineOK, CallOK, PreviewOK, TrustOK
<1>9. ASSUME NEW o \in Offers, Fade(o)
      PROVE  TypeOK'
  <2>1. CASE ShowNext(overlay) /\ dropped' = dropped \cup {o} /\ UNCHANGED <<overlay, previewed>>
    <3>1. /\ dialog' \in Offers \cup {None} /\ enabled' \in BOOLEAN /\ since' \in 0..Ttl
          /\ dialog' = None => ~enabled' /\ since' = 0
          /\ queue' \in Seq(Offers) /\ silent' \in BOOLEAN
      BY <2>1, ShowNextType
    <3>2. ScreenOK'
      BY <1>9, <2>1, <3>1 DEF Fade, TypeOK, ScreenOK
    <3>3. PreviewOK'
      BY <2>1, <3>1 DEF TypeOK, PreviewOK
    <3> QED
      BY <1>9, <3>2, <3>3 DEF Fade, engine, trust, TypeOK, EngineOK, CallOK, TrustOK
  <2>2. CASE UNCHANGED <<dialog, enabled, since, queue, dropped, preview>>
    <3>1. ScreenOK'
      BY <1>9, <2>2 DEF Fade, TypeOK, ScreenOK
    <3> QED
      BY <1>9, <2>2, <3>1 DEF Fade, engine, preview, trust, TypeOK, EngineOK, CallOK,
         PreviewOK, TrustOK
  <2> QED  BY <1>9, <2>1, <2>2 DEF Fade
<1>10. CASE OpenSheet \/ CloseSheet
  <2>1. UNCHANGED <<engine, mail, call, screen, previewed, trust>>
    BY <1>10 DEF OpenSheet, CloseSheet
  <2>2. overlay' \subseteq Panes /\ ("preview" \in overlay' <=> "preview" \in overlay)
    BY <1>10 DEF OpenSheet, CloseSheet, Panes, TypeOK, PreviewOK
  <2>3. silent' \in BOOLEAN
    BY <1>10, Zenon DEF OpenSheet, CloseSheet, TypeOK, PreviewOK
  <2>4. PreviewOK'
    BY <2>1, <2>2, <2>3 DEF TypeOK, PreviewOK
  <2> QED
    BY <2>1, <2>4 DEF engine, screen, trust, TypeOK, EngineOK, CallOK, ScreenOK, TrustOK
<1>11. CASE TypeCode
  <2>1. PreviewOK'
    BY <1>11 DEF TypeCode, openPreview, Panes, TypeOK, PreviewOK
  <2> QED
    BY <1>11, <2>1 DEF TypeCode, engine, screen, trust, TypeOK, EngineOK, CallOK, ScreenOK, TrustOK
<1>12. CASE ClosePreview \/ AcceptPreview
  <2>1. closePreview
    BY <1>12 DEF ClosePreview, AcceptPreview
  <2>2. TrustOK'
    BY <1>12, <2>1 DEF closePreview, ClosePreview, AcceptPreview, trust, TypeOK, PreviewOK, TrustOK
  <2> QED  BY <2>1, <2>2, ClosePreviewType DEF TypeOK
<1>13. CASE \/ \E t \in Offers \cup {Code} : ReceiveDone(t) \/ ReceiveFails(t)
            \/ \E d \in Devices : RememberReturns(d)
  <2>1. TrustOK'
    BY <1>13 DEF ReceiveDone, RememberReturns, ReceiveFails, TypeOK, TrustOK
  <2>2. UNCHANGED <<engine, mail, call, screen, preview>>
    BY <1>13 DEF ReceiveDone, RememberReturns, ReceiveFails
  <2> QED
    BY <2>1, <2>2 DEF engine, screen, preview, TypeOK, EngineOK, CallOK, ScreenOK, PreviewOK
<1>14. CASE UNCHANGED vars
  BY <1>14 DEF vars, engine, screen, preview, trust, TypeOK, EngineOK, CallOK, ScreenOK,
     PreviewOK, TrustOK
<1> QED
  BY <1>1, <1>2, <1>3, <1>4, <1>5, <1>6, <1>7, <1>8, <1>9, <1>10, <1>11, <1>12, <1>13, <1>14
     DEF Next, User

\* Type correctness, for any number of offers, calls and ticks.
THEOREM TypeCorrect == Spec => []TypeOK
  BY InitType, NextType, PTL DEF Spec

\* A call that returned Ok to a yes has left the offer accepted.
Answered ==
    \A c \in Calls : call[c].result = "ok" /\ call[c].kind \in {"accept", "skip"}
                     => entry[call[c].offer] = "accepted"

\* What was accepted stays accepted.
LEMMA AcceptedStays ==
  ASSUME TypeOK, [Next]_vars, NEW o \in Offers, entry[o] = "accepted"
  PROVE  entry'[o] = "accepted"
<1>0. entry \in [Offers -> {"new", "open", "accepted", "declined", "lapsed"}]
  BY DEF TypeOK, EngineOK
<1>1. ASSUME NEW q \in Offers, Arrive(q) \/ Lapse(q)
      PROVE  entry'[o] = "accepted"
  <2>1. q # o /\ \E e : entry' = [entry EXCEPT ![q] = e]
    BY <1>1 DEF Arrive, Lapse, LapseDue
  <2> QED  BY <1>0, <2>1
<1>2. ASSUME NEW c \in Calls, Serve(c)
      PROVE  entry'[o] = "accepted"
  <2>1. \/ UNCHANGED entry
        \/ entry[call[c].offer] = "open" /\ \E e : entry' = [entry EXCEPT ![call[c].offer] = e]
    BY <1>2 DEF Serve
  <2> QED  BY <1>0, <2>1
<1>3. CASE UNCHANGED entry
  BY <1>3
<1> QED
  BY <1>1, <1>2, <1>3 DEF Next, User, StartNearby, SpawnPump, StopNearby, Recv, Event, Expire,
     Tick, Return, Fade, ReceiveDone, RememberReturns, ReceiveFails, ClickAccept, ClickDecline, Dismiss,
     OpenSheet, CloseSheet, TypeCode, ClosePreview, AcceptPreview, closePreview, engine, vars

\* A call that came back with Ok keeps the entry it answered; no step undoes an answer.
LEMMA NextAnswered ==
  ASSUME TypeOK, Answered, [Next]_vars
  PROVE  Answered'
<1>0. \A c \in Calls : call[c].result = "ok" => call[c].offer \in Offers
  BY DEF TypeOK, CallOK, Idle
<1>1. CASE UNCHANGED call
  BY <1>0, <1>1, AcceptedStays DEF Answered
<1>2. ASSUME NEW c \in Calls, NEW kind, NEW o, Invoke(c, kind, o)
      PROVE  Answered'
  <2>1. \A d \in Calls : call'[d] = call[d] \/ call'[d].result = "waiting"
    BY <1>2 DEF Invoke, TypeOK, CallOK
  <2> QED  BY <1>0, <2>1, AcceptedStays DEF Answered
<1>3. ASSUME NEW c \in Calls, Return(c)
      PROVE  Answered'
  <2>1. \A d \in Calls : call'[d] = call[d] \/ call'[d].result = "none"
    BY <1>3 DEF Return, Idle, TypeOK, CallOK
  <2> QED  BY <1>0, <2>1, AcceptedStays DEF Answered
<1>4. ASSUME NEW c \in Calls, Serve(c)
      PROVE  Answered'
  <2>0. call[c] \in [kind : {"accept", "decline", "skip"}, offer : Offers,
                     result : {"waiting", "ok", "error"}]
    BY <1>4 DEF Serve, Idle, TypeOK, CallOK
  <2>1. CASE call' = [call EXCEPT ![c].result = "error"]
    <3>1. \A d \in Calls : call'[d] = call[d] \/ call'[d].result = "error"
      BY <2>0, <2>1 DEF TypeOK, CallOK
    <3> QED  BY <1>0, <3>1, AcceptedStays DEF Answered
  <2>2. CASE /\ entry' = [entry EXCEPT ![call[c].offer] = Verdict(call[c].kind)]
             /\ call'  = [call EXCEPT ![c].result = "ok"]
    <3>1. \A d \in Calls \ {c} : call'[d] = call[d]
      BY <2>2 DEF TypeOK, CallOK
    <3>2. call'[c].kind = call[c].kind /\ call'[c].offer = call[c].offer
      BY <2>0, <2>2 DEF TypeOK, CallOK
    <3>3. call[c].kind \in {"accept", "skip"} => entry'[call[c].offer] = "accepted"
      BY <2>0, <2>2 DEF Verdict, TypeOK, EngineOK
    <3> QED  BY <1>0, <3>1, <3>2, <3>3, AcceptedStays DEF Answered
  <2> QED  BY <1>4, <2>1, <2>2 DEF Serve
<1> QED
  BY <1>1, <1>2, <1>3, <1>4 DEF Next, User, StartNearby, SpawnPump, StopNearby, Arrive, Recv,
     Lapse, Event, Enqueue, Skip, Expire, Tick, Fade, ReceiveDone, RememberReturns, ReceiveFails, ClickAccept,
     ClickDecline, Dismiss, OpenSheet, CloseSheet, TypeCode, ClosePreview, AcceptPreview,
     closePreview, vars

\* Only the return of an accept or a skip that is Ok opens the preview of an offer,
\* and the files that are received are those of the preview.
LEMMA NextConsented ==
  ASSUME TypeOK, Answered, PreviewConsented, [Next]_vars
  PROVE  PreviewConsented'
<1>1. /\ \/ previewed' \in {previewed, Code, None}
         \/ previewed' \in Offers /\ entry[previewed'] = "accepted"
      /\ receiving' \cup received' \subseteq receiving \cup received \cup {previewed}
  <2>1. ASSUME NEW c \in Calls, Return(c)
        PROVE  /\ \/ previewed' = previewed
                  \/ previewed' \in Offers /\ entry[previewed'] = "accepted"
               /\ UNCHANGED <<receiving, received>>
    <3>0. call[c].offer \in Offers
      BY <2>1 DEF Return, Idle, TypeOK, CallOK
    <3>1. CASE AcceptReturns(c)
      BY <2>1, <3>0, <3>1 DEF AcceptReturns, Accepted, openPreview, preview, Answered
    <3>2. CASE DeclineReturns(c)
      BY <3>2 DEF DeclineReturns, closeOfferModal, trust
    <3>3. CASE SkipReturns(c)
      BY <2>1, <3>0, <3>3 DEF SkipReturns, openPreview, trust, Answered
    <3> QED  BY <2>1, <3>1, <3>2, <3>3 DEF Return
  <2>2. CASE UNCHANGED <<previewed, receiving, received>>
    BY <2>2
  <2>3. CASE TypeCode
    BY <2>3 DEF TypeCode, openPreview, trust
  <2>4. CASE ClosePreview \/ AcceptPreview
    BY <2>4 DEF ClosePreview, AcceptPreview, closePreview, trust
  <2>5. CASE \/ \E t \in Offers \cup {Code} : ReceiveDone(t) \/ ReceiveFails(t)
             \/ \E d \in Devices : RememberReturns(d)
    BY <2>5 DEF ReceiveDone, RememberReturns, ReceiveFails, preview
  <2>6. CASE Dismiss
    BY <2>6 DEF Dismiss, closeOfferModal, trust
  <2>7. ASSUME NEW o \in Offers, Fade(o)
        PROVE  UNCHANGED <<previewed, receiving, received>>
    BY <2>7 DEF Fade, preview, trust
  <2>8. CASE Event
    <3>1. CASE Enqueue(Head(mail))
      BY <3>1 DEF Enqueue, trust
    <3>2. ASSUME NEW c \in Calls, Skip(c, Head(mail))
          PROVE  UNCHANGED <<previewed, receiving, received>>
      BY <3>2 DEF Skip, preview
    <3> QED  BY <2>8, <3>1, <3>2 DEF Event
  <2> QED
    BY <2>1, <2>2, <2>3, <2>4, <2>5, <2>6, <2>7, <2>8 DEF Next, User, StartNearby, SpawnPump,
       StopNearby, Arrive, Recv, Lapse, Serve, Expire, Tick, ClickAccept, ClickDecline,
       OpenSheet, CloseSheet, preview, trust, vars
<1>2. ASSUME NEW o \in Offers, previewed' = o \/ o \in receiving' \cup received'
      PROVE  entry[o] = "accepted"
  BY <1>1, <1>2 DEF PreviewConsented
<1> QED
  BY <1>2, AcceptedStays DEF PreviewConsented

\* The preview of an offer opens, and its files are received, only after the engine
\* has taken this user's yes, however many dialogs, calls and timers overlap.
THEOREM ConsentedPreviews == Spec => []PreviewConsented
<1>1. Init => Answered /\ PreviewConsented
  BY DEF Init, Answered, PreviewConsented, Idle
<1>2. TypeOK /\ Answered /\ PreviewConsented /\ [Next]_vars => (Answered /\ PreviewConsented)'
  BY NextAnswered, NextConsented
<1> QED
  BY <1>1, <1>2, TypeCorrect, PTL DEF Spec

-----------------------------------------------------------------------------
(* Where an offer is: in one place at a time, and never lost between two.  *)

\* The offers on their way to the user: broadcast, sent to the window, queued.
InLine      == ToSet(bus) \cup ToSet(mail) \cup ToSet(queue)
Distinct(s) == \A i, j \in 1..Len(s) : s[i] = s[j] => i = j

\* Nobody has answered for this offer: it waits, or the engine gave up on it.
Pristine(o) == entry[o] = "open" \/ (entry[o] = "lapsed" /\ age[o] = Wait)

\* No offer is twice in line, nor in line once it is shown or being answered;
\* one that a trusted device's answer is given for is nowhere else.
OnePlace ==
    /\ Distinct(bus) /\ Distinct(mail) /\ Distinct(queue)
    /\ ToSet(bus) \cap ToSet(mail) = {}
    /\ ToSet(bus) \cap ToSet(queue) = {}
    /\ ToSet(mail) \cap ToSet(queue) = {}
    /\ dialog \notin InLine /\ InHand \cap InLine = {}
    /\ \A c \in Calls : call[c].kind = "skip" =>
          /\ call[c].offer # dialog
          /\ \A d \in Calls \ {c} : call[d].offer # call[c].offer

\* What is shown or answered has arrived, and what was answered waits no more.
Known ==
    /\ \A o \in Offers : o = dialog \/ o \in InHand => entry[o] # "new"
    /\ \A c \in Calls : call[c].result \in {"ok", "error"} => entry[call[c].offer] # "open"

\* What the user has not been asked about has not been answered, by the window
\* either; nor has the offer of a dialog that can be accepted, with no answer
\* under way.
Fresh ==
    /\ \A o \in InLine : Pristine(o)
    /\ \A c \in Calls : call[c].kind = "skip" /\ call[c].result # "ok" => Pristine(call[c].offer)
    /\ enabled => Pristine(dialog) \/ dialog \in InHand

\* The elements of a queue after an arrival.
LEMMA AppendSet ==
  ASSUME NEW s \in Seq(Offers), NEW o \in Offers
  PROVE  /\ ToSet(Append(s, o)) = ToSet(s) \cup {o}
         /\ Distinct(s) /\ o \notin ToSet(s) => Distinct(Append(s, o))
<1> DEFINE t == Append(s, o)
<1>1. /\ Len(s) \in Nat /\ Len(t) = Len(s) + 1 /\ t[Len(s) + 1] = o
      /\ \A k \in 1..Len(s) : t[k] = s[k]
      /\ DOMAIN s = 1..Len(s) /\ DOMAIN t = 1..Len(t)
  OBVIOUS
<1> HIDE DEF t
<1>2. \A k \in 1..Len(t) : k \in 1..Len(s) \/ k = Len(s) + 1
  BY <1>1
<1>3. 1..Len(s) \subseteq 1..Len(t) /\ Len(s) + 1 \in 1..Len(t)
  BY <1>1
<1>4. ToSet(t) = ToSet(s) \cup {o}
  BY <1>1, <1>2, <1>3 DEF ToSet
<1>5. ASSUME Distinct(s), o \notin ToSet(s)
      PROVE  Distinct(t)
  <2>1. \A k \in 1..Len(s) : s[k] # o
    BY <1>1, <1>5 DEF ToSet
  <2> QED  BY <1>1, <1>2, <1>5, <2>1 DEF Distinct
<1> QED  BY <1>4, <1>5 DEF t

\* And after a departure.
LEMMA TailSet ==
  ASSUME NEW s \in Seq(Offers), s # <<>>
  PROVE  /\ Head(s) \in Offers /\ Tail(s) \in Seq(Offers)
         /\ ToSet(s) = ToSet(Tail(s)) \cup {Head(s)}
         /\ Distinct(s) => Distinct(Tail(s)) /\ Head(s) \notin ToSet(Tail(s))
<1> DEFINE t == Tail(s)
<1>1. /\ Len(s) \in Nat \ {0} /\ Len(t) = Len(s) - 1 /\ Head(s) = s[1]
      /\ Head(s) \in Offers /\ t \in Seq(Offers)
      /\ DOMAIN s = 1..Len(s) /\ DOMAIN t = 1..Len(t)
  OBVIOUS
<1>2. \A k \in 1..Len(t) : k + 1 \in 1..Len(s) /\ t[k] = s[k + 1]
  OBVIOUS
<1> HIDE DEF t
<1>3. \A k \in 1..Len(s) : k = 1 \/ (k - 1 \in 1..Len(t) /\ t[k - 1] = s[k])
  <2> TAKE k \in 1..Len(s)
  <2>1. CASE k # 1
    <3>1. k - 1 \in 1..Len(t) /\ (k - 1) + 1 = k
      BY <1>1, <2>1
    <3> QED  BY <1>2, <3>1
  <2> QED  BY <2>1
<1>4. ToSet(s) = ToSet(t) \cup {Head(s)}
  <2>1. ToSet(s) \subseteq ToSet(t) \cup {Head(s)}
    BY <1>1, <1>3 DEF ToSet
  <2>2. ToSet(t) \cup {Head(s)} \subseteq ToSet(s)
    BY <1>1, <1>2 DEF ToSet
  <2> QED  BY <2>1, <2>2
<1>5. ASSUME Distinct(s)
      PROVE  Distinct(t) /\ Head(s) \notin ToSet(t)
  <2>1. Distinct(t)
    <3> SUFFICES ASSUME NEW i \in 1..Len(t), NEW j \in 1..Len(t), t[i] = t[j]
                 PROVE  i = j
      BY DEF Distinct
    <3>1. i + 1 = j + 1
      BY <1>2, <1>5 DEF Distinct
    <3> QED  BY <3>1
  <2>2. ASSUME NEW k \in 1..Len(t), t[k] = Head(s)
        PROVE  FALSE
    <3>1. k + 1 \in 1..Len(s) /\ s[k + 1] = s[1] /\ 1 \in 1..Len(s)
      BY <1>1, <1>2, <2>2
    <3>2. k + 1 = 1
      BY <1>5, <3>1 DEF Distinct
    <3> QED  BY <3>2
  <2> QED  BY <1>1, <2>1, <2>2 DEF ToSet
<1> QED  BY <1>1, <1>4, <1>5 DEF t

\* The elements of a concatenation.
LEMMA ConcatSet ==
  ASSUME NEW s \in Seq(Offers), NEW t \in Seq(Offers)
  PROVE  s \o t \in Seq(Offers) /\ ToSet(s \o t) = ToSet(s) \cup ToSet(t)
<1>1. /\ s \o t \in Seq(Offers) /\ Len(s) \in Nat /\ Len(t) \in Nat
      /\ Len(s \o t) = Len(s) + Len(t)
      /\ \A k \in 1..(Len(s) + Len(t)) :
             (s \o t)[k] = IF k <= Len(s) THEN s[k] ELSE t[k - Len(s)]
  OBVIOUS
<1> DEFINE u == s \o t
<1> HIDE DEF u
<1>2. /\ DOMAIN s = 1..Len(s) /\ DOMAIN t = 1..Len(t) /\ DOMAIN u = 1..(Len(s) + Len(t))
      /\ \A k \in 1..(Len(s) + Len(t)) : u[k] = IF k <= Len(s) THEN s[k] ELSE t[k - Len(s)]
  BY <1>1 DEF u
<1>3. ToSet(u) \subseteq ToSet(s) \cup ToSet(t)
  <2> SUFFICES ASSUME NEW k \in 1..(Len(s) + Len(t))
               PROVE  u[k] \in ToSet(s) \cup ToSet(t)
    BY <1>2 DEF ToSet
  <2>1. CASE k <= Len(s)
    BY <1>1, <1>2, <2>1 DEF ToSet
  <2>2. CASE ~(k <= Len(s))
    <3>1. k - Len(s) \in 1..Len(t)
      BY <1>1, <2>2
    <3> QED  BY <1>2, <2>2, <3>1 DEF ToSet
  <2> QED  BY <2>1, <2>2
<1>4. \A k \in 1..Len(s) : s[k] \in ToSet(u)
  BY <1>1, <1>2 DEF ToSet
<1>5. \A k \in 1..Len(t) : t[k] \in ToSet(u)
  <2> TAKE k \in 1..Len(t)
  <2>1. k + Len(s) \in 1..(Len(s) + Len(t)) /\ ~(k + Len(s) <= Len(s)) /\ (k + Len(s)) - Len(s) = k
    BY <1>1
  <2>2. u[k + Len(s)] = t[k]
    BY <1>2, <2>1
  <2> QED  BY <1>2, <2>1, <2>2 DEF ToSet
<1>6. ToSet(s) \subseteq ToSet(u) /\ ToSet(t) \subseteq ToSet(u)
  BY <1>2, <1>4, <1>5 DEF ToSet
<1> QED  BY <1>1, <1>3, <1>6 DEF u

\* What is in line are offers.
LEMMA LineOffers ==
  ASSUME bus \in Seq(Offers), mail \in Seq(Offers), queue \in Seq(Offers)
  PROVE  InLine \subseteq Offers
<1>1. ASSUME NEW s \in Seq(Offers)
      PROVE  ToSet(s) \subseteq Offers
  BY DEF ToSet
<1> QED  BY <1>1 DEF InLine

\* Calls come, are served and go; which offers are being answered changes with
\* the first and the last alone.
LEMMA HandOffers ==
  ASSUME TypeOK
  PROVE  /\ InHand \subseteq Offers
         /\ \A c \in Calls : call[c] # Idle => call[c].offer \in InHand
<1>1. \A c \in Calls : call[c] # Idle => call[c].offer \in Offers
  BY DEF TypeOK, CallOK
<1> QED  BY <1>1 DEF InHand

\* A call puts its offer among those being answered.
LEMMA InvokeHand ==
  ASSUME TypeOK, NEW c \in Calls, NEW kind, NEW o \in Offers, Invoke(c, kind, o)
  PROVE  /\ InHand' = InHand \cup {o}
         /\ call'[c].kind = kind /\ call'[c].offer = o /\ call'[c].result = "waiting"
         /\ \A d \in Calls \ {c} : call'[d] = call[d]
<1>1. /\ call'[c] = [kind |-> kind, offer |-> o, result |-> "waiting"]
      /\ \A d \in Calls \ {c} : call'[d] = call[d]
  BY DEF Invoke, TypeOK, CallOK
<1>2. call[c] = Idle /\ call'[c] # Idle /\ call'[c].offer = o
  BY <1>1 DEF Invoke, Idle
<1> QED  BY <1>1, <1>2 DEF InHand

\* The engine's answer does not change which offers are being answered.
LEMMA ServeHand ==
  ASSUME TypeOK, NEW c \in Calls, Serve(c)
  PROVE  /\ call[c].offer \in Offers /\ call[c].offer \in InHand
         /\ call'[c].result = IF entry[call[c].offer] = "open" THEN "ok" ELSE "error"
         /\ \A d \in Calls : call'[d].kind = call[d].kind /\ call'[d].offer = call[d].offer
         /\ \A d \in Calls \ {c} : call'[d] = call[d]
         /\ InHand' = InHand
<1>1. /\ call[c] \in [kind : {"accept", "decline", "skip"}, offer : Offers,
                      result : {"waiting", "ok", "error"}]
      /\ call[c] # Idle
  BY DEF Serve, Idle, TypeOK, CallOK
<1>2. /\ call'[c].kind = call[c].kind /\ call'[c].offer = call[c].offer
      /\ call'[c].result = IF entry[call[c].offer] = "open" THEN "ok" ELSE "error"
      /\ \A d \in Calls \ {c} : call'[d] = call[d]
  BY <1>1 DEF Serve, TypeOK, CallOK
<1>3. call'[c] # Idle
  BY <1>1, <1>2 DEF Idle
<1>4. InHand' = InHand
  BY <1>1, <1>2, <1>3 DEF InHand
<1>5. call[c].offer \in InHand
  BY <1>1 DEF InHand
<1> QED  BY <1>1, <1>2, <1>4, <1>5

\* Who begins a call serves none.
LEMMA InvokeServes ==
  ASSUME TypeOK, NEW c \in Calls, NEW kind, NEW o \in Offers, Invoke(c, kind, o),
         NEW d \in Calls
  PROVE  ~Serve(d)
<1> SUFFICES ASSUME Serve(d)
             PROVE  FALSE
  OBVIOUS
<1>1. call[c] = Idle /\ call'[c].result = "waiting" /\ \A e \in Calls \ {c} : call'[e] = call[e]
  BY InvokeHand DEF Invoke
<1>2. call[d].result = "waiting" /\ call'[d].result \in {"ok", "error"}
  BY ServeHand DEF Serve
<1> QED  BY <1>1, <1>2 DEF Idle

\* A call that returns takes its offer out, unless another call still has it.
LEMMA ReturnHand ==
  ASSUME TypeOK, NEW c \in Calls, Return(c)
  PROVE  /\ call[c].offer \in Offers /\ call'[c] = Idle
         /\ \A d \in Calls \ {c} : call'[d] = call[d]
         /\ InHand = InHand' \cup {call[c].offer}
<1>1. /\ call[c].offer \in Offers /\ call[c] # Idle /\ call'[c] = Idle
      /\ \A d \in Calls \ {c} : call'[d] = call[d]
  BY DEF Return, Idle, TypeOK, CallOK
<1> QED  BY <1>1 DEF InHand

\* The next of the queue comes up, or nothing does.
LEMMA ShowNextEffect ==
  ASSUME TypeOK, NEW panes, ShowNext(panes)
  PROVE  \/ /\ queue # <<>> /\ panes = {} /\ dialog' = Head(queue) /\ queue' = Tail(queue)
            /\ dialog' \in Offers /\ dialog' \in ToSet(queue)
         \/ /\ queue = <<>> \/ panes # {}
            /\ dialog' = None /\ ~enabled' /\ queue' = queue
<1>1. CASE queue # <<>> /\ panes = {} /\ showOfferModal(Head(queue)) /\ queue' = Tail(queue)
  <2>1. queue \in Seq(Offers)
    BY DEF TypeOK, ScreenOK
  <2> QED  BY <1>1, <2>1, TailSet DEF showOfferModal
<1>2. CASE (queue = <<>> \/ panes # {}) /\ dialog' = None /\ enabled' = FALSE /\ queue' = queue
  BY <1>2
<1> QED  BY <1>1, <1>2 DEF ShowNext

\* Steps that move no offer in line: the dialog closes, or is the next of the
\* queue, or that of a call that ends.
LEMMA ShownPlace ==
  ASSUME TypeOK, OnePlace, UNCHANGED <<bus, mail>>,
         \A c \in Calls : call'[c] = call[c] \/ call'[c] = Idle,
         \/ queue' = queue /\ dialog' \in {dialog, None}
         \/ queue # <<>> /\ dialog' = Head(queue) /\ queue' = Tail(queue)
         \/ /\ queue' = queue
            /\ \E c \in Calls : /\ call[c].kind = "skip" /\ call[c] # Idle
                                /\ call'[c] = Idle /\ dialog' = call[c].offer
  PROVE  OnePlace'
<1>0. /\ bus \in Seq(Offers) /\ mail \in Seq(Offers) /\ queue \in Seq(Offers)
      /\ None \notin InLine /\ InLine \subseteq Offers
  BY DEF TypeOK, EngineOK, ScreenOK, InLine, ToSet
<1>1. /\ InHand' \subseteq InHand
      /\ \A c \in Calls : call[c] # Idle => call[c].offer \in InHand /\ call[c].offer # None
      /\ Idle.kind # "skip" /\ Idle.offer = None
  BY DEF InHand, Idle, TypeOK, CallOK
<1>2. CASE queue' = queue /\ dialog' \in {dialog, None}
  <2>1. InLine' = InLine
    BY <1>2 DEF InLine
  <2> QED  BY <1>0, <1>1, <1>2, <2>1 DEF OnePlace
<1>3. CASE queue # <<>> /\ dialog' = Head(queue) /\ queue' = Tail(queue)
  <2>1. /\ ToSet(queue) = ToSet(queue') \cup {dialog'}
        /\ Distinct(queue') /\ dialog' \notin ToSet(queue')
    BY <1>0, <1>3, TailSet DEF OnePlace
  <2>2. InLine' \subseteq InLine /\ dialog' \in InLine
    BY <2>1 DEF InLine
  <2>3. dialog' \notin InLine' /\ InHand' \cap InLine' = {}
    BY <1>1, <2>1, <2>2 DEF OnePlace, InLine
  <2>4. \A c \in Calls : call'[c].kind = "skip" =>
           /\ call'[c].offer # dialog'
           /\ \A d \in Calls \ {c} : call'[d].offer # call'[c].offer
    <3> SUFFICES ASSUME NEW c \in Calls, call'[c].kind = "skip"
                 PROVE  /\ call'[c].offer # dialog'
                        /\ \A d \in Calls \ {c} : call'[d].offer # call'[c].offer
      OBVIOUS
    <3>1. call'[c] = call[c] /\ call[c] # Idle /\ call[c].offer \in InHand
      BY <1>1
    <3>2. call[c].offer # dialog'
      BY <2>2, <3>1 DEF OnePlace
    <3> QED  BY <1>1, <3>1, <3>2 DEF OnePlace
  <2> QED  BY <2>1, <2>3, <2>4 DEF OnePlace
<1>4. ASSUME queue' = queue, NEW b \in Calls, call[b].kind = "skip", call[b] # Idle,
             call'[b] = Idle, dialog' = call[b].offer
      PROVE  OnePlace'
  <2>1. InLine' = InLine
    BY <1>4 DEF InLine
  <2>2. dialog' \notin InLine'
    BY <1>1, <1>4, <2>1 DEF OnePlace
  <2>3. \A c \in Calls : call'[c].kind = "skip" => call'[c].offer # dialog'
    <3> SUFFICES ASSUME NEW c \in Calls, call'[c].kind = "skip"
                 PROVE  call'[c].offer # dialog'
      OBVIOUS
    <3>1. c # b /\ call'[c] = call[c]
      BY <1>1, <1>4
    <3> QED  BY <1>4, <3>1 DEF OnePlace
  <2>4. \A c \in Calls : call'[c].kind = "skip" =>
            \A d \in Calls \ {c} : call'[d].offer # call'[c].offer
    <3> SUFFICES ASSUME NEW c \in Calls, call'[c].kind = "skip", NEW d \in Calls \ {c}
                 PROVE  call'[d].offer # call'[c].offer
      OBVIOUS
    <3>1. call'[c] = call[c] /\ call[c] # Idle
      BY <1>1
    <3> QED  BY <1>1, <3>1 DEF OnePlace
  <2> QED  BY <1>1, <1>4, <2>1, <2>2, <2>3, <2>4 DEF OnePlace
<1> QED  BY <1>2, <1>3, <1>4

\* What a returning call does to line and dialog.
LEMMA ReturnShows ==
  ASSUME TypeOK, NEW c \in Calls, Return(c)
  PROVE  /\ UNCHANGED <<bus, mail>>
         /\ \/ queue' = queue /\ dialog' \in {dialog, None}
            \/ queue # <<>> /\ dialog' = Head(queue) /\ queue' = Tail(queue)
            \/ /\ queue' = queue /\ call[c].kind = "skip" /\ call[c].result = "error"
               /\ dialog' = call[c].offer
<1>1. UNCHANGED <<bus, mail>>
  BY DEF Return, engine
<1>2. CASE AcceptReturns(c)
  BY <1>1, <1>2 DEF AcceptReturns, HideOffer
<1>3. CASE DeclineReturns(c)
  BY <1>1, <1>3, ShowNextEffect DEF DeclineReturns, closeOfferModal
<1>4. CASE SkipReturns(c)
  BY <1>1, <1>4 DEF SkipReturns, showOfferModal
<1> QED  BY <1>2, <1>3, <1>4 DEF Return

\* Every offer stays in its one place.
LEMMA NextOnePlace ==
  ASSUME TypeOK, OnePlace, Known, Fresh, [Next]_vars
  PROVE  OnePlace'
<1>0. /\ bus \in Seq(Offers) /\ mail \in Seq(Offers) /\ queue \in Seq(Offers)
      /\ dialog \in Offers \cup {None} /\ InHand \subseteq Offers
      /\ Idle.kind # "skip" /\ Idle.offer = None
  BY HandOffers DEF TypeOK, EngineOK, ScreenOK, Idle
<1>1. CASE UNCHANGED <<bus, mail, queue, dialog, call>>
  BY <1>1, ShownPlace
<1>2. ASSUME NEW o \in Offers, Arrive(o)
      PROVE  OnePlace'
  <2>1. entry[o] = "new" /\ UNCHANGED <<mail, queue, dialog, call>>
    BY <1>2 DEF Arrive, screen
  <2>2. o \notin InLine /\ o # dialog /\ o \notin InHand
    BY <2>1, <1>2 DEF Known, Fresh, Pristine
  <2>3. \/ /\ Distinct(bus') /\ ToSet(bus') \subseteq ToSet(bus) \cup {o}
        \/ bus' = bus
    <3>1. CASE bus' = Append(bus, o)
      BY <1>0, <2>2, <3>1, AppendSet DEF OnePlace, InLine
    <3>2. CASE pump /\ Len(bus) = Cap /\ bus' = Append(Tail(bus), o)
      <4>1. bus # <<>>
        BY <1>0, <3>2, EmptySeq
      <4>2. Tail(bus) \in Seq(Offers) /\ ToSet(Tail(bus)) \subseteq ToSet(bus) /\ Distinct(Tail(bus))
        BY <1>0, <4>1, TailSet DEF OnePlace
      <4> QED  BY <2>2, <3>2, <4>2, AppendSet DEF InLine
    <3> QED  BY <1>2, <3>1, <3>2 DEF Arrive, Broadcast
  <2>4. InHand' = InHand
    BY <2>1 DEF InHand
  <2> QED  BY <2>1, <2>2, <2>3, <2>4 DEF OnePlace, InLine
<1>3. CASE Recv
  <2>1. bus # <<>> /\ mail' = Append(mail, Head(bus)) /\ bus' = Tail(bus)
        /\ UNCHANGED <<queue, dialog, call>>
    BY <1>3 DEF Recv, screen
  <2>2. /\ Head(bus) \in Offers /\ ToSet(bus) = ToSet(bus') \cup {Head(bus)}
        /\ Distinct(bus') /\ Head(bus) \notin ToSet(bus')
    BY <1>0, <2>1, TailSet DEF OnePlace
  <2>3. ToSet(mail') = ToSet(mail) \cup {Head(bus)} /\ Distinct(mail')
    BY <1>0, <2>1, <2>2, AppendSet DEF OnePlace
  <2>4. InHand' = InHand
    BY <2>1 DEF InHand
  <2> QED  BY <2>1, <2>2, <2>3, <2>4 DEF OnePlace, InLine
<1>4. CASE Event
  <2> DEFINE o == Head(mail)
  <2>1. mail # <<>> /\ mail' = Tail(mail) /\ UNCHANGED bus
    BY <1>4 DEF Event, engine
  <2>2. /\ o \in Offers /\ ToSet(mail) = ToSet(mail') \cup {o}
        /\ Distinct(mail') /\ o \notin ToSet(mail')
    BY <1>0, <2>1, TailSet DEF OnePlace
  <2>3. o \in InLine /\ o # dialog /\ o \notin InHand
    BY <2>2 DEF OnePlace, InLine
  <2> HIDE DEF o
  <2>4. CASE Enqueue(o) /\ queue' = Append(queue, o) /\ dialog' = dialog
    <3>1. ToSet(queue') = ToSet(queue) \cup {o} /\ Distinct(queue')
      BY <1>0, <2>2, <2>4, AppendSet DEF OnePlace
    <3>2. UNCHANGED call /\ InHand' = InHand
      BY <2>4 DEF Enqueue, InHand
    <3> QED  BY <2>1, <2>2, <2>4, <3>1, <3>2 DEF OnePlace, InLine
  <2>5. CASE Enqueue(o) /\ queue' = queue /\ dialog' = o
    <3>1. UNCHANGED call /\ InHand' = InHand
      BY <2>5 DEF Enqueue, InHand
    <3>2. \A c \in Calls : call[c].kind = "skip" => call[c].offer \in InHand
      BY <1>0 DEF InHand
    <3> QED  BY <2>1, <2>2, <2>3, <2>5, <3>1, <3>2 DEF OnePlace, InLine
  <2>6. ASSUME NEW c \in Calls, Skip(c, o)
        PROVE  OnePlace'
    <3>1. UNCHANGED <<queue, dialog>>
      BY <2>6 DEF Skip, screen
    <3>2. /\ InHand' = InHand \cup {o} /\ call'[c].offer = o
          /\ \A d \in Calls \ {c} : call'[d] = call[d]
      BY <2>2, <2>6, InvokeHand DEF Skip
    <3>3. InLine' \subseteq InLine /\ o \notin InLine'
      BY <2>1, <2>2, <3>1 DEF InLine, OnePlace
    <3>4. dialog' \notin InLine' /\ InHand' \cap InLine' = {}
      BY <3>1, <3>2, <3>3 DEF OnePlace
    <3>5. \A d \in Calls \ {c} : call'[d].offer # o
      BY <1>0, <2>2, <2>3, <3>2 DEF InHand
    <3>6. \A d \in Calls : call'[d].kind = "skip" =>
             /\ call'[d].offer # dialog'
             /\ \A e \in Calls \ {d} : call'[e].offer # call'[d].offer
      BY <2>3, <3>1, <3>2, <3>5 DEF OnePlace
    <3> QED  BY <2>1, <2>2, <3>1, <3>4, <3>6 DEF OnePlace
  <2> QED  BY <1>4, <2>4, <2>5, <2>6 DEF Event, Enqueue, showOfferModal, o
<1>5. ASSUME NEW c \in Calls, ClickAccept(c) \/ ClickDecline(c)
      PROVE  OnePlace'
  <2>1. dialog \in Offers /\ UNCHANGED <<bus, mail, queue, dialog>>
    BY <1>0, <1>5 DEF ClickAccept, ClickDecline, engine, screen
  <2>3. PICK kind \in {"accept", "decline"} : Invoke(c, kind, dialog)
    BY <1>5 DEF ClickAccept, ClickDecline
  <2>2. /\ InHand' = InHand \cup {dialog} /\ call'[c].offer = dialog /\ call'[c].kind # "skip"
        /\ \A d \in Calls \ {c} : call'[d] = call[d]
    BY <2>1, <2>3, InvokeHand
  <2> QED  BY <2>1, <2>2 DEF OnePlace, InLine
<1>6. ASSUME NEW c \in Calls, Serve(c)
      PROVE  OnePlace'
  <2>1. UNCHANGED <<bus, mail, queue, dialog>>
    BY <1>6 DEF Serve, screen
  <2> QED  BY <1>6, <2>1, ServeHand DEF OnePlace, InLine
<1>7. ASSUME NEW c \in Calls, Return(c)
      PROVE  OnePlace'
  <2>1. call[c] # Idle /\ \A d \in Calls : call'[d] = call[d] \/ call'[d] = Idle
    BY <1>7, ReturnHand DEF Return, Idle
  <2> QED  BY <1>7, <2>1, ReturnShows, ReturnHand, ShownPlace
<1>8. CASE Dismiss \/ ClosePreview \/ AcceptPreview \/ \E o \in Offers : Fade(o)
  <2>1. /\ UNCHANGED <<bus, mail, call>>
        /\ \/ UNCHANGED <<queue, dialog>>
           \/ \E panes : ShowNext(panes)
    BY <1>8 DEF Dismiss, closeOfferModal, ClosePreview, AcceptPreview, closePreview, Fade, engine
  <2>2. CASE UNCHANGED <<queue, dialog>>
    BY <1>1, <2>1, <2>2
  <2>3. CASE \E panes : ShowNext(panes)
    BY <2>1, <2>3, ShowNextEffect, ShownPlace
  <2> QED  BY <2>1, <2>2, <2>3
<1> QED
  BY <1>1, <1>2, <1>3, <1>4, <1>5, <1>6, <1>7, <1>8 DEF Next, User, StartNearby, SpawnPump,
     StopNearby, Lapse, Expire, Tick, OpenSheet, CloseSheet, TypeCode, ReceiveDone,
     RememberReturns, ReceiveFails, engine, screen, preview, trust, vars

\* How the engine's record of an offer changes: it arrives, it lapses, it is answered.
LEMMA EntryMoves ==
  ASSUME TypeOK, [Next]_vars, NEW o \in Offers
  PROVE  /\ \/ entry'[o] = entry[o]
            \/ entry[o] = "new" /\ entry'[o] \in {"open", "declined"}
            \/ entry[o] = "open" /\ entry'[o] = "lapsed" /\ age[o] = Wait /\ age'[o] = age[o]
            \/ /\ entry[o] = "open" /\ entry'[o] \in {"accepted", "declined"}
               /\ \E c \in Calls : Serve(c) /\ call[c].offer = o
         /\ entry[o] # "open" => age'[o] = age[o]
<1> DEFINE Goal ==
       /\ \/ entry'[o] = entry[o]
          \/ entry[o] = "new" /\ entry'[o] \in {"open", "declined"}
          \/ entry[o] = "open" /\ entry'[o] = "lapsed" /\ age[o] = Wait /\ age'[o] = age[o]
          \/ /\ entry[o] = "open" /\ entry'[o] \in {"accepted", "declined"}
             /\ \E c \in Calls : Serve(c) /\ call[c].offer = o
       /\ entry[o] # "open" => age'[o] = age[o]
<1> SUFFICES Goal
  OBVIOUS
<1>0. entry \in [Offers -> {"new", "open", "accepted", "declined", "lapsed"}]
  BY DEF TypeOK, EngineOK
<1>1. ASSUME NEW q \in Offers, Arrive(q)
      PROVE  Goal
  <2>1. /\ UNCHANGED age /\ entry[q] = "new"
        /\ \/ entry' = [entry EXCEPT ![q] = "open"]
           \/ entry' = [entry EXCEPT ![q] = "declined"]
    BY <1>1 DEF Arrive
  <2> QED  BY <1>0, <2>1
<1>2. ASSUME NEW q \in Offers, Lapse(q)
      PROVE  Goal
  <2>1. /\ UNCHANGED age /\ entry[q] = "open" /\ age[q] = Wait
        /\ entry' = [entry EXCEPT ![q] = "lapsed"]
    BY <1>2 DEF Lapse, LapseDue
  <2> QED  BY <1>0, <2>1
<1>3. ASSUME NEW c \in Calls, Serve(c)
      PROVE  Goal
  <2>1. /\ UNCHANGED age
        /\ \/ UNCHANGED entry
           \/ /\ entry[call[c].offer] = "open"
              /\ entry' = [entry EXCEPT ![call[c].offer] = Verdict(call[c].kind)]
    BY <1>3 DEF Serve
  <2>2. Verdict(call[c].kind) \in {"accepted", "declined"}
    BY DEF Verdict
  <2> QED  BY <1>0, <1>3, <2>1, <2>2
<1>4. CASE UNCHANGED <<entry, age>>
  BY <1>4
<1>5. CASE Tick
  BY <1>5 DEF Tick
<1> HIDE DEF Goal
<1>6. CASE User
  <2>1. UNCHANGED <<entry, age>>
    BY <1>6 DEF User, StartNearby, StopNearby, ClickAccept, ClickDecline, Dismiss, OpenSheet,
       CloseSheet, TypeCode, ClosePreview, AcceptPreview, closePreview, engine
  <2> QED  BY <1>4, <2>1
<1>7. CASE \/ SpawnPump \/ Recv \/ Event \/ Expire \/ UNCHANGED vars
           \/ \E c \in Calls : Return(c)
           \/ \E q \in Offers : Fade(q)
           \/ \E t \in Offers \cup {Code} : ReceiveDone(t) \/ ReceiveFails(t)
           \/ \E d \in Devices : RememberReturns(d)
  <2>1. UNCHANGED <<entry, age>>
    BY <1>7 DEF SpawnPump, Recv, Event, Expire, Return, Fade, ReceiveDone, RememberReturns, ReceiveFails,
       engine, vars
  <2> QED  BY <1>4, <2>1
<1> QED
  BY <1>1, <1>2, <1>3, <1>5, <1>6, <1>7 DEF Next

\* An offer nobody has answered stays so while no answer to it is served.
LEMMA PristineStays ==
  ASSUME TypeOK, [Next]_vars, NEW o \in Offers, Pristine(o),
         \A c \in Calls : Serve(c) => call[c].offer # o
  PROVE  Pristine(o)'
  BY EntryMoves DEF Pristine

\* What is in line was so before, or arrives.
LEMMA LineSource ==
  ASSUME TypeOK, [Next]_vars, NEW o \in InLine'
  PROVE  o \in Offers /\ (o \in InLine \/ (entry[o] = "new" /\ entry'[o] = "open"))
<1> DEFINE Goal == o \in Offers /\ (o \in InLine \/ (entry[o] = "new" /\ entry'[o] = "open"))
<1> SUFFICES Goal
  OBVIOUS
<1>0. /\ bus \in Seq(Offers) /\ mail \in Seq(Offers) /\ queue \in Seq(Offers)
      /\ InLine \subseteq Offers
  <2>1. bus \in Seq(Offers) /\ mail \in Seq(Offers) /\ queue \in Seq(Offers)
    BY DEF TypeOK, EngineOK, ScreenOK
  <2> QED  BY <2>1, LineOffers
<1>1. CASE InLine' \subseteq InLine
  BY <1>0, <1>1
<1>2. ASSUME NEW q \in Offers, Arrive(q)
      PROVE  Goal
  <2>1. /\ entry[q] = "new" /\ UNCHANGED <<mail, queue>>
        /\ \/ entry' = [entry EXCEPT ![q] = "open"] /\ Broadcast(q)
           \/ UNCHANGED bus
    BY <1>2 DEF Arrive, screen
  <2>2. ToSet(bus') \subseteq ToSet(bus) \cup {q}
    <3>1. CASE bus' = Append(bus, q)
      BY <1>0, <3>1, AppendSet
    <3>2. CASE Len(bus) = Cap /\ bus' = Append(Tail(bus), q)
      <4>1. bus # <<>>
        BY <1>0, <3>2, EmptySeq
      <4>2. Tail(bus) \in Seq(Offers) /\ ToSet(Tail(bus)) \subseteq ToSet(bus)
        BY <1>0, <4>1, TailSet
      <4> QED  BY <3>2, <4>2, AppendSet
    <3> QED  BY <2>1, <3>1, <3>2 DEF Broadcast
  <2>3. CASE o = q /\ ~UNCHANGED bus
    BY <2>1, <2>3 DEF TypeOK, EngineOK
  <2> QED  BY <1>0, <2>1, <2>2, <2>3 DEF InLine
<1>3. CASE Recv
  <2>1. bus # <<>> /\ mail' = Append(mail, Head(bus)) /\ bus' = Tail(bus) /\ UNCHANGED queue
    BY <1>3 DEF Recv, screen
  <2>2. Head(bus) \in Offers /\ ToSet(bus) = ToSet(bus') \cup {Head(bus)}
    BY <1>0, <2>1, TailSet
  <2>3. ToSet(mail') = ToSet(mail) \cup {Head(bus)}
    BY <1>0, <2>1, <2>2, AppendSet
  <2> QED  BY <1>1, <2>1, <2>2, <2>3 DEF InLine
<1>4. CASE Event
  <2>1. mail # <<>> /\ mail' = Tail(mail) /\ UNCHANGED bus
    BY <1>4 DEF Event, engine
  <2>2. Head(mail) \in Offers /\ ToSet(mail) = ToSet(mail') \cup {Head(mail)}
    BY <1>0, <2>1, TailSet
  <2>3. queue' = queue \/ queue' = Append(queue, Head(mail))
    BY <1>4 DEF Event, Enqueue, Skip, screen
  <2>4. ToSet(queue') \subseteq ToSet(queue) \cup {Head(mail)}
    <3>1. ToSet(Append(queue, Head(mail))) = ToSet(queue) \cup {Head(mail)}
      BY <1>0, <2>2, AppendSet
    <3> QED  BY <2>3, <3>1
  <2> QED  BY <1>1, <2>1, <2>2, <2>4 DEF InLine
<1>5. CASE UNCHANGED <<bus, mail>> /\ (queue' = queue \/ (queue # <<>> /\ queue' = Tail(queue)))
  <2>1. queue # <<>> => ToSet(Tail(queue)) \subseteq ToSet(queue)
    BY <1>0, TailSet
  <2>2. ToSet(queue') \subseteq ToSet(queue)
    BY <1>5, <2>1
  <2> QED  BY <1>1, <1>5, <2>2 DEF InLine
<1>6. ASSUME NEW c \in Calls, Return(c)
      PROVE  Goal
  BY <1>5, <1>6, ReturnShows
<1>7. CASE Dismiss \/ ClosePreview \/ AcceptPreview \/ \E q \in Offers : Fade(q)
  <2>1. UNCHANGED <<bus, mail>> /\ (UNCHANGED queue \/ \E panes : ShowNext(panes))
    BY <1>7 DEF Dismiss, closeOfferModal, ClosePreview, AcceptPreview, closePreview, Fade, engine
  <2> QED  BY <1>5, <2>1, ShowNextEffect
<1> HIDE DEF Goal
<1>8. CASE \/ StartNearby \/ StopNearby \/ OpenSheet \/ CloseSheet \/ TypeCode
           \/ \E c \in Calls : ClickAccept(c) \/ ClickDecline(c)
  BY <1>5, <1>8 DEF StartNearby, StopNearby, OpenSheet, CloseSheet, TypeCode, ClickAccept,
     ClickDecline, engine, screen
<1>9. CASE \/ SpawnPump \/ Expire \/ Tick \/ UNCHANGED vars
           \/ \E c \in Calls : Serve(c)
           \/ \E q \in Offers : Lapse(q)
           \/ \E t \in Offers \cup {Code} : ReceiveDone(t) \/ ReceiveFails(t)
           \/ \E d \in Devices : RememberReturns(d)
  BY <1>5, <1>9 DEF SpawnPump, Expire, Tick, Serve, Lapse, ReceiveDone, RememberReturns, ReceiveFails, engine,
     screen, vars
<1> QED
  BY <1>2, <1>3, <1>4, <1>6, <1>7, <1>8, <1>9 DEF Next, User

\* What a call is after a step: as it was, over, served, or begun for the offer that
\* is shown or whose event has just come.
LEMMA CallMoves ==
  ASSUME TypeOK, [Next]_vars, NEW c \in Calls
  PROVE  \/ call'[c] = call[c]
         \/ call'[c] = Idle
         \/ Serve(c)
         \/ /\ call'[c].result = "waiting" /\ call'[c].offer \in Offers
            /\ \/ call'[c].kind # "skip" /\ call'[c].offer = dialog
               \/ call'[c].kind = "skip" /\ call'[c].offer \in InLine
            /\ \A d \in Calls : ~Serve(d)
<1> DEFINE Goal == \/ call'[c] = call[c]
                   \/ call'[c] = Idle
                   \/ Serve(c)
                   \/ /\ call'[c].result = "waiting" /\ call'[c].offer \in Offers
                      /\ \/ call'[c].kind # "skip" /\ call'[c].offer = dialog
                         \/ call'[c].kind = "skip" /\ call'[c].offer \in InLine
                      /\ \A d \in Calls : ~Serve(d)
<1> SUFFICES Goal
  OBVIOUS
<1>1. CASE UNCHANGED call
  BY <1>1
<1>2. ASSUME NEW d \in Calls, Serve(d)
      PROVE  Goal
  BY <1>2, ServeHand
<1>3. ASSUME NEW d \in Calls, Return(d)
      PROVE  Goal
  BY <1>3, ReturnHand
<1>4. ASSUME NEW d \in Calls, ClickAccept(d) \/ ClickDecline(d)
      PROVE  Goal
  <2>1. dialog \in Offers
    BY <1>4 DEF ClickAccept, ClickDecline, TypeOK, ScreenOK
  <2>2. PICK kind \in {"accept", "decline"} : Invoke(d, kind, dialog)
    BY <1>4 DEF ClickAccept, ClickDecline
  <2>3. /\ call'[d].kind # "skip" /\ call'[d].offer = dialog /\ call'[d].result = "waiting"
        /\ \A e \in Calls \ {d} : call'[e] = call[e]
    BY <2>1, <2>2, InvokeHand
  <2>4. \A e \in Calls : ~Serve(e)
    BY <2>1, <2>2, InvokeServes
  <2> QED  BY <2>1, <2>3, <2>4
<1>5. ASSUME NEW d \in Calls, mail # <<>>, Skip(d, Head(mail))
      PROVE  Goal
  <2>1. Head(mail) \in Offers /\ Head(mail) \in InLine
    BY <1>5, TailSet DEF TypeOK, InLine
  <2>2. Invoke(d, "skip", Head(mail))
    BY <1>5 DEF Skip
  <2>3. /\ call'[d].kind = "skip" /\ call'[d].offer = Head(mail) /\ call'[d].result = "waiting"
        /\ \A e \in Calls \ {d} : call'[e] = call[e]
    BY <2>1, <2>2, InvokeHand
  <2>4. \A e \in Calls : ~Serve(e)
    BY <2>1, <2>2, InvokeServes
  <2> QED  BY <2>1, <2>3, <2>4
<1> HIDE DEF Goal
<1>6. CASE User
  BY <1>1, <1>4, <1>6 DEF User, StartNearby, StopNearby, Dismiss, OpenSheet, CloseSheet,
     TypeCode, ClosePreview, AcceptPreview, closePreview
<1>7. CASE Event
  BY <1>1, <1>5, <1>7 DEF Event, Enqueue
<1> QED
  BY <1>1, <1>2, <1>3, <1>6, <1>7 DEF Next, SpawnPump, Arrive, Recv, Lapse, Expire, Tick, Fade,
     ReceiveDone, RememberReturns, ReceiveFails, vars

\* Where the dialog of a step comes from, and when it can be accepted.
DialogStays ==
    /\ dialog' = dialog
    /\ enabled' => enabled /\ (dialog \in InHand => dialog \in InHand')
DialogFails == \E c \in Calls : /\ Return(c) /\ call[c].kind = "skip"
                                /\ call[c].result = "error" /\ dialog' = call[c].offer

\* It stays, or it goes, or the next in line is shown, or the offer that the engine
\* did not take the answer of a trusted device for.
LEMMA DialogSource ==
  ASSUME TypeOK, OnePlace, [Next]_vars
  PROVE  DialogStays \/ (dialog' = None /\ ~enabled') \/ dialog' \in InLine \/ DialogFails
<1> DEFINE Goal == DialogStays \/ (dialog' = None /\ ~enabled') \/ dialog' \in InLine \/ DialogFails
<1> SUFFICES Goal
  OBVIOUS
<1>0. ToSet(queue) \subseteq InLine /\ ToSet(mail) \subseteq InLine
  BY DEF InLine
<1>1. CASE UNCHANGED <<dialog, enabled, call>>
  BY <1>1 DEF DialogStays, InHand
<1>2. CASE UNCHANGED call /\ \E panes : ShowNext(panes)
  BY <1>0, <1>2, ShowNextEffect
<1>3. CASE Event
  <2>1. Head(mail) \in ToSet(mail)
    BY <1>3, TailSet DEF Event, TypeOK
  <2>2. CASE Enqueue(Head(mail))
    <3>1. CASE UNCHANGED <<dialog, enabled, call>>
      BY <1>1, <3>1
    <3>2. CASE showOfferModal(Head(mail))
      BY <1>0, <2>1, <3>2 DEF showOfferModal
    <3> QED  BY <2>2, <3>1, <3>2 DEF Enqueue
  <2>3. ASSUME NEW c \in Calls, Skip(c, Head(mail))
        PROVE  Goal
    <3>1. Head(mail) \in Offers /\ UNCHANGED <<dialog, enabled>>
      BY <1>3, <2>3, TailSet DEF Event, Skip, screen, TypeOK
    <3>2. InHand \subseteq InHand'
      BY <2>3, <3>1, InvokeHand DEF Skip
    <3> QED  BY <3>1, <3>2 DEF DialogStays
  <2> QED  BY <1>3, <2>2, <2>3 DEF Event
<1>4. ASSUME NEW c \in Calls, ClickAccept(c) \/ ClickDecline(c)
      PROVE  Goal
  <2>1. dialog \in Offers /\ dialog' = dialog /\ (enabled' => enabled)
    <3>1. ClickAccept(c) => enabled
      BY Zenon DEF ClickAccept
    <3> QED  BY <1>4, <3>1 DEF ClickAccept, ClickDecline, screen, TypeOK, ScreenOK
  <2>2. InHand \subseteq InHand'
    <3>1. PICK kind : Invoke(c, kind, dialog)
      BY <1>4 DEF ClickAccept, ClickDecline
    <3> QED  BY <2>1, <3>1, InvokeHand
  <2> QED  BY <2>1, <2>2 DEF DialogStays
<1>5. ASSUME NEW c \in Calls, Serve(c)
      PROVE  Goal
  <2>1. UNCHANGED <<dialog, enabled>>
    BY <1>5 DEF Serve, screen
  <2> QED  BY <1>5, <2>1, ServeHand DEF DialogStays
<1>6. ASSUME NEW c \in Calls, Return(c)
      PROVE  Goal
  <2>0. /\ call[c].offer \in Offers
        /\ \A o \in InHand : o # call[c].offer => o \in InHand'
    BY <1>6, ReturnHand
  <2>1. CASE AcceptReturns(c) /\ Accepted(c)
    <3>1. dialog' = None /\ ~enabled'
      BY <2>1 DEF AcceptReturns, HideOffer
    <3> QED  BY <3>1
  <2>2. CASE AcceptReturns(c) /\ ~Accepted(c)
    <3>1. dialog' = dialog /\ expireOfferModal(call[c].offer)
      BY <2>2 DEF AcceptReturns
    <3>2. CASE dialog = call[c].offer
      <4>1. ~enabled'
        BY <3>1, <3>2, Zenon DEF expireOfferModal
      <4> QED  BY <3>1, <4>1 DEF DialogStays
    <3>3. CASE dialog # call[c].offer
      BY <2>0, <3>1, <3>3 DEF expireOfferModal, DialogStays
    <3> QED  BY <3>2, <3>3
  <2>3. CASE DeclineReturns(c)
    BY <1>0, <2>3, ShowNextEffect DEF DeclineReturns, closeOfferModal
  <2>4. CASE SkipReturns(c)
    <3>1. CASE call[c].result = "error" /\ showOfferModal(call[c].offer)
      BY <1>6, <2>4, <3>1 DEF SkipReturns, showOfferModal, DialogFails
    <3>2. CASE UNCHANGED <<dialog, enabled>>
      <4>1. dialog # call[c].offer
        BY <2>4 DEF SkipReturns, OnePlace
      <4> QED  BY <2>0, <3>2, <4>1 DEF DialogStays
    <3> QED  BY <2>4, <3>1, <3>2 DEF SkipReturns
  <2> QED  BY <1>6, <2>1, <2>2, <2>3, <2>4 DEF Return
<1>7. CASE Expire
  <2>1. UNCHANGED <<dialog, call>> /\ ~enabled'
    BY <1>7, Zenon DEF Expire, expireOfferModal
  <2> QED  BY <2>1 DEF DialogStays
<1>8. CASE Dismiss \/ ClosePreview \/ AcceptPreview \/ \E o \in Offers : Fade(o)
  <2>1. /\ UNCHANGED call
        /\ UNCHANGED <<dialog, enabled>> \/ \E panes : ShowNext(panes)
    BY <1>8 DEF Dismiss, closeOfferModal, ClosePreview, AcceptPreview, closePreview, Fade
  <2> QED  BY <1>1, <1>2, <2>1
<1> HIDE DEF Goal
<1>9. CASE \/ StartNearby \/ StopNearby \/ OpenSheet \/ CloseSheet \/ TypeCode
  BY <1>1, <1>9 DEF StartNearby, StopNearby, OpenSheet, CloseSheet, TypeCode, screen
<1>10. CASE \/ SpawnPump \/ Recv \/ Tick \/ UNCHANGED vars
            \/ \E o \in Offers : Arrive(o) \/ Lapse(o)
            \/ \E t \in Offers \cup {Code} : ReceiveDone(t) \/ ReceiveFails(t)
            \/ \E d \in Devices : RememberReturns(d)
  BY <1>1, <1>10 DEF SpawnPump, Recv, Tick, Arrive, Lapse, ReceiveDone, RememberReturns, ReceiveFails, screen,
     vars
<1> QED
  BY <1>3, <1>4, <1>5, <1>6, <1>7, <1>8, <1>9, <1>10 DEF Next, User

\* What is shown or being answered has arrived; an answer closes the engine's wait.
LEMMA NextKnown ==
  ASSUME TypeOK, OnePlace, Known, Fresh, [Next]_vars
  PROVE  Known'
<1>0. InLine \subseteq Offers /\ \A o \in InLine : entry[o] # "new"
  BY LineOffers DEF TypeOK, EngineOK, ScreenOK, Fresh, Pristine
<1>1. \A o \in Offers : entry[o] # "new" => entry'[o] # "new"
  BY EntryMoves
<1>2. ASSUME NEW c \in Calls, call[c] # Idle
      PROVE  call[c].offer \in Offers /\ entry[call[c].offer] # "new"
  BY <1>2, HandOffers DEF Known
<1>3. ASSUME NEW o \in Offers, o = dialog'
      PROVE  entry[o] # "new"
  <2>1. CASE dialog' = dialog \/ dialog' = None \/ dialog' \in InLine
    BY <1>0, <1>3, <2>1 DEF Known
  <2>2. ASSUME NEW c \in Calls, call[c].kind = "skip", dialog' = call[c].offer
        PROVE  entry[o] # "new"
    BY <1>2, <1>3, <2>2 DEF Idle
  <2> QED  BY <2>1, <2>2, DialogSource DEF DialogStays, DialogFails
<1>4. ASSUME NEW c \in Calls, call'[c] # Idle
      PROVE  call'[c].offer \in Offers /\ entry[call'[c].offer] # "new"
  <2>1. CASE call'[c] = call[c]
    BY <1>2, <1>4, <2>1
  <2>2. CASE Serve(c)
    <3>1. call'[c].offer = call[c].offer /\ call[c].offer \in InHand /\ call[c].offer \in Offers
      BY <2>2, ServeHand
    <3> QED  BY <3>1 DEF Known
  <2>3. CASE call'[c].offer \in Offers /\ call'[c].offer \in InLine \cup {dialog}
    BY <1>0, <2>3 DEF Known
  <2> QED  BY <1>4, <2>1, <2>2, <2>3, CallMoves
<1>5. \A o \in Offers : o = dialog' \/ o \in InHand' => entry'[o] # "new"
  BY <1>1, <1>3, <1>4 DEF InHand
<1>6. ASSUME NEW c \in Calls, call'[c].result \in {"ok", "error"}
      PROVE  entry'[call'[c].offer] # "open"
  <2>1. CASE call'[c] = call[c]
    <3>1. call[c] # Idle /\ entry[call[c].offer] # "open"
      BY <1>6, <2>1 DEF Known, Idle
    <3> QED  BY <1>2, <2>1, <3>1, EntryMoves
  <2>2. CASE Serve(c)
    <3>1. call'[c].offer = call[c].offer /\ call[c].offer \in InHand /\ call[c].offer \in Offers
      BY <2>2, ServeHand
    <3>2. entry'[call[c].offer] # "open"
      BY <2>2, <3>1 DEF Serve, Verdict, TypeOK, EngineOK
    <3> QED  BY <3>1, <3>2
  <2> QED  BY <1>6, <2>1, <2>2, CallMoves DEF Idle
<1> QED  BY <1>5, <1>6 DEF Known

\* Nobody answers for an offer that is in line, and an offer that is shown can only be
\* answered by a call.
LEMMA NextFresh ==
  ASSUME TypeOK, OnePlace, Known, Fresh, [Next]_vars
  PROVE  Fresh'
<1>0. InLine \subseteq Offers /\ \A c \in Calls : Serve(c) => call[c].offer \in InHand
  BY LineOffers, ServeHand DEF TypeOK, EngineOK, ScreenOK
<1>1. ASSUME NEW o \in InLine
      PROVE  Pristine(o)'
  BY <1>0, PristineStays DEF Fresh, OnePlace
<1>2. \A o \in InLine' : Pristine(o)'
  BY <1>1, LineSource DEF Pristine
<1>4. ASSUME NEW c \in Calls, call'[c].kind = "skip", call'[c].result # "ok",
             NEW o, o = call'[c].offer
      PROVE  Pristine(o)'
  <2>1. CASE call'[c] = call[c]
    <3>1. o \in Offers /\ Pristine(o)
      BY <1>4, <2>1, HandOffers DEF Idle, Fresh
    <3>2. \A d \in Calls : Serve(d) => call[d].offer # o
      <4>1. ~Serve(c)
        BY <2>1, ServeHand DEF Serve
      <4> QED  BY <1>4, <2>1, <4>1 DEF OnePlace
    <3> QED  BY <3>1, <3>2, PristineStays
  <2>2. CASE Serve(c)
    <3>1. call[c].kind = "skip" /\ o = call[c].offer /\ entry[o] # "open"
      BY <1>4, <2>2, ServeHand
    <3>2. UNCHANGED <<entry, age>> /\ Pristine(o)
      BY <2>2, <3>1 DEF Serve, Fresh
    <3> QED  BY <3>2 DEF Pristine
  <2>3. CASE o \in InLine
    BY <1>1, <2>3
  <2> QED  BY <1>4, <2>1, <2>2, <2>3, CallMoves DEF Idle
<1>5. ASSUME enabled'
      PROVE  Pristine(dialog)' \/ dialog' \in InHand'
  <2>1. CASE DialogStays
    <3>1. dialog \in Offers /\ (Pristine(dialog) \/ dialog \in InHand)
      BY <1>5, <2>1 DEF DialogStays, Fresh, TypeOK, ScreenOK
    <3>2. CASE dialog \in InHand
      BY <1>5, <2>1, <3>2 DEF DialogStays
    <3>3. CASE Pristine(dialog) /\ dialog \notin InHand
      <4>1. entry'[dialog] = "open" \/ (entry'[dialog] = "lapsed" /\ age'[dialog] = Wait)
        BY <1>0, <3>1, <3>3, PristineStays DEF Pristine
      <4> QED  BY <2>1, <4>1 DEF DialogStays, Pristine
    <3> QED  BY <3>1, <3>2, <3>3
  <2>2. CASE dialog' \in InLine
    <3> DEFINE o == dialog'
    <3>1. o \in InLine
      BY <2>2
    <3> HIDE DEF o
    <3>2. entry'[o] = "open" \/ (entry'[o] = "lapsed" /\ age'[o] = Wait)
      BY <3>1, <1>1 DEF Pristine
    <3> QED  BY <3>2 DEF Pristine, o
  <2>3. ASSUME NEW c \in Calls, call[c].kind = "skip", call[c].result = "error",
               dialog' = call[c].offer
        PROVE  Pristine(dialog)'
    <3> DEFINE o == call[c].offer
    <3>1. o \in Offers /\ \A d \in Calls : Serve(d) => call[d].offer # o
      BY <2>3, HandOffers DEF Idle, Serve, OnePlace
    <3>2. Pristine(o)
      BY <2>3 DEF Fresh
    <3>3. dialog' = o
      BY <2>3
    <3> HIDE DEF o
    <3>4. entry'[o] = "open" \/ (entry'[o] = "lapsed" /\ age'[o] = Wait)
      BY <3>1, <3>2, PristineStays DEF Pristine
    <3> QED  BY <3>3, <3>4 DEF Pristine
  <2> QED  BY <1>5, <2>1, <2>2, <2>3, DialogSource DEF DialogFails
<1>6. \A c \in Calls : call'[c].kind = "skip" /\ call'[c].result # "ok" => Pristine(call[c].offer)'
  BY <1>4 DEF Pristine
<1> QED  BY <1>2, <1>5, <1>6 DEF Fresh

\* No step forgets an offer: what leaves the line is shown, answered or dropped by
\* the channel, a dialog that goes is recorded as closed, and a call is over only
\* after the engine has answered it.
LEMMA NothingLost ==
  ASSUME TypeOK, Known, [Next]_vars
  PROVE  /\ missed \subseteq missed' /\ dropped \subseteq dropped'
         /\ dialog \in {dialog', None} \cup dropped'
         /\ InLine \subseteq InLine' \cup missed' \cup {dialog'} \cup InHand'
         /\ \A o \in InHand : entry[o] = "open" => o \in InHand'
<1> DEFINE Screen == dropped \subseteq dropped' /\ dialog \in {dialog', None} \cup dropped'
           Line   == InLine \subseteq InLine' \cup missed' \cup {dialog'} \cup InHand'
           Hand   == \A o \in InHand : entry[o] = "open" => o \in InHand'
           Goal   == missed \subseteq missed' /\ Screen /\ Line /\ Hand
<1> SUFFICES Goal
  OBVIOUS
<1>0. bus \in Seq(Offers) /\ mail \in Seq(Offers) /\ queue \in Seq(Offers)
  BY DEF TypeOK, EngineOK, ScreenOK
<1>1. ASSUME UNCHANGED call
      PROVE  Hand
  BY <1>1 DEF InHand
<1>2. ASSUME UNCHANGED <<bus, mail, queue>>
      PROVE  Line
  BY <1>2 DEF InLine
<1>3. ASSUME UNCHANGED <<bus, mail>>, NEW panes, ShowNext(panes)
      PROVE  Line
  <2>1. queue # <<>> => ToSet(queue) = ToSet(Tail(queue)) \cup {Head(queue)}
    BY <1>0, TailSet
  <2>2. \/ queue # <<>> /\ dialog' = Head(queue) /\ queue' = Tail(queue)
        \/ queue' = queue
    BY <1>3, ShowNextEffect
  <2> QED  BY <1>3, <2>1, <2>2 DEF InLine
<1>4. ASSUME NEW c \in Calls, NEW kind, NEW o \in Offers, Invoke(c, kind, o)
      PROVE  Hand
  BY <1>4, InvokeHand
<1>5. CASE Event
  <2>1. /\ mail # <<>> /\ mail' = Tail(mail) /\ UNCHANGED <<bus, missed>>
        /\ Head(mail) \in Offers /\ ToSet(mail) = ToSet(mail') \cup {Head(mail)}
    BY <1>0, <1>5, TailSet DEF Event, engine
  <2>2. CASE Enqueue(Head(mail))
    <3>1. UNCHANGED <<call, dropped>> /\ dialog \in {dialog', None}
      BY <2>2 DEF Enqueue, Covered, trust
    <3>2. Line
      <4>1. CASE queue' = Append(queue, Head(mail))
        <5>1. ToSet(queue') = ToSet(queue) \cup {Head(mail)}
          BY <1>0, <2>1, <4>1, AppendSet
        <5> QED  BY <2>1, <5>1 DEF InLine
      <4>2. CASE dialog' = Head(mail) /\ UNCHANGED queue
        BY <2>1, <4>2 DEF InLine
      <4> QED  BY <2>2, <4>1, <4>2 DEF Enqueue, showOfferModal
    <3> QED  BY <1>1, <2>1, <3>1, <3>2
  <2>3. ASSUME NEW c \in Calls, Skip(c, Head(mail))
        PROVE  Goal
    <3>1. UNCHANGED <<dialog, dropped, queue>> /\ Invoke(c, "skip", Head(mail))
      BY <2>3 DEF Skip, screen
    <3>2. InHand' = InHand \cup {Head(mail)}
      BY <2>1, <3>1, InvokeHand
    <3> QED  BY <2>1, <3>1, <3>2 DEF InLine
  <2> QED  BY <1>5, <2>2, <2>3 DEF Event
<1>6. ASSUME NEW o \in Offers, Arrive(o)
      PROVE  Goal
  <2>1. UNCHANGED <<mail, queue, dialog, dropped, call>>
    BY <1>6 DEF Arrive, screen
  <2>2. missed \subseteq missed' /\ ToSet(bus) \subseteq ToSet(bus') \cup missed'
    <3>1. CASE bus' = Append(bus, o) /\ UNCHANGED missed
      BY <1>0, <3>1, AppendSet
    <3>2. CASE Len(bus) = Cap /\ bus' = Append(Tail(bus), o) /\ missed' = missed \cup {Head(bus)}
      <4>1. bus # <<>>
        BY <1>0, <3>2, EmptySeq
      <4>2. Tail(bus) \in Seq(Offers) /\ ToSet(bus) = ToSet(Tail(bus)) \cup {Head(bus)}
        BY <1>0, <4>1, TailSet
      <4>3. ToSet(Append(Tail(bus), o)) = ToSet(Tail(bus)) \cup {o}
        BY <4>2, AppendSet
      <4> QED  BY <3>2, <4>2, <4>3
    <3>3. CASE UNCHANGED bus /\ missed \subseteq missed'
      BY <3>3
    <3> QED  BY <1>6, <3>1, <3>2, <3>3 DEF Arrive, Broadcast
  <2> QED  BY <1>1, <2>1, <2>2 DEF InLine
<1>7. CASE Recv
  <2>1. /\ bus # <<>> /\ mail' = Append(mail, Head(bus)) /\ bus' = Tail(bus)
        /\ UNCHANGED <<queue, dialog, dropped, missed, call>>
    BY <1>7 DEF Recv, screen
  <2>2. Head(bus) \in Offers /\ ToSet(bus) = ToSet(bus') \cup {Head(bus)}
    BY <1>0, <2>1, TailSet
  <2>3. ToSet(mail') = ToSet(mail) \cup {Head(bus)}
    BY <1>0, <2>1, <2>2, AppendSet
  <2> QED  BY <1>1, <2>1, <2>2, <2>3 DEF InLine
<1>8. ASSUME NEW c \in Calls, ClickAccept(c) \/ ClickDecline(c)
      PROVE  Goal
  <2>1. dialog \in Offers /\ UNCHANGED <<bus, mail, queue, dialog, dropped, missed>>
    BY <1>8 DEF ClickAccept, ClickDecline, engine, screen, TypeOK, ScreenOK
  <2>2. Hand
    <3>1. PICK kind : Invoke(c, kind, dialog)
      BY <1>8 DEF ClickAccept, ClickDecline
    <3> QED  BY <1>4, <2>1, <3>1
  <2> QED  BY <1>2, <2>1, <2>2
<1>9. ASSUME NEW c \in Calls, Serve(c)
      PROVE  Goal
  <2>1. UNCHANGED <<bus, mail, queue, dialog, dropped, missed>>
    BY <1>9 DEF Serve, screen
  <2> QED  BY <1>2, <1>9, <2>1, ServeHand
<1>10. ASSUME NEW c \in Calls, Return(c)
       PROVE  Goal
  <2>1. /\ UNCHANGED <<bus, mail, missed>> /\ entry[call[c].offer] # "open"
        /\ InHand = InHand' \cup {call[c].offer}
    BY <1>10, ReturnHand DEF Return, engine, Known
  <2>2. Line
    <3>1. UNCHANGED queue \/ \E panes : ShowNext(panes)
      BY <1>10 DEF Return, AcceptReturns, DeclineReturns, SkipReturns, closeOfferModal
    <3> QED  BY <1>2, <1>3, <2>1, <3>1
  <2>3. Screen
    BY <1>10 DEF Return, AcceptReturns, HideOffer, DeclineReturns, closeOfferModal, SkipReturns
  <2> QED  BY <2>1, <2>2, <2>3
<1>11. ASSUME Dismiss \/ ClosePreview \/ AcceptPreview \/ \E o \in Offers : Fade(o)
       PROVE  Goal
  <2>1. UNCHANGED <<bus, mail, call, missed>> /\ (UNCHANGED queue \/ \E panes : ShowNext(panes))
    BY <1>11 DEF Dismiss, closeOfferModal, ClosePreview, AcceptPreview, closePreview, Fade,
       engine
  <2>2. Line
    BY <1>2, <1>3, <2>1
  <2>3. Screen
    BY <1>11 DEF Dismiss, closeOfferModal, ClosePreview, AcceptPreview, closePreview, Fade
  <2> QED  BY <1>1, <2>1, <2>2, <2>3
<1>12. CASE UNCHANGED <<bus, mail, queue, call, dialog, dropped, missed>>
  BY <1>1, <1>2, <1>12
<1> HIDE DEF Goal
<1>13. CASE StartNearby \/ StopNearby \/ OpenSheet \/ CloseSheet \/ TypeCode
  BY <1>12, <1>13 DEF StartNearby, StopNearby, OpenSheet, CloseSheet, TypeCode, engine, screen
<1>14. CASE \/ SpawnPump \/ Expire \/ Tick \/ UNCHANGED vars
            \/ \E o \in Offers : Lapse(o)
            \/ \E t \in Offers \cup {Code} : ReceiveDone(t) \/ ReceiveFails(t)
            \/ \E d \in Devices : RememberReturns(d)
  BY <1>12, <1>14 DEF SpawnPump, Expire, Tick, Lapse, ReceiveDone, RememberReturns, ReceiveFails, engine,
     screen, vars
<1> QED
  BY <1>5, <1>6, <1>7, <1>8, <1>9, <1>10, <1>11, <1>13, <1>14 DEF Next, User

\* The queue waits behind something: what uncovers the screen looks at it, but for a sheet.
Waiting == queue # <<>> => Covered \/ silent

\* Offers are queued only behind something, and what goes from the screen shows the
\* next of the queue, unless it is a sheet.
LEMMA NextWaiting ==
  ASSUME TypeOK, Waiting, [Next]_vars
  PROVE  Waiting'
<1>1. CASE UNCHANGED <<queue, dialog, overlay, silent>>
  BY <1>1 DEF Waiting, Covered
<1>2. CASE queue = <<>> /\ UNCHANGED queue
  BY <1>2 DEF Waiting
<1>3. CASE overlay' # {} \/ dialog' \in Offers
  BY <1>3 DEF Waiting, Covered
<1>4. ASSUME NEW panes, panes = overlay', ShowNext(panes)
      PROVE  Waiting'
  <2>1. dialog' \in Offers \/ (UNCHANGED queue /\ (queue = <<>> \/ panes # {}))
    BY <1>4, ShowNextEffect
  <2> QED  BY <1>2, <1>3, <1>4, <2>1
<1>5. CASE Event
  <2>1. CASE Enqueue(Head(mail))
    <3>1. CASE Covered /\ UNCHANGED <<dialog, overlay>>
      BY <3>1 DEF Waiting, Covered
    <3>2. CASE showOfferModal(Head(mail))
      <4>1. Head(mail) \in Offers
        BY <1>5, TailSet DEF Event, TypeOK
      <4> QED  BY <1>3, <3>2, <4>1 DEF showOfferModal
    <3> QED  BY <2>1, <3>1, <3>2 DEF Enqueue
  <2>2. ASSUME NEW c \in Calls, Skip(c, Head(mail))
        PROVE  Waiting'
    BY <1>1, <2>2 DEF Skip, screen, preview
  <2> QED  BY <1>5, <2>1, <2>2 DEF Event
<1>6. ASSUME NEW c \in Calls, Return(c)
      PROVE  Waiting'
  <2>1. CASE AcceptReturns(c)
    BY <1>1, <1>3, <2>1 DEF AcceptReturns, openPreview, preview
  <2>2. CASE DeclineReturns(c)
    BY <1>4, <2>2 DEF DeclineReturns, closeOfferModal
  <2>3. CASE SkipReturns(c)
    <3>1. call[c].offer \in Offers
      BY <1>6, ReturnHand
    <3> QED  BY <1>3, <2>3, <3>1 DEF SkipReturns, openPreview, showOfferModal
  <2> QED  BY <1>6, <2>1, <2>2, <2>3 DEF Return
<1>7. CASE Dismiss \/ ClosePreview \/ AcceptPreview
  <2>1. CASE ShowNext(overlay')
    BY <1>4, <2>1
  <2>2. CASE dialog # None /\ dialog' = dialog
    BY <1>3, <2>2 DEF TypeOK, ScreenOK
  <2> QED
    BY <1>7, <2>1, <2>2 DEF Dismiss, closeOfferModal, ClosePreview, AcceptPreview, closePreview
<1>8. ASSUME NEW o \in Offers, Fade(o)
      PROVE  Waiting'
  BY <1>1, <1>4, <1>8 DEF Fade, preview
<1>9. CASE OpenSheet \/ TypeCode
  BY <1>3, <1>9 DEF OpenSheet, TypeCode, openPreview
<1>10. CASE CloseSheet
  <2>1. dialog' = dialog /\ (overlay' = {} => overlay = {"sheet"})
    BY <1>10 DEF CloseSheet, screen
  <2>2. overlay = {"sheet"} /\ dialog = None => silent'
    BY <1>10, Zenon DEF CloseSheet
  <2> QED  BY <2>1, <2>2 DEF Waiting, Covered
<1>11. CASE \/ StartNearby \/ StopNearby
            \/ \E c \in Calls : ClickAccept(c) \/ ClickDecline(c)
  BY <1>1, <1>11 DEF StartNearby, StopNearby, ClickAccept, ClickDecline, screen, preview
<1>12. CASE \/ SpawnPump \/ Recv \/ Expire \/ Tick \/ UNCHANGED vars
            \/ \E c \in Calls : Serve(c)
            \/ \E o \in Offers : Arrive(o) \/ Lapse(o)
            \/ \E t \in Offers \cup {Code} : ReceiveDone(t) \/ ReceiveFails(t)
            \/ \E d \in Devices : RememberReturns(d)
  BY <1>1, <1>12 DEF SpawnPump, Recv, Expire, Tick, Serve, Arrive, Lapse, ReceiveDone,
     RememberReturns, ReceiveFails, screen, preview, vars
<1> QED
  BY <1>5, <1>6, <1>7, <1>8, <1>9, <1>10, <1>11, <1>12 DEF Next, User

\* An offer opens in the engine only by arriving while sharing is on.
LEMMA ArrivesOnly ==
  ASSUME TypeOK, [Next]_vars, NEW o \in Offers, entry[o] = "new", entry'[o] = "open"
  PROVE  running /\ Broadcast(o)
<1> SUFFICES Arrive(o)
  <2>1. entry' = [entry EXCEPT ![o] = "declined"] => entry'[o] = "declined"
    BY DEF TypeOK, EngineOK
  <2> QED  BY <2>1 DEF Arrive
<1>0. entry \in [Offers -> {"new", "open", "accepted", "declined", "lapsed"}]
  BY DEF TypeOK, EngineOK
<1>1. ASSUME NEW q \in Offers, Arrive(q)
      PROVE  Arrive(o)
  <2>1. \E e : entry' = [entry EXCEPT ![q] = e]
    BY <1>1 DEF Arrive
  <2> QED  BY <1>0, <1>1, <2>1
<1>2. ASSUME NEW q \in Offers, Lapse(q)
      PROVE  FALSE
  BY <1>0, <1>2 DEF Lapse, LapseDue
<1>3. ASSUME NEW c \in Calls, Serve(c)
      PROVE  FALSE
  BY <1>0, <1>3 DEF Serve, Verdict
<1>4. CASE UNCHANGED entry
  BY <1>4
<1> QED
  BY <1>1, <1>2, <1>3, <1>4 DEF Next, User, StartNearby, SpawnPump, StopNearby, Recv, Event,
     Expire, Tick, Return, Fade, ReceiveDone, RememberReturns, ReceiveFails, ClickAccept, ClickDecline, Dismiss,
     OpenSheet, CloseSheet, TypeCode, ClosePreview, AcceptPreview, closePreview, engine, vars

\* Every offer the engine waits for an answer to is in one of its places.
Placed ==
    \A o \in Offers : entry[o] = "open" => o \in InLine \cup {dialog} \cup InHand \cup missed \cup dropped

\* An offer the engine waits for moves from place to place and falls into none but
\* the two that are named, missed and dropped.
LEMMA NextPlaced ==
  ASSUME TypeOK, Known, Placed, [Next]_vars
  PROVE  Placed'
<1> SUFFICES ASSUME NEW o \in Offers, entry'[o] = "open"
             PROVE  o \in InLine' \cup {dialog'} \cup InHand' \cup missed' \cup dropped'
  BY DEF Placed
<1>1. CASE entry[o] = "open"
  <2>1. o \in InLine \cup {dialog} \cup InHand \cup missed \cup dropped
    BY <1>1 DEF Placed
  <2> QED  BY <1>1, <2>1, NothingLost
<1>2. CASE entry[o] = "new"
  <2>1. running /\ Broadcast(o)
    BY <1>2, ArrivesOnly
  <2>2. o \in ToSet(bus') \/ o \in missed'
    <3>0. bus \in Seq(Offers)
      BY DEF TypeOK, EngineOK
    <3>1. CASE bus' = Append(bus, o)
      BY <3>0, <3>1, AppendSet
    <3>2. CASE Len(bus) = Cap /\ bus' = Append(Tail(bus), o)
      <4>1. bus # <<>>
        BY <3>0, <3>2, EmptySeq
      <4>2. Tail(bus) \in Seq(Offers)
        BY <3>0, <4>1, TailSet
      <4>3. ToSet(Append(Tail(bus), o)) = ToSet(Tail(bus)) \cup {o}
        BY <4>2, AppendSet
      <4> QED  BY <3>2, <4>3
    <3>3. CASE missed' = missed \cup {o}
      BY <3>3
    <3> QED  BY <2>1, <3>1, <3>2, <3>3 DEF Broadcast
  <2> QED  BY <2>2 DEF InLine
<1> QED  BY <1>1, <1>2, EntryMoves

\* The channel, the window's events and the queue hold what is in line.
LEMMA PlacedSays ==
  ASSUME TypeOK
  PROVE  NoneForgotten <=> Placed /\ Waiting
<1>1. bus \in Seq(Offers) /\ mail \in Seq(Offers) /\ queue \in Seq(Offers)
  BY DEF TypeOK, EngineOK, ScreenOK
<1> DEFINE s == bus \o mail
<1>2. s \in Seq(Offers) /\ ToSet(s) = ToSet(bus) \cup ToSet(mail)
  BY <1>1, ConcatSet
<1> HIDE DEF s
<1>3. ToSet(s \o queue) = ToSet(s) \cup ToSet(queue)
  BY <1>1, <1>2, ConcatSet
<1>4. ToSet(bus \o mail \o queue) = InLine
  BY <1>2, <1>3 DEF InLine, s
<1> QED  BY <1>4 DEF NoneForgotten, Placed, Waiting

\* At first there are no offers, so each is where it should be.
LEMMA InitCourse == Init => OnePlace /\ Known /\ Fresh /\ Placed /\ Waiting
<1> SUFFICES ASSUME Init
             PROVE  OnePlace /\ Known /\ Fresh /\ Placed /\ Waiting
  OBVIOUS
<1>1. bus = <<>> /\ mail = <<>> /\ queue = <<>> /\ dialog = None
  BY DEF Init
<1>2. \A c \in Calls : call[c] = Idle /\ call[c].kind = "idle" /\ call[c].result = "none"
  BY DEF Init, Idle
<1>3. \A o \in Offers : entry[o] = "new"
  BY DEF Init
<1>4. ToSet(<<>>) = {} /\ Distinct(<<>>)
  BY DEF ToSet, Distinct
<1>5. InLine = {} /\ InHand = {}
  BY <1>1, <1>2, <1>4 DEF InLine, InHand
<1>6. ~enabled
  BY Zenon DEF Init
<1>7. OnePlace
  BY <1>1, <1>2, <1>4, <1>5 DEF OnePlace
<1>8. Known /\ Fresh
  BY <1>1, <1>2, <1>3, <1>5, <1>6 DEF Known, Fresh
<1> QED  BY <1>1, <1>3, <1>7, <1>8 DEF Placed, Waiting

\* The course of the offers through channel, window and calls is an invariant.
LEMMA CourseInvariant == Spec => [](TypeOK /\ OnePlace /\ Known /\ Fresh /\ Placed /\ Waiting)
<1> DEFINE Course == OnePlace /\ Known /\ Fresh /\ Placed /\ Waiting
<1>1. Init => Course
  BY InitCourse
<1>2. TypeOK /\ Course /\ [Next]_vars => Course'
  BY NextOnePlace, NextKnown, NextFresh, NextPlaced, NextWaiting
<1> HIDE DEF Course
<1>3. Spec => [](TypeOK /\ Course)
  BY <1>1, <1>2, TypeCorrect, PTL DEF Spec
<1>4. TypeOK /\ Course <=> TypeOK /\ OnePlace /\ Known /\ Fresh /\ Placed /\ Waiting
  BY DEF Course
<1> QED  BY <1>3, <1>4, PTL

\* No offer falls between the engine, the channel, the window and its calls: while the
\* engine waits it is in one of them, unless the channel dropped it or its dialog
\* closed; and the queue waits only behind something, or after a sheet.
THEOREM NoOfferForgotten == Spec => []NoneForgotten
<1>1. TypeOK /\ Placed /\ Waiting => NoneForgotten
  BY PlacedSays
<1> QED  BY <1>1, CourseInvariant, PTL

\* As long as Accept can be pressed on a dialog that came up soon enough, and no answer
\* is under way, the engine still waits for one: the window's timer is the shorter.
THEOREM FreshOffersStand == Spec => []FreshCanBeAccepted
<1>1. TypeOK /\ Fresh => FreshCanBeAccepted
  <2> SUFFICES ASSUME TypeOK, Fresh, enabled, dialog \notin InHand,
                      age[dialog] - since <= Wait - Ttl - 1
               PROVE  entry[dialog] = "open"
    BY DEF FreshCanBeAccepted
  <2>1. dialog \in Offers /\ since \in 0..Ttl
    BY DEF TypeOK, ScreenOK
  <2>2. age[dialog] # Wait
    BY <2>1
  <2> QED  BY <2>2 DEF Fresh, Pristine
<1> QED  BY <1>1, CourseInvariant, PTL

=============================================================================
