--------------------------- MODULE Consent_proofs ---------------------------
(***************************************************************************)
(* What TLAPS proves about Consent, for any set of offers and calls and any *)
(* three waiting times that satisfy TimingAssumption.                      *)
(***************************************************************************)
EXTENDS Consent, TLAPS

USE MalformedAssumption, NoOfferAssumption, TimingAssumption

\* The first state is well typed.
LEMMA InitType == Init => TypeOK
  BY DEF Init, TypeOK, NoCall, Calls, Verdicts, Senders, Handlers

\* Conclude writes an outcome and drops the connection.
LEMMA ConcludeType ==
  ASSUME TypeOK, NEW o \in Offers, NEW outcome \in Final, Conclude(o, outcome)
  PROVE  TypeOK'
  BY DEF TypeOK, Conclude, Senders, ctx, clocks, views

\* The steps of deliver_offer, and the loss of its connection, are well typed.
LEMMA SenderType ==
  ASSUME TypeOK, NEW o \in Offers,
         Dial(o) \/ Sending(o) \/ ReadFails(o) \/ LoseLink(o)
  PROVE  TypeOK'
<1>1. CASE Dial(o)
  BY <1>1 DEF TypeOK, Dial, Senders, ctx, clocks, views
<1>2. CASE SendOffer(o)
  BY <1>2 DEF TypeOK, SendOffer, Senders, ctx, clocks, views
<1>3. CASE LoseLink(o)
  BY <1>3 DEF TypeOK, LoseLink, ctx, clocks, views
<1>4. CASE Unreachable(o) \/ ReadAnswer(o) \/ AnswerTimeout(o) \/ ReadFails(o)
  BY <1>4, ConcludeType DEF Unreachable, ReadAnswer, AnswerTimeout, ReadFails,
     AnswerMeans, Final
<1> QED
  BY <1>1, <1>2, <1>3, <1>4 DEF Sending

\* Those of the control handler.
LEMMA HandlerType ==
  ASSUME TypeOK, NEW o \in Offers, Handling(o)
  PROVE  TypeOK'
<1>1. CASE Park(o)
  BY <1>1 DEF TypeOK, Park, Handlers, views
<1>2. CASE Route(o)
  <2>1. waiter' \in [Offers -> BOOLEAN] /\ queue' \in [Offers -> Verdicts \cup {"none"}]
    BY <1>2 DEF TypeOK, Route, Taken, Verdicts
  <2>2. pending' \in [Offers -> BOOLEAN] /\ shown' \in [Offers -> BOOLEAN]
    BY <1>2 DEF TypeOK, Route
  <2> QED
    BY <1>2, <2>1, <2>2 DEF TypeOK, Route, Handlers, clocks
<1>3. CASE Wake(o)
  BY <1>3 DEF TypeOK, Wake, HasVerdict, Handlers, Verdicts, clocks, views
<1>4. CASE WaitElapsed(o)
  BY <1>4 DEF TypeOK, WaitElapsed, Handlers, ctx, clocks, views
<1>5. CASE ForgetWaiter(o) \/ ForgetOffer(o)
  <2>1. waiter' \in [Offers -> BOOLEAN] /\ pending' \in [Offers -> BOOLEAN]
    BY <1>5 DEF TypeOK, ForgetWaiter, ForgetOffer, Taken
  <2> QED
    BY <1>5, <2>1 DEF TypeOK, ForgetWaiter, ForgetOffer, Handlers, clocks, views
<1>6. CASE Answer(o)
  BY <1>6 DEF TypeOK, Answer, Handlers, ctx, clocks, views
<1>7. CASE Close(o)
  BY <1>7 DEF TypeOK, Close, Handlers, clocks, views
<1> QED
  BY <1>1, <1>2, <1>3, <1>4, <1>5, <1>6, <1>7 DEF Handling

\* A call that was made is about an offer its user has seen.
CallNamed ==
    \A u \in Callers :
        call[u].at # "idle" => call[u].offer \in Offers /\ shown[call[u].offer]

\* Those of a respond_offer call, which names an offer once it is made.
LEMMA CallType ==
  ASSUME TypeOK, CallNamed, NEW u \in Callers, Calling(u)
  PROVE  TypeOK'
<1>0. call[u] \in Calls
  BY DEF TypeOK
<1>1. ASSUME NEW o \in Offers, NEW v \in Verdicts, Respond(u, o, v)
      PROVE  TypeOK'
  BY <1>1 DEF TypeOK, Respond, Calls, ends, ctx, clocks, views
<1>2. CASE Resolve(u)
  <2>1. call[u].offer \in Offers
    BY <1>2 DEF CallNamed, Resolve
  <2>2. call' \in [Callers -> Calls]
    BY <1>0, <1>2, <2>1 DEF TypeOK, Resolve, CallAt, Calls
  <2>3. call[u].verdict \in Verdicts
    BY <1>0 DEF Calls
  <2> QED
    BY <1>2, <2>1, <2>2, <2>3 DEF TypeOK, Resolve, Taken, ends, clocks
<1>3. CASE Spend(u)
  BY <1>0, <1>3 DEF TypeOK, Spend, CallAt, Calls, ends, clocks, views
<1> QED
  BY <1>1, <1>2, <1>3 DEF Calling

\* Those of the switch and of the clocks.
LEMMA RestType ==
  ASSUME TypeOK, Toggle \/ Tick \/ UNCHANGED vars
  PROVE  TypeOK'
<1>1. CASE Toggle
  BY <1>1 DEF TypeOK, Toggle, ends, clocks, views
<1>2. CASE Tick
  BY <1>2 DEF TypeOK, Tick, Aged, ends, ctx, views
<1>3. CASE UNCHANGED vars
  BY <1>3 DEF TypeOK, vars
<1> QED
  BY <1>1, <1>2, <1>3

-----------------------------------------------------------------------------
(* The order of the handshake.                                             *)

\* What one offer's connection, handler and map entries know of one another:
\* nothing happens before the frame arrives, an answer channel that is still
\* registered has not been used, and an acceptance anywhere on its way back is
\* the user's.
Ordered ==
    \A o \in Offers :
        /\ sender[o] \in {"idle", "dialing"} =>
               wire[o] = "none" /\ link[o] = "none" /\ handler[o] = "none"
        /\ wire[o] = "offer" => handler[o] = "none"
        /\ handler[o] = "none" =>
               /\ wire[o] # "answer" /\ ~waiter[o] /\ queue[o] = "none"
               /\ ~pending[o] /\ ~shown[o] /\ will[o] = "none"
        /\ handler[o] = "routing" => waiter[o] /\ ~pending[o] /\ ~shown[o]
        /\ waiter[o] =>
               /\ handler[o] \in {"routing", "parked", "expiring"}
               /\ queue[o] = "none" /\ will[o] = "none"
        /\ queue[o] = "accept" => will[o] = "accept"
        /\ reply[o] = "accept" => will[o] = "accept"

\* The sender's steps keep the handshake in order.
LEMMA SenderOrdered ==
  ASSUME TypeOK, Ordered, NEW o \in Offers,
         Dial(o) \/ Sending(o) \/ ReadFails(o) \/ LoseLink(o)
  PROVE  Ordered'
<1>0. UNCHANGED <<handler, reply, queue, waiter, pending, shown, will>>
  BY DEF Dial, Sending, SendOffer, Unreachable, ReadAnswer, AnswerTimeout, ReadFails,
     LoseLink, Conclude, ctx, views
<1>1. CASE Dial(o)
  BY <1>0, <1>1 DEF TypeOK, Ordered, Dial
<1>2. CASE SendOffer(o)
  BY <1>0, <1>2 DEF TypeOK, Ordered, SendOffer
<1>3. CASE LoseLink(o)
  BY <1>0, <1>3 DEF TypeOK, Ordered, LoseLink
<1>4. CASE Unreachable(o) \/ ReadAnswer(o) \/ AnswerTimeout(o) \/ ReadFails(o)
  <2>1. PICK outcome \in Final : Conclude(o, outcome)
    BY <1>4 DEF Unreachable, ReadAnswer, AnswerTimeout, ReadFails, AnswerMeans, Final
  <2> QED
    BY <1>0, <2>1 DEF TypeOK, Ordered, Conclude, Final
<1> QED
  BY <1>1, <1>2, <1>3, <1>4 DEF Sending

\* So do the handler's.
LEMMA HandlerOrdered ==
  ASSUME TypeOK, Ordered, NEW o \in Offers, Handling(o)
  PROVE  Ordered'
<1>1. CASE Park(o)
  BY <1>1 DEF TypeOK, Ordered, Park, views
<1>2. CASE Route(o)
  BY <1>2 DEF TypeOK, Ordered, Route, Taken
<1>3. CASE Wake(o)
  BY <1>3 DEF TypeOK, Ordered, Wake, HasVerdict, views
<1>4. CASE WaitElapsed(o)
  BY <1>4 DEF TypeOK, Ordered, WaitElapsed, ctx, views
<1>5. CASE ForgetWaiter(o)
  BY <1>5 DEF TypeOK, Ordered, ForgetWaiter, Taken, views
<1>6. CASE ForgetOffer(o)
  BY <1>6 DEF TypeOK, Ordered, ForgetOffer, views
<1>7. CASE Answer(o)
  BY <1>7 DEF TypeOK, Ordered, Answer, ctx, views
<1>8. CASE Close(o)
  BY <1>8 DEF TypeOK, Ordered, Close, views
<1> QED
  BY <1>1, <1>2, <1>3, <1>4, <1>5, <1>6, <1>7, <1>8 DEF Handling

\* And the user's, the switch and the clocks.
LEMMA RestOrdered ==
  ASSUME TypeOK, Ordered, CallNamed,
         Toggle \/ Tick \/ UNCHANGED vars \/ \E u \in Callers : Calling(u)
  PROVE  Ordered'
<1>1. CASE Toggle \/ Tick \/ UNCHANGED vars
  BY <1>1 DEF Ordered, Toggle, Tick, vars, ends, ctx, views
<1>2. ASSUME NEW u \in Callers, NEW o \in Offers, NEW v \in Verdicts, Respond(u, o, v)
      PROVE  Ordered'
  BY <1>2 DEF Ordered, Respond, ends, ctx, views
<1>3. ASSUME NEW u \in Callers, Resolve(u)
      PROVE  Ordered'
  <2> DEFINE o == call[u].offer
  <2>1. o \in Offers /\ shown[o]
    BY <1>3 DEF CallNamed, Resolve
  <2>2. CASE waiter[o] /\ handler[o] # "closed"
    <3>1. /\ waiter' = [waiter EXCEPT ![o] = FALSE]
          /\ queue' = [queue EXCEPT ![o] = call[u].verdict]
          /\ will' = [will EXCEPT ![o] = call[u].verdict]
          /\ UNCHANGED <<sender, link, wire, handler, reply, pending, shown>>
      BY <1>3, <2>2 DEF Resolve, Taken, ends
    <3> QED
      BY <2>1, <2>2, <3>1 DEF TypeOK, Ordered
  <2>3. CASE ~(waiter[o] /\ handler[o] # "closed")
    <3>1. /\ waiter' = [waiter EXCEPT ![o] = FALSE]
          /\ queue' = [queue EXCEPT ![o] = queue[o]]
          /\ will' = [will EXCEPT ![o] = will[o]]
          /\ UNCHANGED <<sender, link, wire, handler, reply, pending, shown>>
      BY <1>3, <2>3 DEF Resolve, Taken, ends
    <3> QED
      BY <2>1, <2>3, <3>1 DEF TypeOK, Ordered
  <2> QED
    BY <2>2, <2>3
<1>4. ASSUME NEW u \in Callers, Spend(u)
      PROVE  Ordered'
  <2>1. call[u].offer \in Offers /\ shown[call[u].offer]
    BY <1>4 DEF CallNamed, Spend
  <2> QED
    BY <1>4, <2>1 DEF TypeOK, Ordered, Spend, ends, views
<1> QED
  BY <1>1, <1>2, <1>3, <1>4 DEF Calling

\* A call names an offer that was shown, and goes on naming it.
LEMMA NextCallNamed ==
  ASSUME TypeOK, CallNamed, Ordered, [Next]_vars
  PROVE  CallNamed'
<1>1. \A o \in Offers : shown[o] => shown'[o]
  <2>1. ASSUME NEW o \in Offers, Route(o)
        PROVE  shown' = shown \/ shown' = [shown EXCEPT ![o] = TRUE]
    BY <2>1 DEF Route
  <2>2. shown' = shown \/ \E o \in Offers : Route(o)
    BY DEF Next, Dial, Sending, SendOffer, Unreachable, ReadAnswer,
       AnswerTimeout, ReadFails, LoseLink, Conclude, Handling, Park, Wake,
       WaitElapsed, ForgetWaiter, ForgetOffer, Answer, Close, Calling, Respond,
       Resolve, Spend, Toggle, Tick, vars, views
  <2> QED
    BY <2>1, <2>2 DEF TypeOK
<1>2. ASSUME NEW u \in Callers, NEW o \in Offers, NEW v \in Verdicts, Respond(u, o, v)
      PROVE  CallNamed'
  BY <1>2 DEF TypeOK, CallNamed, Respond, views
<1>3. ASSUME NEW u \in Callers, Resolve(u) \/ Spend(u)
      PROVE  CallNamed'
  <2>1. \E at, ok : call' = [call EXCEPT ![u] = CallAt(u, at, ok)]
    BY <1>3 DEF Resolve, Spend
  <2>2. call[u].at # "idle"
    BY <1>3 DEF Resolve, Spend
  <2> QED
    BY <1>1, <2>1, <2>2 DEF TypeOK, CallNamed, CallAt
<1>4. CASE UNCHANGED call
  BY <1>1, <1>4 DEF CallNamed
<1> QED
  BY <1>2, <1>3, <1>4 DEF Next, Dial, Sending, SendOffer, Unreachable, ReadAnswer,
     AnswerTimeout, ReadFails, LoseLink, Conclude, Handling, Park, Route, Wake,
     WaitElapsed, ForgetWaiter, ForgetOffer, Answer, Close, Calling, Toggle, Tick, vars

\* Every reachable state is well typed, its calls named, its steps in order.
LEMMA Handshake == Spec => [](TypeOK /\ CallNamed /\ Ordered)
<1>1. Init => TypeOK /\ CallNamed /\ Ordered
  BY InitType DEF Init, NoCall, CallNamed, Ordered
<1>2. TypeOK /\ CallNamed /\ Ordered /\ [Next]_vars => (TypeOK /\ CallNamed /\ Ordered)'
  BY SenderType, HandlerType, CallType, RestType, SenderOrdered, HandlerOrdered,
     RestOrdered, NextCallNamed DEF Next
<1> QED
  BY <1>1, <1>2, PTL DEF Spec

\* Type correctness, for every interleaving of the two ends, the calls and time.
THEOREM TypeCorrect == Spec => []TypeOK
  BY Handshake, PTL

-----------------------------------------------------------------------------
(* One answer.                                                             *)

\* A call that will return Ok has used the channel of its offer up.
OkSpent ==
    \A u \in Callers : call[u].ok =>
        /\ call[u].at \in {"sent", "done"}
        /\ ~waiter[call[u].offer]

\* A waiter taken out of the map answers at most one call.
LEMMA NextOneAnswer ==
  ASSUME TypeOK, CallNamed, Ordered, OkSpent, OneAnswer, [Next]_vars
  PROVE  OkSpent' /\ OneAnswer'
<1>1. ASSUME NEW o \in Offers, Park(o)
      PROVE  OkSpent' /\ OneAnswer'
  <2>1. ~shown[o]
    BY <1>1 DEF Ordered, Park
  <2>2. UNCHANGED call /\ waiter' = [waiter EXCEPT ![o] = TRUE]
    BY <1>1 DEF Park
  <2>3. \A u \in Callers : call[u].ok => call[u].offer \in Offers /\ call[u].offer # o
    BY <2>1 DEF OkSpent, CallNamed
  <2> QED
    BY <2>2, <2>3 DEF TypeOK, OkSpent, OneAnswer
<1>2. ASSUME UNCHANGED call, \A o \in Offers : waiter'[o] => waiter[o]
      PROVE  OkSpent' /\ OneAnswer'
  BY <1>2 DEF OkSpent, OneAnswer, CallNamed
<1>3. ASSUME NEW u \in Callers, NEW o \in Offers, NEW v \in Verdicts, Respond(u, o, v)
      PROVE  OkSpent' /\ OneAnswer'
  BY <1>3 DEF TypeOK, OkSpent, OneAnswer, Respond, ctx
<1>4. ASSUME NEW u \in Callers, Resolve(u)
      PROVE  OkSpent' /\ OneAnswer'
  <2> DEFINE o == call[u].offer
             ok == waiter[o] /\ handler[o] # "closed"
  <2>1. /\ o \in Offers
        /\ call' = [call EXCEPT ![u] = CallAt(u, "sent", ok)]
        /\ waiter' = [waiter EXCEPT ![o] = FALSE]
    BY <1>4 DEF Resolve, Taken, CallNamed
  <2>2. /\ call'[u].offer = o /\ call'[u].ok = ok /\ call'[u].at = "sent"
        /\ \A w \in Callers : w # u => call'[w] = call[w]
    BY <2>1 DEF TypeOK, CallAt
  <2>3. \A w \in Callers : w # u /\ call[w].ok /\ call[w].offer = o => ~ok
    BY DEF OkSpent
  <2>4. OkSpent'
    BY <2>1, <2>2 DEF TypeOK, OkSpent
  <2>5. OneAnswer'
    BY <2>2, <2>3 DEF OneAnswer
  <2> QED
    BY <2>4, <2>5
<1>5. ASSUME NEW u \in Callers, Spend(u)
      PROVE  OkSpent' /\ OneAnswer'
  <2>1. /\ call' = [call EXCEPT ![u] = CallAt(u, "done", call[u].ok)]
        /\ UNCHANGED waiter
    BY <1>5 DEF Spend
  <2>2. /\ call'[u].offer = call[u].offer /\ call'[u].ok = call[u].ok
        /\ call'[u].at = "done"
        /\ \A w \in Callers : w # u => call'[w] = call[w]
    BY <2>1 DEF TypeOK, CallAt
  <2> QED
    BY <2>1, <2>2 DEF OkSpent, OneAnswer
<1>6. ASSUME NEW o \in Offers, Route(o) \/ ForgetWaiter(o)
      PROVE  OkSpent' /\ OneAnswer'
  <2>1. /\ waiter' = waiter \/ waiter' = [waiter EXCEPT ![o] = FALSE]
        /\ UNCHANGED call
    BY <1>6 DEF Route, ForgetWaiter, Taken
  <2>2. \A p \in Offers : waiter'[p] => waiter[p]
    BY <2>1 DEF TypeOK
  <2> QED
    BY <1>2, <2>1, <2>2
<1>7. CASE UNCHANGED <<call, waiter>>
  BY <1>2, <1>7
<1> QED
  BY <1>1, <1>3, <1>4, <1>5, <1>6, <1>7 DEF Next, Dial, Sending, SendOffer,
     Unreachable, ReadAnswer, AnswerTimeout, ReadFails, LoseLink, Conclude, Handling,
     Wake, WaitElapsed, ForgetOffer, Answer, Close, Calling, Toggle, Tick, vars, ctx

\* However many windows answer an offer, and whenever its time runs out, at most
\* one call returns Ok: the answer channel is taken out of the map under its lock
\* and is never registered again.
THEOREM OneAnswerHolds == Spec => []OneAnswer
<1>1. Init => OkSpent /\ OneAnswer
  BY DEF Init, NoCall, OkSpent, OneAnswer
<1>2. TypeOK /\ CallNamed /\ Ordered /\ OkSpent /\ OneAnswer /\ [Next]_vars
      => (OkSpent /\ OneAnswer)'
  BY NextOneAnswer
<1> QED
  BY <1>1, <1>2, Handshake, PTL DEF Spec

-----------------------------------------------------------------------------
(* Nothing leaks.                                                          *)

\* A listed offer has someone to take it off the list: the channel is still
\* registered, or the handler is about to forget it, or a call is.
ListedHeld ==
    \A o \in Offers : pending[o] =>
        \/ waiter[o]
        \/ handler[o] = "forgetting"
        \/ \E u \in Callers : call[u].at = "sent" /\ call[u].offer = o

\* A listed offer stays held by its handler or by a call on it.
LEMMA NextListed ==
  ASSUME TypeOK, CallNamed, Ordered, ListedHeld, [Next]_vars
  PROVE  ListedHeld'
<1>1. ASSUME NEW o \in Offers, Park(o)
      PROVE  ListedHeld'
  BY <1>1 DEF TypeOK, ListedHeld, Ordered, Park
<1>2. ASSUME NEW o \in Offers, Route(o)
      PROVE  ListedHeld'
  BY <1>2 DEF TypeOK, ListedHeld, Ordered, Route, Taken
<1>3. ASSUME NEW o \in Offers, Wake(o) \/ WaitElapsed(o) \/ Answer(o) \/ Close(o)
      PROVE  ListedHeld'
  <2>1. /\ UNCHANGED <<waiter, pending, call>>
        /\ \A p \in Offers : handler[p] = "forgetting" => handler'[p] = "forgetting"
    BY <1>3 DEF TypeOK, Wake, WaitElapsed, Answer, Close, ctx
  <2> QED
    BY <2>1 DEF ListedHeld
<1>4. ASSUME NEW o \in Offers, ForgetWaiter(o)
      PROVE  ListedHeld'
  BY <1>4 DEF TypeOK, ListedHeld, ForgetWaiter, Taken
<1>5. ASSUME NEW o \in Offers, ForgetOffer(o)
      PROVE  ListedHeld'
  BY <1>5 DEF TypeOK, ListedHeld, ForgetOffer
<1>6. ASSUME NEW u \in Callers, NEW o \in Offers, NEW v \in Verdicts, Respond(u, o, v)
      PROVE  ListedHeld'
  <2>1. UNCHANGED <<waiter, pending, handler>>
    BY <1>6 DEF Respond, ctx, ends
  <2>2. \A w \in Callers : call[w].at = "sent" => call'[w] = call[w]
    BY <1>6 DEF TypeOK, Respond
  <2> QED
    BY <2>1, <2>2 DEF ListedHeld
<1>7. ASSUME NEW u \in Callers, Resolve(u)
      PROVE  ListedHeld'
  <2> DEFINE o == call[u].offer
  <2>1. /\ o \in Offers /\ call[u].at = "found"
        /\ waiter' = [waiter EXCEPT ![o] = FALSE]
        /\ UNCHANGED <<pending, handler>>
    BY <1>7 DEF Resolve, Taken, CallNamed, ends
  <2>2. /\ call'[u].offer = o /\ call'[u].at = "sent"
        /\ \A w \in Callers : w # u => call'[w] = call[w]
    BY <1>7 DEF TypeOK, Resolve, CallAt
  <2>3. \A p \in Offers : p # o => waiter'[p] = waiter[p]
    BY <2>1 DEF TypeOK
  <2> QED
    BY <2>1, <2>2, <2>3 DEF ListedHeld
<1>8. ASSUME NEW u \in Callers, Spend(u)
      PROVE  ListedHeld'
  <2> DEFINE o == call[u].offer
  <2>1. /\ o \in Offers
        /\ pending' = [pending EXCEPT ![o] = FALSE]
        /\ UNCHANGED <<waiter, handler>>
    BY <1>8 DEF Spend, CallNamed, ends
  <2>2. \A w \in Callers : w # u => call'[w] = call[w]
    BY <1>8 DEF TypeOK, Spend, CallAt
  <2>3. \A p \in Offers : pending'[p] => pending[p] /\ p # o
    BY <2>1 DEF TypeOK
  <2> QED
    BY <2>1, <2>2, <2>3 DEF ListedHeld
<1>9. CASE UNCHANGED <<waiter, pending, handler, call>>
  BY <1>9 DEF ListedHeld
<1> QED
  BY <1>1, <1>2, <1>3, <1>4, <1>5, <1>6, <1>7, <1>8, <1>9 DEF Next, Dial, Sending,
     SendOffer, Unreachable, ReadAnswer, AnswerTimeout, ReadFails, LoseLink, Conclude,
     Handling, Calling, Toggle, Tick, vars, ctx, ends

\* Both maps of ConsentCtx let an offer go once it is answered, whether a verdict
\* or the timer came first, or both at once.
THEOREM NothingLeaksHolds == Spec => []NothingLeaks
<1>1. Init => ListedHeld
  BY DEF Init, ListedHeld
<1>2. TypeOK /\ CallNamed /\ Ordered /\ ListedHeld /\ [Next]_vars => ListedHeld'
  BY NextListed
<1>3. Ordered /\ ListedHeld => NothingLeaks
  BY DEF Ordered, ListedHeld, NothingLeaks
<1> QED
  BY <1>1, <1>2, <1>3, Handshake, PTL DEF Spec

-----------------------------------------------------------------------------
(* The refinement of TwoSidedConsent.                                      *)

\* A step of deliver_offer is the sender learning an outcome, or a stutter.
LEMMA SenderRefines ==
  ASSUME TypeOK, Ordered, NEW o \in Offers, Dial(o) \/ Sending(o) \/ ReadFails(o)
  PROVE  [Abstract!Next]_Abstract!vars
<1>0. UNCHANGED <<shown, will>> /\ sender \in [Offers -> Senders]
  BY DEF TypeOK, Dial, Sending, SendOffer, Unreachable, ReadAnswer, AnswerTimeout,
     ReadFails, Conclude, views
<1>1. CASE Dial(o) \/ SendOffer(o)
  <2>1. /\ sender[o] \in {"idle", "dialing"}
        /\ \E to \in {"dialing", "awaiting"} : sender' = [sender EXCEPT ![o] = to]
    BY <1>1 DEF Dial, SendOffer
  <2>2. Outcome' = Outcome
    BY <1>0, <2>1 DEF Outcome
  <2> QED
    BY <1>0, <2>2 DEF Abstract!vars
<1>2. ASSUME NEW to \in Final, sender[o] \in {"dialing", "awaiting"},
             sender' = [sender EXCEPT ![o] = to],
             to = "accepted" => will[o] = "accept"
      PROVE  [Abstract!Next]_Abstract!vars
  <2>1. Outcome[o] = "waiting"
    BY <1>2 DEF Outcome
  <2> DEFINE seen == IF to \in {"accepted", "declined"} THEN to ELSE "failed"
  <2>2. Outcome' = [Outcome EXCEPT ![o] = seen]
    BY <1>0, <1>2 DEF Outcome, Final
  <2>3. CASE to = "accepted"
    BY <1>0, <1>2, <2>1, <2>2, <2>3 DEF Abstract!Next, Abstract!LearnAccept
  <2>4. CASE to # "accepted"
    <3>1. seen \in {"declined", "failed"}
      BY <2>4
    <3> QED
      BY <1>0, <2>1, <2>2, <3>1 DEF Abstract!Next, Abstract!LearnRefusal
  <2> QED
    BY <2>3, <2>4
<1>3. CASE ReadAnswer(o)
  <2>1. /\ sender[o] = "awaiting"
        /\ sender' = [sender EXCEPT ![o] = AnswerMeans(o)]
        /\ AnswerMeans(o) \in Final
        /\ AnswerMeans(o) = "accepted" => will[o] = "accept"
    BY <1>3 DEF ReadAnswer, Conclude, AnswerMeans, Final, Ordered
  <2> QED
    BY <1>2, <2>1
<1>4. CASE Unreachable(o) \/ AnswerTimeout(o) \/ ReadFails(o)
  <2>1. /\ sender[o] \in {"dialing", "awaiting"}
        /\ \E to \in {"unreachable", "timeout", "lost"} :
               sender' = [sender EXCEPT ![o] = to]
    BY <1>4 DEF Unreachable, AnswerTimeout, ReadFails, Conclude
  <2> QED
    BY <1>2, <2>1 DEF Final
<1> QED
  BY <1>1, <1>3, <1>4 DEF Sending

\* Every step is one of the promise, or a stutter.
LEMMA NextAbstract ==
  ASSUME TypeOK, CallNamed, Ordered, [Next]_vars
  PROVE  [Abstract!Next]_Abstract!vars
<1>1. CASE UNCHANGED <<sender, shown, will>>
  <2>1. Outcome' = Outcome
    BY <1>1 DEF Outcome
  <2> QED
    BY <1>1, <2>1 DEF Abstract!vars
<1>2. ASSUME NEW o \in Offers, Route(o)
      PROVE  [Abstract!Next]_Abstract!vars
  <2>1. UNCHANGED <<sender, will>> /\ Outcome' = Outcome /\ ~shown[o]
    BY <1>2 DEF Route, Outcome, Ordered
  <2>2. shown' = shown \/ shown' = [shown EXCEPT ![o] = TRUE]
    BY <1>2 DEF Route
  <2> QED
    BY <1>1, <2>1, <2>2 DEF Abstract!Next, Abstract!Show
<1>3. ASSUME NEW u \in Callers, Resolve(u)
      PROVE  [Abstract!Next]_Abstract!vars
  <2> DEFINE o == call[u].offer
  <2>1. /\ UNCHANGED <<sender, shown>> /\ Outcome' = Outcome
        /\ o \in Offers /\ shown[o]
        /\ call[u].verdict \in {"accept", "decline"}
    BY <1>3 DEF Resolve, Outcome, CallNamed, TypeOK, Calls, Verdicts, ends
  <2>2. CASE waiter[o] /\ handler[o] # "closed"
    <3>1. will[o] = "none" /\ will' = [will EXCEPT ![o] = call[u].verdict]
      BY <1>3, <2>1, <2>2 DEF Resolve, Ordered
    <3> QED
      BY <2>1, <3>1 DEF Abstract!Next, Abstract!Decide
  <2>3. CASE ~(waiter[o] /\ handler[o] # "closed")
    <3>1. will' = will
      BY <1>3, <2>3 DEF Resolve, TypeOK
    <3> QED
      BY <1>1, <2>1, <3>1
  <2> QED
    BY <2>2, <2>3
<1>4. ASSUME NEW o \in Offers, Dial(o) \/ Sending(o) \/ ReadFails(o)
      PROVE  [Abstract!Next]_Abstract!vars
  BY <1>4, SenderRefines
<1> QED
  BY <1>1, <1>2, <1>3, <1>4 DEF Next, LoseLink, Handling, Park, Wake, WaitElapsed,
     ForgetWaiter, ForgetOffer, Answer, Close, Calling, Respond, Spend, Toggle, Tick,
     vars, ends, views

\* The handshake implements two-sided consent for every number of offers and
\* calls: the sender sees an acceptance only if the user who was shown the offer
\* gave it, and a verdict is given once, whatever is lost, late or answered twice.
THEOREM ConsentRefinement == Spec => ImplementsConsent
<1>1. Init => Abstract!Init
  BY DEF Init, Abstract!Init, Outcome
<1>2. TypeOK /\ CallNamed /\ Ordered /\ [Next]_vars => [Abstract!Next]_Abstract!vars
  BY NextAbstract
<1> QED
  BY <1>1, <1>2, Handshake, PTL DEF Spec, ImplementsConsent, Abstract!Spec

-----------------------------------------------------------------------------
(* Time.                                                                   *)

\* How long the sender can have been waiting, at each point of the handshake, on
\* a connection that holds.
OnTime ==
    \A o \in Offers :
        /\ sender[o] \in {"idle", "dialing"} =>
               since[o] = 0 /\ travel[o] = 0
        /\ handler[o] \in {"none", "routing"} => parked[o] = 0
        /\ parked[o] <= ANSWER_WAIT
        /\ sender[o] = "awaiting" /\ link[o] = "up" =>
               \/ /\ wire[o] = "offer" /\ handler[o] = "none"
                  /\ since[o] <= travel[o] /\ travel[o] <= MaxDelay
               \/ /\ wire[o] = "none" /\ travel[o] = 0
                  /\ handler[o] \in {"routing", "parked", "expiring", "forgetting",
                                     "answering"}
                  /\ since[o] <= MaxDelay + parked[o]
               \/ /\ wire[o] = "answer" /\ handler[o] = "closing"
                  /\ since[o] <= MaxDelay + ANSWER_WAIT + travel[o]
                  /\ travel[o] <= MaxDelay

\* The sender's steps keep within the waits.
LEMMA SenderOnTime ==
  ASSUME TypeOK, Ordered, OnTime, NEW o \in Offers,
         Dial(o) \/ Sending(o) \/ ReadFails(o) \/ LoseLink(o)
  PROVE  OnTime'
<1>0. UNCHANGED <<handler, since, parked, travel>>
  BY DEF Dial, Sending, SendOffer, Unreachable, ReadAnswer, AnswerTimeout, ReadFails,
     LoseLink, Conclude, clocks
<1>1. CASE Dial(o)
  BY <1>0, <1>1 DEF TypeOK, OnTime, Dial
<1>2. CASE SendOffer(o)
  BY <1>0, <1>2 DEF TypeOK, Ordered, OnTime, SendOffer
<1>3. CASE LoseLink(o)
  BY <1>0, <1>3 DEF TypeOK, OnTime, LoseLink
<1>4. CASE Unreachable(o) \/ ReadAnswer(o) \/ AnswerTimeout(o) \/ ReadFails(o)
  <2>1. PICK outcome \in Final : Conclude(o, outcome)
    BY <1>4 DEF Unreachable, ReadAnswer, AnswerTimeout, ReadFails, AnswerMeans, Final
  <2> QED
    BY <1>0, <2>1 DEF TypeOK, OnTime, Conclude, Final
<1> QED
  BY <1>1, <1>2, <1>3, <1>4 DEF Sending

\* So do the handler's.
LEMMA HandlerOnTime ==
  ASSUME TypeOK, Ordered, OnTime, NEW o \in Offers, Handling(o)
  PROVE  OnTime'
<1>0. UNCHANGED <<sender, link, since, parked>>
  BY DEF Handling, Park, Route, Wake, WaitElapsed, ForgetWaiter, ForgetOffer, Answer,
     Close, clocks
<1>1. CASE Park(o)
  BY <1>0, <1>1 DEF TypeOK, Ordered, OnTime, Park
<1>2. ASSUME UNCHANGED <<wire, travel>>, NEW to \in Handlers,
             handler' = [handler EXCEPT ![o] = to],
             \/ handler[o] = "routing" /\ to = "parked"
             \/ handler[o] \in {"parked", "expiring", "forgetting"}
                /\ to \in {"expiring", "forgetting", "answering"}
             \/ link[o] # "up" /\ to = "closed"
      PROVE  OnTime'
  BY <1>0, <1>2 DEF TypeOK, OnTime
<1>3. CASE Route(o) \/ Wake(o) \/ WaitElapsed(o) \/ ForgetWaiter(o) \/ ForgetOffer(o)
           \/ Close(o)
  <2>1. UNCHANGED <<wire, travel>>
    BY <1>3 DEF Route, Wake, WaitElapsed, ForgetWaiter, ForgetOffer, Close, clocks
  <2>2. \E to \in Handlers :
            /\ handler' = [handler EXCEPT ![o] = to]
            /\ \/ handler[o] = "routing" /\ to = "parked"
               \/ handler[o] \in {"parked", "expiring", "forgetting"}
                  /\ to \in {"expiring", "forgetting", "answering"}
               \/ link[o] # "up" /\ to = "closed"
    BY <1>3 DEF Route, Wake, WaitElapsed, ForgetWaiter, ForgetOffer, Close, LinkGone,
       Handlers
  <2> QED
    BY <1>2, <2>1, <2>2
<1>4. CASE Answer(o)
  <2>1. /\ UNCHANGED travel
        /\ handler[o] = "answering"
        /\ handler' = [handler EXCEPT ![o] = "closing"]
        /\ wire' = [wire EXCEPT ![o] = IF link[o] = "up" THEN "answer" ELSE wire[o]]
    BY <1>4 DEF Answer, clocks
  <2> QED
    BY <1>0, <2>1 DEF TypeOK, OnTime
<1> QED
  BY <1>1, <1>3, <1>4 DEF Handling

\* Time only passes when nobody is due, so no clock runs past its wait.
LEMMA TickOnTime ==
  ASSUME TypeOK, Ordered, OnTime, Tick
  PROVE  OnTime'
<1>1. /\ \A o \in Offers : ~Busy(o)
      /\ since'  = [o \in Offers |-> IF sender[o] = "awaiting" THEN since[o] + 1 ELSE since[o]]
      /\ parked' = [o \in Offers |-> IF handler[o] = "parked" THEN parked[o] + 1 ELSE parked[o]]
      /\ travel' = [o \in Offers |-> IF wire[o] # "none" THEN travel[o] + 1 ELSE travel[o]]
      /\ UNCHANGED <<sender, link, wire, handler>>
  BY DEF Tick, Aged, Awaiting, Parked, Travelling, ends
<1>2. \A o \in Offers :
         /\ handler[o] \notin {"routing", "expiring", "forgetting", "answering"}
         /\ handler[o] = "parked" => parked[o] # ANSWER_WAIT
         /\ wire[o] # "none" => travel[o] # MaxDelay
  BY <1>1 DEF Busy, WaitDue
<1>3. \A o \in Offers : since[o] \in Nat /\ parked[o] \in Nat /\ travel[o] \in Nat
  BY DEF TypeOK
<1> SUFFICES ASSUME NEW o \in Offers
             PROVE  /\ sender[o] \in {"idle", "dialing"} => since'[o] = 0 /\ travel'[o] = 0
                    /\ handler[o] \in {"none", "routing"} => parked'[o] = 0
                    /\ parked'[o] <= ANSWER_WAIT
                    /\ sender[o] = "awaiting" /\ link[o] = "up" =>
                         \/ /\ wire[o] = "offer" /\ handler[o] = "none"
                            /\ since'[o] <= travel'[o] /\ travel'[o] <= MaxDelay
                         \/ /\ wire[o] = "none" /\ travel'[o] = 0
                            /\ handler[o] \in {"routing", "parked", "expiring",
                                               "forgetting", "answering"}
                            /\ since'[o] <= MaxDelay + parked'[o]
                         \/ /\ wire[o] = "answer" /\ handler[o] = "closing"
                            /\ since'[o] <= MaxDelay + ANSWER_WAIT + travel'[o]
                            /\ travel'[o] <= MaxDelay
  BY <1>1 DEF OnTime
<1>4. sender[o] \in {"idle", "dialing"} => since'[o] = 0 /\ travel'[o] = 0
  BY <1>1 DEF OnTime, Ordered
<1>5. /\ handler[o] \in {"none", "routing"} => parked'[o] = 0
      /\ parked'[o] <= ANSWER_WAIT
  BY <1>1, <1>2, <1>3 DEF OnTime
<1>6. ASSUME sender[o] = "awaiting", link[o] = "up"
      PROVE  \/ /\ wire[o] = "offer" /\ handler[o] = "none"
                /\ since'[o] <= travel'[o] /\ travel'[o] <= MaxDelay
             \/ /\ wire[o] = "none" /\ travel'[o] = 0
                /\ handler[o] = "parked"
                /\ since'[o] <= MaxDelay + parked'[o]
             \/ /\ wire[o] = "answer" /\ handler[o] = "closing"
                /\ since'[o] <= MaxDelay + ANSWER_WAIT + travel'[o]
                /\ travel'[o] <= MaxDelay
  BY <1>1, <1>2, <1>3, <1>6 DEF OnTime
<1> QED
  BY <1>4, <1>5, <1>6

\* Every step keeps within the waits.
LEMMA NextOnTime ==
  ASSUME TypeOK, Ordered, OnTime, [Next]_vars
  PROVE  OnTime'
<1>1. CASE UNCHANGED <<sender, link, wire, handler, since, parked, travel>>
  BY <1>1 DEF OnTime
<1> QED
  BY <1>1, SenderOnTime, HandlerOnTime, TickOnTime DEF Next, Calling, Respond, Resolve,
     Spend, Toggle, vars, ends, clocks

\* On a connection that holds, the sender hears the receiver's own verdict, its
\* self-decline included, before its own wait is over: for every ANSWER_WAIT and
\* ANSWER_TIMEOUT whose difference covers a frame each way.
THEOREM ReceiverFirst == Spec => ReceiverDecidesFirst
<1> DEFINE First ==
      \A o \in Offers :
          sender'[o] = "timeout" /\ sender[o] = "awaiting" => link[o] # "up"
<1>1. Init => OnTime
  BY DEF Init, OnTime
<1>2. TypeOK /\ Ordered /\ OnTime /\ [Next]_vars => OnTime'
  BY NextOnTime
<1>3. TypeOK /\ Ordered /\ OnTime /\ [Next]_vars => [First]_vars
  <2> SUFFICES ASSUME TypeOK, Ordered, OnTime, Next, NEW o \in Offers,
                      sender'[o] = "timeout", sender[o] = "awaiting", link[o] = "up"
               PROVE  FALSE
    OBVIOUS
  <2>1. \E p \in Offers : Dial(p) \/ Sending(p) \/ ReadFails(p)
    BY DEF Next, LoseLink, Handling, Park, Route, Wake, WaitElapsed, ForgetWaiter,
       ForgetOffer, Answer, Close, Calling, Respond, Resolve, Spend, Toggle, Tick, ends
  <2>2. AnswerTimeout(o)
    BY <2>1 DEF TypeOK, Dial, Sending, SendOffer, Unreachable, ReadAnswer, AnswerTimeout,
       ReadFails, Conclude, AnswerMeans
  <2>3. since[o] = ANSWER_TIMEOUT
    BY <2>2 DEF AnswerTimeout, AnswerDue
  <2>4. since[o] \in Nat /\ travel[o] \in Nat /\ parked[o] \in Nat
    BY DEF TypeOK
  <2> QED
    BY <2>3, <2>4 DEF OnTime
<1> QED
  BY <1>1, <1>2, <1>3, Handshake, PTL DEF Spec, ReceiverDecidesFirst

=============================================================================
