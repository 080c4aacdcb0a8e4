-------------------------- MODULE OfferSend_proofs --------------------------
(***************************************************************************)
(* What TLAPS proves about OfferSend, for any sends, offers, neighbors,    *)
(* devices and connections, on top of the proofs about the engine.         *)
(***************************************************************************)
EXTENDS OfferSend, SendServe_proofs

USE TargetAssumption, OfferIdAssumption, ContentAssumption, EarlierAssumption, NoneAssumption

\* Some record is the newest.
Dated == Transfers # {} => \E m \in {stamp[t] : t \in Transfers} : \A t \in Transfers : stamp[t] <= m

\* Before the record of a send is written.
Early == {"none", "importing", "register", "publish"}

\* An offer is about a send whose record was written.
AskedFor == \A o \in Offers : about[o] # None => pc[about[o]] \notin Early

\* What the engine keeps on its own, whatever the offers do to its gate.
EngineInv == TypeOK /\ RequestsTracked /\ RegistrationIsLive /\ Ledger

-----------------------------------------------------------------------------
(* The steps of the engine, as an offer sees them.                         *)

\* Every step of the engine keeps what it keeps on its own.
LEMMA NextEngine ==
  ASSUME EngineInv, [Next]_vars
  PROVE  EngineInv'
<1>1. ASSUME NEW c \in Conns, gate = [at |-> "route", conn |-> c]
      PROVE  req[c].hash \in Hashes
  BY <1>1 DEF EngineInv, RequestsTracked, TypeOK
<1>2. TypeOK'
  <2>1. CASE UNCHANGED vars
    BY <2>1 DEF EngineInv, vars, TypeOK
  <2> QED
    BY <1>1, <2>1, TaskType, UserType, ServerType, ConsumeType DEF EngineInv, Next
<1> QED
  BY <1>2, NextTracked, NextLive, NextLedger DEF EngineInv

\* So does a step of an offer: it touches the gate and the token of a send, and
\* none of these speaks of either.
LEMMA OfferEngine ==
  ASSUME EngineInv, UNCHANGED <<pc, completed, inbox, active, serving, conns, catalog,
                                provider, history>>,
         bound' \in [Hashes -> Devices \cup {None}], token' \in [Transfers -> BOOLEAN]
  PROVE  EngineInv'
<1>1. TypeOK'
  BY DEF EngineInv, TypeOK, provider, history
<1>2. RequestsTracked'
  BY TrackedElsewhere DEF EngineInv, provider, history
<1>3. RegistrationIsLive'
  BY DEF EngineInv, RegistrationIsLive
<1>4. Ledger'
  BY LedgerElsewhere DEF EngineInv, history
<1> QED  BY <1>1, <1>2, <1>3, <1>4 DEF EngineInv

\* A task goes forward: what has its record is not early again, and what has left
\* the gate stays out of it.
LEMMA PhasesMove ==
  ASSUME TypeOK, [Next]_vars, NEW t \in Transfers
  PROVE  /\ pc[t] \notin Early => pc'[t] \notin Early
         /\ pc[t] \in {"settle", "retire", "ended"} => pc'[t] \in {"settle", "retire", "ended"}
<1>0. pc \in [Transfers -> Phases]
  BY DEF TypeOK
<1>1. CASE UNCHANGED pc
  BY <1>1
<1>2. ASSUME NEW u \in Transfers, Task(u)
      PROVE  \/ UNCHANGED pc
             \/ \E from, to \in Phases :
                    /\ Goto(u, from, to)
                    /\ from \notin Early => to \notin Early
                    /\ from \in {"settle", "retire", "ended"} => to \in {"settle", "retire", "ended"}
  BY <1>2 DEF Task, Advance, Begin, ImportCancelled, ImportFailed, Imported, Register,
     Publish, Unserve, Unbind, Settle, RecordFailure, Retire, ServeEvent, ServeCancelled,
     ServeClosed, Phases, Early
<1>3. ASSUME NEW u \in Transfers, Task(u)
      PROVE  /\ pc[t] \notin Early => pc'[t] \notin Early
             /\ pc[t] \in {"settle", "retire", "ended"} => pc'[t] \in {"settle", "retire", "ended"}
  BY <1>0, <1>2, <1>3 DEF Goto
<1>4. CASE User \/ (\E c \in Conns : Server(c) \/ Consume(c)) \/ UNCHANGED vars
  <2>1. UNCHANGED pc
    BY <1>4 DEF User, ClearFinished, Cancel, Server, Connect, Ask, Disconnect, Complete,
       Abort, Lose, Consume, HearConnected, HearClosed, HearGet, GateBind, GateRoute, vars,
       task
  <2> QED  BY <1>1, <2>1
<1> QED  BY <1>3, <1>4 DEF Next

\* A send becomes the registered one of its content by Register alone.
LEMMA ServingMoves ==
  ASSUME TypeOK, [Next]_vars, NEW h \in Hashes, NEW t \in Transfers, serving'[h] = t
  PROVE  serving[h] = t \/ pc[t] = "register"
<1>0. serving \in [Hashes -> Transfers \cup {None}]
  BY DEF TypeOK
<1>1. CASE UNCHANGED serving
  BY <1>1
<1>2. ASSUME NEW u \in Transfers, Register(u)
      PROVE  serving[h] = t \/ pc[t] = "register"
  BY <1>0, <1>2 DEF Register, Goto
<1>3. ASSUME NEW u \in Transfers, Unserve(u)
      PROVE  serving[h] = t
  BY <1>0, <1>3 DEF Unserve
<1>4. ASSUME NEW u \in Transfers, Task(u), ~Register(u), ~Unserve(u)
      PROVE  UNCHANGED serving
  BY <1>4 DEF Task, Advance, Begin, ImportCancelled, ImportFailed, Imported, Publish, Unbind,
     Settle, RecordFailure, Retire, ServeEvent, ServeCancelled, ServeClosed, maps
<1>5. CASE User \/ (\E c \in Conns : Server(c) \/ Consume(c)) \/ UNCHANGED vars
  <2>1. UNCHANGED serving
    BY <1>5 DEF User, ClearFinished, Cancel, Server, Connect, Ask, Disconnect, Complete,
       Abort, Lose, Consume, HearConnected, HearClosed, HearGet, GateBind, GateRoute, vars,
       maps
  <2> QED  BY <1>1, <2>1
<1> QED  BY <1>1, <1>2, <1>3, <1>4, <1>5 DEF Next

\* The gate of a hash that is bound opens to nobody else, until a send of the content
\* takes its binding away.
LEMMA BoundMoves ==
  ASSUME TypeOK, RequestsTracked, [Next]_vars, NEW h \in Hashes, bound[h] # None
  PROVE  \/ bound'[h] = bound[h]
         \/ \E u \in Transfers : /\ Content[u] = h
                                 /\ pc[u] = "unbind" /\ pc'[u] = "settle"
<1>0. bound \in [Hashes -> Devices \cup {None}] /\ pc \in [Transfers -> Phases]
  BY DEF TypeOK
<1>1. CASE UNCHANGED bound
  BY <1>1
<1>2. ASSUME NEW u \in Transfers, Unbind(u)
      PROVE  bound'[h] = bound[h] \/ (Content[u] = h /\ pc[u] = "unbind" /\ pc'[u] = "settle")
  BY <1>0, <1>2 DEF Unbind, Goto
<1>3. ASSUME NEW c \in Conns, GateBind(c)
      PROVE  bound'[h] = bound[h]
  BY <1>0, <1>3 DEF GateBind, Admits
<1>4. ASSUME NEW u \in Transfers, Task(u), ~Unbind(u)
      PROVE  UNCHANGED bound
  BY <1>4 DEF Task, Advance, Begin, ImportCancelled, ImportFailed, Imported, Register,
     Publish, Unserve, Settle, RecordFailure, Retire, ServeEvent, ServeCancelled,
     ServeClosed, maps
<1>5. CASE \/ User \/ UNCHANGED vars
           \/ \E c \in Conns : \/ Server(c) \/ HearConnected(c) \/ HearClosed(c)
                               \/ HearGet(c) \/ GateRoute(c)
  <2>1. UNCHANGED bound
    BY <1>5 DEF User, ClearFinished, Cancel, Server, Connect, Ask, Disconnect, Complete,
       Abort, Lose, HearConnected, HearClosed, HearGet, GateRoute, vars, maps
  <2> QED  BY <1>1, <2>1
<1> QED  BY <1>1, <1>2, <1>3, <1>4, <1>5 DEF Next, Consume

-----------------------------------------------------------------------------
(* Type correctness.                                                       *)

OfferInv == EngineInv /\ OfferTypeOK /\ Dated /\ AskedFor

\* The newest date is one of the dates, and none is later.
LEMMA NewestDate ==
  ASSUME OfferTypeOK, Dated, NEW t \in Transfers
  PROVE  Newest \in Nat /\ \A u \in Transfers : stamp[u] <= Newest
<1>1. \E m \in {stamp[u] : u \in Transfers} : \A u \in Transfers : stamp[u] <= m
  BY DEF Dated
<1>2. Newest \in {stamp[u] : u \in Transfers} /\ \A u \in Transfers : stamp[u] <= Newest
  BY <1>1 DEF Newest
<1> QED  BY <1>2 DEF OfferTypeOK

\* A record that is written gets the newest date of all, or shares it.
LEMMA EngineDates ==
  ASSUME OfferTypeOK, Dated, EngineStep
  PROVE  stamp' \in [Transfers -> Nat] /\ Dated'
<1>1. CASE UNCHANGED stamp
  BY <1>1 DEF OfferTypeOK, Dated
<1>2. ASSUME NEW t \in Transfers, NEW date \in Dates, stamp' = [stamp EXCEPT ![t] = date]
      PROVE  stamp' \in [Transfers -> Nat] /\ Dated'
  <2>1. date \in Nat /\ \A u \in Transfers : stamp[u] <= date
    BY NewestDate DEF Dates, OfferTypeOK
  <2>2. stamp \in [Transfers -> Nat]
    BY DEF OfferTypeOK
  <2>3. stamp'[t] = date /\ \A u \in Transfers : stamp'[u] <= date
    BY <1>2, <2>1, <2>2
  <2> QED  BY <1>2, <2>1, <2>2, <2>3 DEF Dated
<1> QED  BY <1>1, <1>2 DEF EngineStep

\* At first no record is dated and no offer has begun.
LEMMA OfferInitInv == OfferInit => OfferInv
<1> SUFFICES ASSUME OfferInit
             PROVE  OfferInv
  OBVIOUS
<1>1. EngineInv
  BY InitTypeOK, InitTracked, InitLedger DEF OfferInit, EngineInv, Init, RegistrationIsLive
<1>2. OfferTypeOK
  BY <1>1 DEF OfferInit, OfferTypeOK, EngineInv, Stages
<1>3. Dated
  BY DEF OfferInit, Dated
<1>4. AskedFor
  BY DEF OfferInit, AskedFor
<1> QED  BY <1>1, <1>2, <1>3, <1>4 DEF OfferInv

\* Every step keeps offers and engine in their domains, and an offer asks for a send
\* whose record it has found.
LEMMA NextOfferInv ==
  ASSUME OfferInv, [OfferNext]_allVars
  PROVE  OfferInv'
<1>0. /\ EngineInv /\ OfferTypeOK /\ Dated /\ AskedFor /\ TypeOK
      /\ bound \in [Hashes -> Devices \cup {None}] /\ token \in [Transfers -> BOOLEAN]
  BY DEF OfferInv, OfferTypeOK, TypeOK
<1>1. CASE EngineStep
  <2>1. EngineInv'
    BY <1>0, <1>1, NextEngine DEF EngineStep
  <2>2. UNCHANGED <<offer, about, binder>>
    BY <1>1 DEF EngineStep
  <2>3. OfferTypeOK' /\ Dated'
    BY <1>0, <1>1, <2>1, <2>2, EngineDates DEF OfferTypeOK, EngineInv
  <2>4. AskedFor'
    BY <1>0, <1>1, <2>2, PhasesMove DEF EngineStep, AskedFor, OfferTypeOK
  <2> QED  BY <2>1, <2>3, <2>4 DEF OfferInv
<1>2. ASSUME NEW o \in Offers, NEW t \in Transfers, Pick(o, t)
      PROVE  OfferInv'
  <2>1. EngineInv'
    BY <1>0, <1>2, NextEngine DEF Pick
  <2>2. pc[t] \notin Early
    BY <1>0, <1>2 DEF Pick, FirstInList, EngineInv, Ledger, Unlisted, Early
  <2>3. OfferTypeOK'
    BY <1>0, <1>2, <2>1 DEF Pick, Move, OfferTypeOK, EngineInv, Stages
  <2>4. AskedFor'
    BY <1>0, <1>2, <2>2 DEF Pick, AskedFor, OfferTypeOK, vars
  <2> QED  BY <1>0, <1>2, <2>1, <2>3, <2>4 DEF OfferInv, Pick, Dated
<1>3. ASSUME NEW o \in Offers, Accepted(o) \/ Refused(o) \/ Leave(o)
      PROVE  OfferInv'
  <2>1. EngineInv'
    BY <1>0, <1>3, NextEngine DEF Accepted, Refused, Leave
  <2>2. OfferTypeOK'
    BY <1>0, <1>3, <2>1 DEF Accepted, Refused, Leave, Move, OfferTypeOK, EngineInv, Stages
  <2> QED
    BY <1>0, <1>3, <2>1, <2>2 DEF OfferInv, Accepted, Refused, Leave, Dated, AskedFor, vars
<1>4. ASSUME NEW o \in Offers, Bind(o) \/ Release(o) \/ StopSend(o)
      PROVE  OfferInv'
  <2>0. about[o] \in Transfers
    BY <1>0, <1>4 DEF Bind, Release, StopSend, Move, OfferTypeOK
  <2>1. /\ bound' \in [Hashes -> Devices \cup {None}]
        /\ token' \in [Transfers -> BOOLEAN]
        /\ UNCHANGED <<pc, completed, inbox, active, serving, conns, catalog, provider,
                       history, about, stamp>>
    BY <1>0, <1>4, <2>0 DEF Bind, Release, StopSend, Holder, Reachable, task, maps
  <2>2. EngineInv'
    BY <1>0, <2>1, OfferEngine
  <2>3. OfferTypeOK'
    BY <1>0, <1>4, <2>0, <2>1, <2>2 DEF Bind, Release, StopSend, Move, OfferTypeOK, EngineInv,
       Stages
  <2> QED  BY <1>0, <2>1, <2>2, <2>3 DEF OfferInv, Dated, AskedFor
<1>5. CASE UNCHANGED allVars
  <2>1. EngineInv'
    BY <1>0, <1>5, NextEngine DEF allVars
  <2> QED
    BY <1>0, <1>5, <2>1 DEF allVars, offerVars, vars, OfferInv, OfferTypeOK, EngineInv, Dated,
       AskedFor
<1> QED  BY <1>1, <1>2, <1>3, <1>4, <1>5 DEF OfferNext, OfferStep

\* The engine's invariants and those of the offers hold in every state of both together.
LEMMA OfferInvariant == OfferSpec => []OfferInv
  BY OfferInitInv, NextOfferInv, PTL DEF OfferSpec

\* Type correctness: offers and engine stay in their domains, there is always a newest
\* record for a new one to be dated after, and an offer that is past its lookup has
\* found a send.
THEOREM OfferTypeCorrect == OfferSpec => []OfferTypeOK
<1>1. OfferInv => OfferTypeOK
  BY DEF OfferInv
<1> QED  BY <1>1, OfferInvariant, PTL

\* The promises of the engine outlive the offers, which bind its gate and cancel its
\* tokens from outside: registrations are those of live sends, a send that is over is
\* off the active list with its last word said, and the stream is not ahead of the
\* catalog.
THEOREM EngineOutlivesOffers == OfferSpec => [](RegistrationIsLive /\ EndedIsSettled /\ ToldIsRecorded)
<1>1. OfferInv => RegistrationIsLive /\ EndedIsSettled /\ ToldIsRecorded
  BY LedgerSettles, LedgerTells DEF OfferInv, EngineInv
<1> QED  BY <1>1, OfferInvariant, PTL

-----------------------------------------------------------------------------
(* Who holds the gate of an offered send.                                  *)

\* Another offer to the same neighbor, for the same content, has given it back.
GivenBack(o, h) ==
    \E p \in Offers \ {o} :
        /\ Target[p] = Target[o]
        /\ offer[p] \in {"stopping", "settled"}
        /\ about[p] # None /\ Content[about[p]] = h

\* Another send of the same content has been torn down.
TornDown(t, h) ==
    \E u \in Transfers \ {t} : Content[u] = h /\ pc[u] \in {"settle", "retire", "ended"}

\* From the binding to the clean-up after a refusal.
Holding(o) == Pending(o) \/ offer[o] = "refused"

\* The neighbor of the latest offer holds the gate of the registered send, or one of
\* two things that share its key with it has opened the gate again.
GateAccounted ==
    \A o \in Offers :
        LET t == about[o]
            h == Content[t]
        IN  Holding(o) /\ binder[h] = o /\ serving[h] = t
            => bound[h] = Target[o] \/ GivenBack(o, h) \/ TornDown(t, h)

\* And when its clean-up is over, the send has been told to stop.
StopAccounted ==
    \A o \in Offers :
        LET t == about[o]
            h == Content[t]
        IN  offer[o] = "settled" /\ binder[h] = o /\ serving[h] = t
            => token[t] \/ GivenBack(o, h) \/ TornDown(t, h)

\* A step of the engine takes the gate from the neighbor only in the teardown of
\* another send of the content.
LEMMA EngineAccounted ==
  ASSUME OfferInv, GateAccounted, EngineStep
  PROVE  GateAccounted'
<1>0. /\ TypeOK /\ RequestsTracked /\ RegistrationIsLive /\ OfferTypeOK /\ AskedFor
      /\ [Next]_vars /\ UNCHANGED <<offer, about, binder>>
  BY DEF OfferInv, EngineInv, EngineStep
<1> SUFFICES ASSUME NEW o \in Offers, NEW t, NEW h, t = about[o], h = Content[t],
                    Holding(o), binder[h] = o, serving'[h] = t
             PROVE  bound'[h] = Target[o] \/ GivenBack(o, h)' \/ TornDown(t, h)'
  BY <1>0 DEF GateAccounted, Holding, Pending
<1>1. t \in Transfers /\ h \in Hashes /\ Target[o] \in Devices
  BY <1>0 DEF OfferTypeOK, Holding, Pending
<1>2. pc[t] # "register"
  BY <1>0, <1>1 DEF AskedFor, Early
<1>3. serving[h] = t
  BY <1>0, <1>1, <1>2, ServingMoves
<1>4. bound[h] = Target[o] \/ GivenBack(o, h) \/ TornDown(t, h)
  BY <1>3 DEF GateAccounted
<1>5. CASE bound[h] = Target[o]
  <2>1. bound[h] # None
    BY <1>1, <1>5
  <2>2. ASSUME NEW u \in Transfers, Content[u] = h, pc[u] = "unbind", pc'[u] = "settle"
        PROVE  TornDown(t, h)'
    <3>1. u # t
      BY <1>0, <1>1, <1>3, <2>2 DEF RegistrationIsLive
    <3> QED  BY <2>2, <3>1 DEF TornDown
  <2> QED  BY <1>0, <1>1, <1>5, <2>1, <2>2, BoundMoves
<1>6. CASE GivenBack(o, h)
  BY <1>0, <1>6 DEF GivenBack
<1>7. CASE TornDown(t, h)
  BY <1>0, <1>7, PhasesMove DEF TornDown
<1> QED  BY <1>4, <1>5, <1>6, <1>7

\* What an offer has given back stays so while offers go on.
LEMMA GivenBackStays ==
  ASSUME OfferTypeOK, NEW p \in Offers, OfferStep(p), NEW o \in Offers, NEW h,
         GivenBack(o, h)
  PROVE  GivenBack(o, h)'
<1>0. offer \in [Offers -> Stages] /\ about \in [Offers -> Transfers \cup {None}]
  BY DEF OfferTypeOK
<1>1. PICK q \in Offers \ {o} : /\ Target[q] = Target[o]
                                /\ offer[q] \in {"stopping", "settled"}
                                /\ about[q] # None /\ Content[about[q]] = h
  BY DEF GivenBack
<1>2. offer'[q] \in {"stopping", "settled"} /\ about'[q] = about[q]
  BY <1>0, <1>1 DEF OfferStep, Pick, Bind, Accepted, Refused, Release, Leave, StopSend, Move
<1> QED  BY <1>1, <1>2 DEF GivenBack

\* A step of an offer takes the gate from its neighbor only to give it to another
\* offer's, or because that neighbor has refused.
LEMMA OfferAccounted ==
  ASSUME OfferInv, GateAccounted, NEW p \in Offers, OfferStep(p)
  PROVE  GateAccounted'
<1>0. /\ TypeOK /\ OfferTypeOK
      /\ offer \in [Offers -> Stages] /\ about \in [Offers -> Transfers \cup {None}]
      /\ bound \in [Hashes -> Devices \cup {None}] /\ binder \in [Hashes -> Offers \cup {None}]
      /\ offer[p] # "unused" => about[p] \in Transfers /\ Content[about[p]] \in Hashes
  BY DEF OfferInv, OfferTypeOK, TypeOK
<1>1. UNCHANGED <<pc, serving>>
  BY DEF OfferStep, Pick, Bind, Accepted, Refused, Release, Leave, StopSend, vars, task, maps
<1>2. /\ \A q \in Offers \ {p} : offer'[q] = offer[q] /\ about'[q] = about[q]
      /\ offer[p] \in {"stopping", "settled"} => offer'[p] \in {"stopping", "settled"}
      /\ offer[p] # "unused" => about' = about
  BY <1>0 DEF OfferStep, Pick, Bind, Accepted, Refused, Release, Leave, StopSend, Move
<1>3. \A o \in Offers : \A h : GivenBack(o, h) => GivenBack(o, h)'
  BY <1>0, GivenBackStays
<1>4. \A t, h : TornDown(t, h)' <=> TornDown(t, h)
  BY <1>1 DEF TornDown
<1> SUFFICES ASSUME NEW o \in Offers, NEW t, NEW h, t = about'[o], h = Content[t],
                    Holding(o)', binder'[h] = o, serving[h] = t
             PROVE  bound'[h] = Target[o] \/ GivenBack(o, h)' \/ TornDown(t, h)
  BY <1>1, <1>4 DEF GateAccounted
<1>5. CASE Bind(p)
  <2>1. /\ about' = about
        /\ bound' = [bound EXCEPT ![Content[about[p]]] = Target[p]]
        /\ binder' = [binder EXCEPT ![Content[about[p]]] = p]
        /\ about[p] \in Transfers /\ Content[about[p]] \in Hashes
    BY <1>0, <1>5 DEF Bind, Move, Holder
  <2>2. CASE o = p
    BY <1>0, <2>1, <2>2
  <2>3. CASE o # p
    <3>1. Holding(o) /\ h # Content[about[p]]
      BY <1>0, <1>2, <2>1, <2>3 DEF Holding, Pending
    <3>2. t \in Transfers /\ h \in Hashes
      BY <1>0, <2>1, <3>1 DEF OfferTypeOK, Holding, Pending
    <3>3. bound'[h] = bound[h] /\ binder'[h] = binder[h]
      BY <1>0, <2>1, <3>1, <3>2
    <3> QED  BY <1>3, <2>1, <3>1, <3>3 DEF GateAccounted
  <2> QED  BY <2>2, <2>3
<1>6. ASSUME ~Bind(p)
      PROVE  Holding(o) /\ about'[o] = about[o] /\ binder' = binder
  <2>1. binder' = binder
    BY <1>6 DEF OfferStep, Pick, Accepted, Refused, Release, Leave, StopSend
  <2>2. CASE o # p
    BY <1>2, <2>1, <2>2 DEF Holding, Pending
  <2>3. CASE o = p
    <3>1. offer[p] \in {"waiting", "refused"} /\ about' = about
      BY <1>0, <1>6, <2>3 DEF OfferStep, Pick, Accepted, Refused, Release, Leave, StopSend, Move,
         Holding, Pending
    <3> QED  BY <2>1, <2>3, <3>1 DEF Holding, Pending
  <2> QED  BY <2>2, <2>3
<1>7. CASE Release(p)
  <2>1. /\ offer[p] = "refused" /\ offer'[p] = "stopping" /\ about' = about
        /\ bound[Content[about[p]]] = Target[p]
        /\ bound' = [bound EXCEPT ![Content[about[p]]] = None]
        /\ about[p] \in Transfers
    BY <1>0, <1>7 DEF Release, Move, OwnsGate
  <2>2. ~Bind(p)
    BY <2>1 DEF Bind, Move
  <2>3. Holding(o) /\ about[o] = t /\ binder[h] = o /\ p # o
    BY <1>6, <2>1, <2>2 DEF Holding, Pending
  <2>4. bound[h] = Target[o] \/ GivenBack(o, h) \/ TornDown(t, h)
    BY <2>3 DEF GateAccounted
  <2>5. CASE bound[h] = Target[o] /\ h = Content[about[p]]
    <3>1. Target[p] = Target[o] /\ about'[p] # None /\ Content[about'[p]] = h
      BY <2>1, <2>5
    <3> QED  BY <2>1, <2>3, <3>1 DEF GivenBack
  <2>6. CASE bound[h] = Target[o] /\ h # Content[about[p]]
    <3>1. t \in Transfers /\ h \in Hashes
      BY <1>0, <2>3 DEF OfferTypeOK, Holding, Pending
    <3> QED  BY <1>0, <2>1, <2>6, <3>1
  <2> QED  BY <1>3, <2>4, <2>5, <2>6
<1>8. CASE ~Bind(p) /\ ~Release(p)
  <2>1. bound' = bound
    BY <1>8 DEF OfferStep, Pick, Accepted, Refused, Leave, StopSend, vars, maps
  <2> QED  BY <1>3, <1>6, <1>8, <2>1 DEF GateAccounted
<1> QED  BY <1>5, <1>7, <1>8

\* As long as the offered send is registered, the neighbor of its latest offer holds
\* the gate, whatever older offers and receivers do, for any sends and any offers:
\* only another offer to that neighbor, giving back what it takes for its own, or the
\* teardown of another send of the same bytes can have opened it.
THEOREM GateIsAccountedFor == OfferSpec => []GateAccounted
<1>1. OfferInit => GateAccounted
  BY DEF OfferInit, GateAccounted, Holding, Pending
<1>2. OfferInv /\ GateAccounted /\ [OfferNext]_allVars => GateAccounted'
  <2> SUFFICES ASSUME OfferInv, GateAccounted, [OfferNext]_allVars
               PROVE  GateAccounted'
    OBVIOUS
  <2>1. CASE UNCHANGED allVars
    BY <2>1 DEF allVars, offerVars, vars, GateAccounted, Holding, Pending, GivenBack, TornDown
  <2> QED  BY <2>1, EngineAccounted, OfferAccounted DEF OfferNext
<1> QED  BY <1>1, <1>2, OfferInvariant, PTL DEF OfferSpec

\* So where no two sends have the same bytes and no neighbor is offered twice, the
\* neighbor of the latest offer holds the gate.
THEOREM NeighborKeepsGate ==
  ASSUME DistinctContent, \A o, p \in Offers : Target[o] = Target[p] => o = p
  PROVE  OfferSpec => []NeighborHoldsGate
<1>1. OfferInv /\ GateAccounted => NeighborHoldsGate
  <2> SUFFICES ASSUME OfferInv, GateAccounted, NEW o \in Offers, NEW t, t = about[o],
                      Pending(o), binder[Content[t]] = o, serving[Content[t]] = t
               PROVE  bound[Content[t]] = Target[o]
    BY DEF NeighborHoldsGate
  <2>1. t \in Transfers
    BY DEF OfferInv, OfferTypeOK, Holding, Pending
  <2>2. ~GivenBack(o, Content[t]) /\ ~TornDown(t, Content[t])
    BY <2>1 DEF GivenBack, TornDown, DistinctContent
  <2> QED  BY <2>2 DEF GateAccounted, Holding
<1> QED  BY <1>1, OfferInvariant, GateIsAccountedFor, PTL

\* The engine does not take a cancellation back.
LEMMA TokensStay ==
  ASSUME TypeOK, [Next]_vars, NEW t \in Transfers, token[t]
  PROVE  token'[t]
<1>1. CASE UNCHANGED token
  BY <1>1
<1>2. ASSUME NEW u \in Transfers, Cancel(u)
      PROVE  token'[t]
  BY <1>2 DEF Cancel, TypeOK
<1>3. ASSUME NEW u \in Transfers, Task(u)
      PROVE  UNCHANGED token
  BY <1>3 DEF Task, Advance, Begin, ImportCancelled, ImportFailed, Imported, Register,
     Publish, Unserve, Unbind, Settle, RecordFailure, Retire, ServeEvent, ServeCancelled,
     ServeClosed
<1>4. CASE ClearFinished \/ (\E c \in Conns : Server(c) \/ Consume(c)) \/ UNCHANGED vars
  <2>1. UNCHANGED token
    BY <1>4 DEF ClearFinished, Server, Connect, Ask, Disconnect, Complete, Abort, Lose,
       Consume, HearConnected, HearClosed, HearGet, GateBind, GateRoute, vars, task
  <2> QED  BY <1>1, <2>1
<1> QED  BY <1>1, <1>2, <1>3, <1>4 DEF Next, User

\* A clean-up ends with the token of a send that is still registered cancelled, or with
\* the gate found to be another's.
LEMMA NextStopAccounted ==
  ASSUME OfferInv, GateAccounted, StopAccounted, [OfferNext]_allVars
  PROVE  StopAccounted'
<1>0. /\ TypeOK /\ OfferTypeOK /\ AskedFor /\ RegistrationIsLive /\ Ledger
      /\ offer \in [Offers -> Stages] /\ about \in [Offers -> Transfers \cup {None}]
      /\ token \in [Transfers -> BOOLEAN]
  BY DEF OfferInv, OfferTypeOK, EngineInv, TypeOK
<1>1. CASE EngineStep
  <2>0. [Next]_vars /\ UNCHANGED <<offer, about, binder>>
    BY <1>1 DEF EngineStep
  <2> SUFFICES ASSUME NEW o \in Offers, NEW t, NEW h, t = about[o], h = Content[t],
                      offer[o] = "settled", binder[h] = o, serving'[h] = t
               PROVE  token'[t] \/ GivenBack(o, h)' \/ TornDown(t, h)'
    BY <2>0 DEF StopAccounted
  <2>1. t \in Transfers /\ h \in Hashes /\ pc[t] # "register"
    BY <1>0 DEF OfferTypeOK, AskedFor, Early
  <2>2. serving[h] = t
    BY <1>0, <2>0, <2>1, ServingMoves
  <2>3. token[t] \/ GivenBack(o, h) \/ TornDown(t, h)
    BY <2>2 DEF StopAccounted
  <2>4. token[t] => token'[t]
    BY <1>0, <2>0, <2>1, TokensStay
  <2>5. GivenBack(o, h) => GivenBack(o, h)'
    BY <2>0 DEF GivenBack
  <2>6. TornDown(t, h) => TornDown(t, h)'
    BY <1>0, <2>0, PhasesMove DEF TornDown
  <2> QED  BY <2>3, <2>4, <2>5, <2>6
<1>2. ASSUME NEW p \in Offers, OfferStep(p)
      PROVE  StopAccounted'
  <2>1. UNCHANGED <<pc, serving>>
    BY <1>2 DEF OfferStep, Pick, Bind, Accepted, Refused, Release, Leave, StopSend, vars, task,
       maps
  <2>2. \A o \in Offers : \A h : GivenBack(o, h) => GivenBack(o, h)'
    BY <1>0, <1>2, GivenBackStays
  <2>3. \A t, h : TornDown(t, h)' <=> TornDown(t, h)
    BY <2>1 DEF TornDown
  <2> SUFFICES ASSUME NEW o \in Offers, NEW t, NEW h, t = about'[o], h = Content[t],
                      offer'[o] = "settled", binder'[h] = o, serving[h] = t
               PROVE  token'[t] \/ GivenBack(o, h)' \/ TornDown(t, h)
    BY <2>1, <2>3 DEF StopAccounted
  <2>4. about'[o] = about[o] /\ binder[h] = o /\ t \in Transfers /\ h \in Hashes
    <3>1. about'[o] = about[o]
      BY <1>0, <1>2 DEF OfferStep, Pick, Bind, Accepted, Refused, Release, Leave, StopSend, Move
    <3>2. offer[o] # "unused" /\ t \in Transfers /\ h \in Hashes
      BY <1>0, <1>2, <3>1 DEF OfferStep, Pick, Bind, Accepted, Refused, Release, Leave, StopSend,
         Move, OfferTypeOK
    <3>3. CASE Bind(p)
      <4>1. o # p /\ binder' = [binder EXCEPT ![Content[about[p]]] = p]
        BY <1>0, <3>3 DEF Bind, Move
      <4> QED  BY <3>1, <3>2, <4>1 DEF OfferTypeOK
    <3>4. CASE ~Bind(p)
      BY <1>2, <3>1, <3>2, <3>4 DEF OfferStep, Pick, Accepted, Refused, Release, Leave, StopSend
    <3> QED  BY <3>3, <3>4
  <2>5. CASE offer[o] = "settled"
    <3>1. token[t] \/ GivenBack(o, h) \/ TornDown(t, h)
      BY <2>4, <2>5 DEF StopAccounted
    <3>2. token[t] => token'[t]
      BY <1>0, <1>2, <2>4 DEF OfferStep, Pick, Bind, Accepted, Refused, Release, Leave, StopSend,
         vars, task
    <3> QED  BY <2>2, <3>1, <3>2
  <2>6. CASE offer[o] # "settled"
    <3>1. o = p /\ (Leave(p) \/ StopSend(p))
      BY <1>0, <1>2, <2>6 DEF OfferStep, Pick, Bind, Accepted, Refused, Release, Leave, StopSend,
         Move
    <3>2. CASE Leave(p)
      <4>1. Holding(o) /\ bound[h] # Target[o]
        BY <2>4, <3>1, <3>2 DEF Leave, Move, OwnsGate, Holding
      <4> QED  BY <2>2, <2>4, <4>1 DEF GateAccounted
    <3>3. CASE StopSend(p)
      <4>1. pc[t] \in {"publish", "serving", "unserve"}
        BY <1>0, <2>4 DEF RegistrationIsLive
      <4>2. t \in active
        BY <1>0, <2>4, <4>1 DEF Ledger, Listed
      <4> QED  BY <1>0, <2>4, <3>1, <3>3, <4>2 DEF StopSend, Reachable
    <3> QED  BY <3>1, <3>2, <3>3
  <2> QED  BY <2>5, <2>6
<1>3. CASE UNCHANGED allVars
  BY <1>3 DEF allVars, offerVars, vars, StopAccounted, GivenBack, TornDown
<1> QED  BY <1>1, <1>2, <1>3 DEF OfferNext

\* When the clean-up of a refused offer is over and no newer offer has taken the gate, a
\* send that is still registered has been cancelled, though the gate and the token are
\* changed in two steps: or another offer to that neighbor, or the teardown of another
\* send of the same bytes, had opened the gate before.
THEOREM RefusedAreStopped == OfferSpec => []StopAccounted
<1>1. OfferInit => StopAccounted
  BY DEF OfferInit, StopAccounted
<1>2. OfferInv /\ GateAccounted /\ StopAccounted /\ [OfferNext]_allVars => StopAccounted'
  BY NextStopAccounted
<1> QED  BY <1>1, <1>2, OfferInvariant, GateIsAccountedFor, PTL DEF OfferSpec

=============================================================================
