-------------------------- MODULE SendServe_proofs --------------------------
(***************************************************************************)
(* What TLAPS proves about SendServe, for any number of sends, devices and *)
(* connections, any capacity of the two queues, and any behaviour of the   *)
(* blob server.                                                            *)
(***************************************************************************)
EXTENDS SendServe, SequenceTheorems, TLAPS

USE ContentAssumption, EarlierAssumption, PeerAssumption, NoneAssumption, CapAssumption

\* The first state is well typed.
LEMMA InitTypeOK == Init => TypeOK
  BY DEF Init, TypeOK, Phases, Statuses, Events, Messages, NoAsk, Requests,
         Mail, Gates, Idle

\* An event of the provider, appended or dropped, leaves well-typed queues.
LEMMA PostType ==
  ASSUME TypeOK, NEW t \in Transfers \cup {None}, NEW e \in Events, Post(t, e)
  PROVE  inbox' \in [Transfers -> Seq(Events)]
  BY DEF TypeOK, Post, Listening

\* The steps of a send's own task are well typed.
LEMMA TaskType ==
  ASSUME TypeOK, NEW t \in Transfers, Task(t)
  PROVE  TypeOK'
<1>1. CASE Begin(t)
  BY <1>1 DEF TypeOK, Begin, Goto, Phases, maps, provider, history
<1>2. CASE ImportCancelled(t)
  BY <1>2 DEF TypeOK, ImportCancelled, Goto, Tell, Phases, Messages, maps, provider
<1>3. CASE ImportFailed(t)
  BY <1>3 DEF TypeOK, ImportFailed, Goto, Tell, Phases, Messages, maps, provider
<1>4. CASE Imported(t)
  BY <1>4 DEF TypeOK, Imported, Goto, Phases, maps, provider, history
<1>5. CASE Register(t)
  BY <1>5 DEF TypeOK, Register, Goto, Phases, provider, history
<1>6. CASE Publish(t)
  BY <1>6 DEF TypeOK, Publish, Goto, Tell, Phases, Messages, Statuses, provider
<1>7. CASE Unserve(t)
  BY <1>7 DEF TypeOK, Unserve, Goto, Phases, provider, history
<1>8. CASE Unbind(t)
  BY <1>8 DEF TypeOK, Unbind, Goto, Phases, provider, history
<1>9. CASE Settle(t)
  BY <1>9 DEF TypeOK, Settle, SetStatus, Goto, Tell, Phases, Messages, Statuses, provider
<1>10. CASE RecordFailure(t)
  BY <1>10 DEF TypeOK, RecordFailure, SetStatus, Goto, Phases, Statuses, provider, history
<1>11. CASE Retire(t)
  BY <1>11 DEF TypeOK, Retire, Goto, Phases, maps, provider, history
<1>12. CASE ServeEvent(t)
  <2>1. inbox' \in [Transfers -> Seq(Events)]
    <3>1. inbox[t] \in Seq(Events) /\ inbox[t] # <<>>
      BY <1>12 DEF TypeOK, ServeEvent
    <3>2. Tail(inbox[t]) \in Seq(Events)
      BY <3>1, HeadTailProperties
    <3> QED
      BY <1>12, <3>2 DEF TypeOK, ServeEvent
  <2>2. catalog' \in [Transfers -> Statuses]
    BY <1>12 DEF TypeOK, ServeEvent, SetStatus, Statuses
  <2>3. told' \in [Transfers -> Messages]
    BY <1>12 DEF TypeOK, ServeEvent, Tell, Messages
  <2> QED
    BY <1>12, <2>1, <2>2, <2>3 DEF TypeOK, ServeEvent, provider
<1>13. CASE ServeCancelled(t)
  BY <1>13 DEF TypeOK, ServeCancelled, Goto, Phases, maps, provider, history
<1>14. CASE ServeClosed(t)
  BY <1>14 DEF TypeOK, ServeClosed, Goto, Phases, maps, provider, history
<1> QED
  BY <1>1, <1>2, <1>3, <1>4, <1>5, <1>6, <1>7, <1>8, <1>9, <1>10, <1>11, <1>12,
     <1>13, <1>14 DEF Task, Advance

\* So are those of the user.
LEMMA UserType ==
  ASSUME TypeOK, User
  PROVE  TypeOK'
<1>1. CASE ClearFinished
  BY <1>1 DEF TypeOK, ClearFinished, Statuses, task, provider, history
<1>2. ASSUME NEW t \in Transfers, Cancel(t)
      PROVE  TypeOK'
  BY <1>2 DEF TypeOK, Cancel, maps, provider, history
<1> QED
  BY <1>1, <1>2 DEF User

\* Those of the blob server.
LEMMA ServerType ==
  ASSUME TypeOK, NEW c \in Conns, Server(c)
  PROVE  TypeOK'
<1> DEFINE t == req[c].sub
<1>0. t \in Transfers \cup {None}
  BY DEF TypeOK, Requests
<1>1. CASE Connect(c)
  BY <1>1 DEF TypeOK, Connect, Mailed, Mail, task, maps, history
<1>2. ASSUME NEW h \in Hashes, NEW a \in Asks, Ask(c, h, a)
      PROVE  TypeOK'
  BY <1>2 DEF TypeOK, Ask, Mailed, Mail, Requests, task, maps, history
<1>3. CASE Disconnect(c)
  BY <1>3 DEF TypeOK, Disconnect, Mailed, Mail, task, maps, history
<1>4. CASE Complete(c)
  <2>1. inbox' \in [Transfers -> Seq(Events)]
    BY <1>0, <1>4, PostType DEF Complete, Events
  <2>2. req' \in [Conns -> Requests]
    BY <1>4 DEF TypeOK, Complete, NoAsk, Requests
  <2>3. delivered' \in [Transfers -> BOOLEAN]
    BY <1>4 DEF TypeOK, Complete
  <2> QED
    BY <1>4, <2>1, <2>2, <2>3 DEF TypeOK, Complete, maps
<1>5. CASE Abort(c)
  <2>1. inbox' \in [Transfers -> Seq(Events)]
    BY <1>0, <1>5, PostType DEF Abort, Events
  <2>2. req' \in [Conns -> Requests]
    BY <1>5 DEF TypeOK, Abort, NoAsk, Requests
  <2> QED
    BY <1>5, <2>1, <2>2 DEF TypeOK, Abort, maps, history
<1>6. CASE Lose(c)
  BY <1>6 DEF TypeOK, Lose, NoAsk, Requests, task, maps, history
<1> QED
  BY <1>1, <1>2, <1>3, <1>4, <1>5, <1>6 DEF Server

\* And those of the consumer, when the request it is at names a hash.
LEMMA ConsumeType ==
  ASSUME TypeOK, NEW c \in Conns, Consume(c),
         gate = [at |-> "route", conn |-> c] => req[c].hash \in Hashes
  PROVE  TypeOK'
<1> DEFINE t == serving[req[c].hash]
<1>1. CASE HearConnected(c)
  BY <1>1 DEF TypeOK, HearConnected, Hear, PeerOf, task, history
<1>2. CASE HearClosed(c)
  BY <1>2 DEF TypeOK, HearClosed, Hear, task, history
<1>3. CASE HearGet(c)
  BY <1>3 DEF TypeOK, HearGet, Hear, GatedAt, Gates, task, maps, history
<1>4. CASE GateBind(c)
  <2>1. conns[c] \in Devices \cup {None}
    BY DEF TypeOK
  <2>2. bound' \in [Hashes -> Devices \cup {None}]
    BY <1>4, <2>1 DEF TypeOK, GateBind
  <2>3. req' \in [Conns -> Requests]
    <3>1. NoAsk \in Requests
      BY DEF NoAsk, Requests
    <3>2. req' = req \/ req' = [req EXCEPT ![c] = NoAsk]
      BY <1>4 DEF GateBind
    <3> QED
      BY <3>1, <3>2 DEF TypeOK
  <2>4. gate' \in Gates
    BY <1>4 DEF GateBind, Gates, Idle
  <2> QED
    BY <1>4, <2>2, <2>3, <2>4 DEF TypeOK, GateBind, task, history
<1>5. CASE GateRoute(c)
  <2>0. t \in Transfers \cup {None}
    BY <1>5 DEF TypeOK, GateRoute
  <2>1. inbox' \in [Transfers -> Seq(Events)]
    BY <2>0, <1>5, PostType DEF GateRoute, Events
  <2>2. req' \in [Conns -> Requests]
    BY <2>0, <1>5 DEF TypeOK, GateRoute, Requests
  <2>3. joined' \in [Transfers -> SUBSET Devices]
    BY <2>0, <1>5 DEF TypeOK, GateRoute
  <2>4. gate' \in Gates
    BY <1>5 DEF GateRoute, Gates, Idle
  <2> QED
    BY <1>5, <2>1, <2>2, <2>3, <2>4 DEF TypeOK, GateRoute, maps
<1> QED
  BY <1>1, <1>2, <1>3, <1>4, <1>5 DEF Consume

-----------------------------------------------------------------------------
(* Requests in flight: what makes the gate's lookups meaningful.           *)

GetIn(i) == i \in 1 .. Len(mailbox) /\ mailbox[i].kind = "get"

\* Every unanswered request is announced once, by the message of it that is in
\* the mailbox or by the gate standing at it, and names a hash that was shared.
RequestsTracked ==
    /\ \A i \in Nat : GetIn(i) => req[mailbox[i].conn].st = "pending"
    /\ \A i, j \in Nat :
           GetIn(i) /\ GetIn(j) /\ mailbox[i].conn = mailbox[j].conn => i = j
    /\ gate.at # "idle" =>
           /\ gate.conn \in Conns
           /\ req[gate.conn].st = "pending"
           /\ \A i \in Nat : GetIn(i) => mailbox[i].conn # gate.conn
    /\ \A c \in Conns : req[c].st = "pending" => req[c].hash \in shared

\* A message at the back of the mailbox leaves the others in their places.
LEMMA MailedAt ==
  ASSUME TypeOK, NEW kind \in {"connected", "get", "closed"}, NEW c \in Conns,
         Mailed(kind, c)
  PROVE  /\ Len(mailbox') = Len(mailbox) + 1
         /\ mailbox'[Len(mailbox) + 1] = [kind |-> kind, conn |-> c]
         /\ \A i \in 1 .. Len(mailbox) : mailbox'[i] = mailbox[i]
  BY DEF TypeOK, Mailed, Mail

\* Taking the first message moves the others up by one.
LEMMA HeardAt ==
  ASSUME TypeOK, NEW kind, NEW c, Hear(kind, c)
  PROVE  /\ Len(mailbox') = Len(mailbox) - 1
         /\ 1 \in 1 .. Len(mailbox)
         /\ mailbox[1] = [kind |-> kind, conn |-> c]
         /\ \A i \in 1 .. Len(mailbox') :
                i + 1 \in 1 .. Len(mailbox) /\ mailbox'[i] = mailbox[i + 1]
<1>1. mailbox \in Seq(Mail) /\ mailbox # <<>>
  BY DEF TypeOK, Hear
<1>2. /\ Len(Tail(mailbox)) = Len(mailbox) - 1
      /\ \A i \in 1 .. Len(Tail(mailbox)) : Tail(mailbox)[i] = mailbox[i + 1]
  BY <1>1, HeadTailProperties
<1>3. Len(mailbox) \in Nat /\ Len(mailbox) # 0 /\ Head(mailbox) = mailbox[1]
  BY <1>1, EmptySeq, LenProperties, HeadTailProperties
<1> QED
  BY <1>2, <1>3 DEF Hear

\* A request in the mailbox is on one of the connections.
LEMMA GetConn ==
  ASSUME TypeOK, NEW i \in Nat, GetIn(i)
  PROVE  mailbox[i].conn \in Conns
<1>1. mailbox \in Seq(Mail) /\ i \in 1 .. Len(mailbox)
  BY DEF TypeOK, GetIn
<1>2. mailbox[i] \in Mail
  BY <1>1, ElementOfSeq
<1> QED
  BY <1>2 DEF Mail

\* Nothing is in flight at the start.
LEMMA InitTracked == Init => RequestsTracked
  BY DEF Init, RequestsTracked, GetIn, Idle, NoAsk

\* Steps that leave requests, mailbox and gate alone keep track of them, as
\* long as no hash is unshared.
LEMMA TrackedElsewhere ==
  ASSUME RequestsTracked, UNCHANGED <<req, mailbox, gate>>, shared \subseteq shared'
  PROVE  RequestsTracked'
  BY DEF RequestsTracked, GetIn

\* Every step of the system keeps track of the requests.
LEMMA NextTracked ==
  ASSUME TypeOK, RequestsTracked, [Next]_vars
  PROVE  RequestsTracked'
<1>1. ASSUME NEW t \in Transfers, Task(t)
      PROVE  RequestsTracked'
  <2>1. UNCHANGED <<req, mailbox, gate>> /\ shared \subseteq shared'
    BY <1>1 DEF Task, Advance, Begin, ImportCancelled, ImportFailed, Imported,
         Register, Publish, Unserve, Unbind, Settle, RecordFailure, Retire,
         ServeEvent, ServeCancelled, ServeClosed, provider, history
  <2> QED
    BY <2>1, TrackedElsewhere
<1>2. CASE User
  <2>1. UNCHANGED <<req, mailbox, gate>> /\ shared \subseteq shared'
    BY <1>2 DEF User, ClearFinished, Cancel, provider, history
  <2> QED
    BY <2>1, TrackedElsewhere
<1>3. CASE UNCHANGED vars
  <2>1. UNCHANGED <<req, mailbox, gate>> /\ shared \subseteq shared'
    BY <1>3 DEF vars
  <2> QED
    BY <2>1, TrackedElsewhere
<1>4. ASSUME NEW c \in Conns, Connect(c) \/ Disconnect(c)
      PROVE  RequestsTracked'
  <2>1. PICK kind \in {"connected", "closed"} : Mailed(kind, c)
    BY <1>4 DEF Connect, Disconnect
  <2>2. UNCHANGED <<req, gate, shared>>
    BY <1>4 DEF Connect, Disconnect, history
  <2>3. /\ Len(mailbox') = Len(mailbox) + 1
        /\ mailbox'[Len(mailbox) + 1] = [kind |-> kind, conn |-> c]
        /\ \A i \in 1 .. Len(mailbox) : mailbox'[i] = mailbox[i]
    BY <2>1, MailedAt
  <2>4. Len(mailbox) \in Nat
    BY DEF TypeOK
  <2>5. \A i \in Nat : GetIn(i)' => GetIn(i) /\ mailbox'[i] = mailbox[i]
    BY <2>3, <2>4 DEF GetIn
  <2> QED
    BY <2>2, <2>5 DEF RequestsTracked
<1>5. ASSUME NEW c \in Conns, NEW h \in Hashes, NEW a \in Asks, Ask(c, h, a)
      PROVE  RequestsTracked'
  <2>1. /\ Len(mailbox') = Len(mailbox) + 1
        /\ mailbox'[Len(mailbox) + 1] = [kind |-> "get", conn |-> c]
        /\ \A i \in 1 .. Len(mailbox) : mailbox'[i] = mailbox[i]
    BY <1>5, MailedAt DEF Ask
  <2>2. Len(mailbox) \in Nat
    BY DEF TypeOK
  <2>3. /\ req[c].st = "none" /\ h \in shared
        /\ req' = [req EXCEPT ![c] =
                      [st |-> "pending", hash |-> h, ask |-> a, sub |-> None]]
        /\ UNCHANGED <<gate, shared>>
    BY <1>5 DEF Ask, history
  <2>4. \A i \in Nat : GetIn(i)' =>
           \/ GetIn(i) /\ mailbox'[i] = mailbox[i] /\ mailbox'[i].conn # c
           \/ i = Len(mailbox) + 1 /\ mailbox'[i].conn = c
    BY <2>1, <2>2, <2>3 DEF GetIn, RequestsTracked
  <2>5. req'[c].st = "pending" /\ req'[c].hash = h
    BY <2>3 DEF TypeOK
  <2>6. \A d \in Conns : d # c => req'[d] = req[d]
    BY <2>3 DEF TypeOK
  <2>7. \A i \in Nat : GetIn(i) => mailbox[i].conn \in Conns
    BY GetConn
  <2>8. gate.at # "idle" => gate.conn # c
    BY <2>3 DEF RequestsTracked
  <2> QED
    BY <2>3, <2>4, <2>5, <2>6, <2>7, <2>8 DEF RequestsTracked
<1>6. ASSUME NEW c \in Conns, Complete(c) \/ Abort(c) \/ Lose(c)
      PROVE  RequestsTracked'
  <2>1. req[c].st = "granted" /\ req' = [req EXCEPT ![c] = NoAsk]
    BY <1>6 DEF Complete, Abort, Lose
  <2>2. UNCHANGED <<mailbox, gate, shared>>
    BY <1>6 DEF Complete, Abort, Lose, history
  <2>3. \A d \in Conns : req[d].st = "pending" => req'[d] = req[d]
    BY <2>1 DEF TypeOK
  <2>4. \A d \in Conns : req'[d].st = "pending" => req[d].st = "pending"
    BY <2>1 DEF TypeOK, NoAsk
  <2>5. \A i \in Nat : GetIn(i) => mailbox[i].conn \in Conns
    BY GetConn
  <2> QED
    BY <2>2, <2>3, <2>4, <2>5 DEF RequestsTracked, GetIn
<1>7. ASSUME NEW c \in Conns, HearConnected(c) \/ HearClosed(c) \/ HearGet(c)
      PROVE  RequestsTracked'
  <2>1. PICK kind \in {"connected", "closed", "get"} :
            /\ Hear(kind, c)
            /\ gate' = gate \/ (kind = "get" /\ gate'.conn = c)
    BY <1>7 DEF HearConnected, HearClosed, HearGet, GatedAt
  <2>2. UNCHANGED <<req, shared>> /\ gate.at = "idle"
    BY <1>7 DEF HearConnected, HearClosed, HearGet, Hear, history
  <2>3. /\ Len(mailbox') = Len(mailbox) - 1
        /\ 1 \in 1 .. Len(mailbox)
        /\ mailbox[1] = [kind |-> kind, conn |-> c]
        /\ \A i \in 1 .. Len(mailbox') :
               i + 1 \in 1 .. Len(mailbox) /\ mailbox'[i] = mailbox[i + 1]
    BY <2>1, HeardAt
  <2>4. \A i \in Nat : GetIn(i)' =>
            i + 1 \in Nat /\ GetIn(i + 1) /\ mailbox'[i] = mailbox[i + 1] /\ i + 1 # 1
    BY <2>3 DEF GetIn
  <2>5. /\ \A i \in Nat : GetIn(i)' => req'[mailbox'[i].conn].st = "pending"
        /\ \A i, j \in Nat :
              GetIn(i)' /\ GetIn(j)' /\ mailbox'[i].conn = mailbox'[j].conn => i = j
    <3>1. \A i, j \in Nat : i + 1 = j + 1 => i = j
      OBVIOUS
    <3> QED
      BY <2>2, <2>4, <3>1 DEF RequestsTracked
  <2>6. CASE gate' = gate
    BY <2>2, <2>5, <2>6 DEF RequestsTracked
  <2>7. CASE kind = "get" /\ gate'.conn = c
    <3>1. 1 \in Nat /\ GetIn(1) /\ mailbox[1].conn = c
      BY <2>3, <2>7 DEF GetIn
    <3>2. \A i \in Nat : GetIn(i)' => mailbox'[i].conn # c
      BY <2>4, <3>1 DEF RequestsTracked
    <3> QED
      BY <2>2, <2>5, <2>7, <3>1, <3>2 DEF RequestsTracked
  <2> QED
    BY <2>1, <2>6, <2>7
<1>8. ASSUME NEW c \in Conns, GateBind(c) \/ GateRoute(c)
      PROVE  RequestsTracked'
  <2>1. gate.at # "idle" /\ gate.conn = c /\ UNCHANGED <<mailbox, shared>>
    BY <1>8 DEF GateBind, GateRoute, history
  <2>2. \/ gate'.at # "idle" /\ gate'.conn = c /\ req' = req
        \/ gate'.at = "idle" /\ req' = [req EXCEPT ![c] = NoAsk]
        \/ gate'.at = "idle" /\ \E r : r.st = "granted" /\ req' = [req EXCEPT ![c] = r]
    BY <1>8 DEF GateBind, GateRoute, Idle
  <2>3. \A d \in Conns : d # c => req'[d] = req[d]
    BY <2>2 DEF TypeOK
  <2>4. req' = req \/ req'[c].st # "pending"
    BY <2>2 DEF TypeOK, NoAsk
  <2>5. \A i \in Nat : GetIn(i) => mailbox[i].conn \in Conns /\ mailbox[i].conn # c
    BY <2>1, GetConn DEF RequestsTracked
  <2> QED
    BY <2>1, <2>2, <2>3, <2>4, <2>5 DEF RequestsTracked, GetIn
<1> QED
  BY <1>1, <1>2, <1>3, <1>4, <1>5, <1>6, <1>7, <1>8 DEF Next, Server, Consume

\* Every reachable state is well typed, and its requests are kept track of.
LEMMA Tracked == Spec => [](TypeOK /\ RequestsTracked)
<1>1. TypeOK /\ RequestsTracked /\ [Next]_vars => TypeOK'
  <2> SUFFICES ASSUME TypeOK, RequestsTracked, [Next]_vars PROVE TypeOK'
    OBVIOUS
  <2>1. ASSUME NEW c \in Conns, gate = [at |-> "route", conn |-> c]
        PROVE  req[c].hash \in Hashes
    BY <2>1 DEF RequestsTracked, TypeOK
  <2>2. CASE UNCHANGED vars
    BY <2>2 DEF vars, TypeOK
  <2> QED
    BY <2>1, <2>2, TaskType, UserType, ServerType, ConsumeType DEF Next
<1> QED
  BY <1>1, InitTypeOK, InitTracked, NextTracked, PTL DEF Spec

\* Type correctness: no interleaving of sends, server and consumer puts a value
\* out of its domain; in particular the lookups of the gate stay inside the
\* maps, since every request it meets is for a hash that was shared.
THEOREM TypeCorrect == Spec => []TypeOK
  BY Tracked, PTL

-----------------------------------------------------------------------------
(* Registrations.                                                          *)

\* A step that leaves serving alone and keeps registered tasks where they are
\* registered.
LEMMA LiveElsewhere ==
  ASSUME RegistrationIsLive, UNCHANGED serving,
         \A t \in Transfers : pc[t] \in {"publish", "serving", "unserve"}
                              => pc'[t] \in {"publish", "serving", "unserve"},
         serving \in [Hashes -> Transfers \cup {None}]
  PROVE  RegistrationIsLive'
  BY DEF RegistrationIsLive

\* Every step keeps registrations with live sends: only Register adds one, and
\* the task that made it passes Unserve before it leaves.
LEMMA NextLive ==
  ASSUME TypeOK, RegistrationIsLive, [Next]_vars
  PROVE  RegistrationIsLive'
<1>0. /\ pc \in [Transfers -> Phases]
      /\ serving \in [Hashes -> Transfers \cup {None}]
  BY DEF TypeOK
<1>1. ASSUME NEW t \in Transfers, Register(t)
      PROVE  RegistrationIsLive'
  BY <1>0, <1>1 DEF RegistrationIsLive, Register, Goto
<1>2. ASSUME NEW t \in Transfers, Unserve(t)
      PROVE  RegistrationIsLive'
  BY <1>0, <1>2 DEF RegistrationIsLive, Unserve, Goto
<1>3. ASSUME NEW t \in Transfers, Task(t), ~Register(t), ~Unserve(t)
      PROVE  RegistrationIsLive'
  <2>1. UNCHANGED serving
    BY <1>3 DEF Task, Advance, Begin, ImportCancelled, ImportFailed, Imported,
         Publish, Unbind, Settle, RecordFailure, Retire, ServeEvent,
         ServeCancelled, ServeClosed, maps
  <2>2. \/ pc' = pc
        \/ \E from, to \in Phases :
               /\ from \in {"publish", "serving"} => to \in {"serving", "unserve"}
               /\ from # "unserve" /\ Goto(t, from, to)
    BY <1>3 DEF Task, Advance, Begin, ImportCancelled, ImportFailed, Imported,
         Publish, Unbind, Settle, RecordFailure, Retire, ServeEvent,
         ServeCancelled, ServeClosed, Phases
  <2>3. \A u \in Transfers : pc[u] \in {"publish", "serving", "unserve"}
                             => pc'[u] \in {"publish", "serving", "unserve"}
    BY <1>0, <2>2 DEF Goto
  <2> QED
    BY <1>0, <2>1, <2>3, LiveElsewhere
<1>4. CASE User \/ (\E c \in Conns : Server(c) \/ Consume(c)) \/ UNCHANGED vars
  <2>1. UNCHANGED <<pc, serving>>
    BY <1>4 DEF User, ClearFinished, Cancel, Server, Connect, Ask, Disconnect,
         Complete, Abort, Lose, Consume, HearConnected, HearClosed, HearGet,
         GateBind, GateRoute, vars, task, maps
  <2> QED
    BY <1>0, <2>1, LiveElsewhere
<1> QED
  BY <1>1, <1>2, <1>3, <1>4 DEF Next

\* The registrations of serving are those of live tasks: no path through
\* run_send, whatever other sends of the same content do to the entry, leaves
\* behind one that would keep a dead send's channel open or its gate on.
THEOREM RegistrationsLive == Spec => []RegistrationIsLive
<1>1. Init => RegistrationIsLive
  BY DEF Init, RegistrationIsLive
<1> QED
  BY <1>1, TypeCorrect, NextLive, PTL DEF Spec

-----------------------------------------------------------------------------
(* The record of a send, its last word and its entry in active.            *)

\* A token can be reached from the start of the task to the end of it.
Listed == \A t \in Transfers : t \in active <=> pc[t] \notin {"none", "ended"}

\* No record before Publish, nor on the way out of an import that failed.
Unlisted ==
    \A t \in Transfers :
        pc[t] \in {"none", "importing", "register", "publish", "failed"} =>
            catalog[t] = "absent" /\ ~completed[t]

\* The last word is said before the task is retired.
Parted ==
    \A t \in Transfers :
        /\ pc[t] = "failed" => told[t] = "error"
        /\ pc[t] \in {"retire", "ended"} =>
               catalog[t] # "active" /\ told[t] \in {"cancelled", "error"}

\* The record, the flag and the stream of a send agree.
Recorded ==
    \A t \in Transfers :
        /\ catalog[t] = "active" => ~completed[t] /\ told[t] \in {"ready", "joined"}
        /\ catalog[t] = "done" => completed[t]

\* The inductive invariant of all sends, of the same content or not: it sees
\* neither the maps keyed by hash nor the gate.
Ledger == Listed /\ Unlisted /\ Parted /\ Recorded

\* A send that has not begun has no record.
LEMMA InitLedger == Init => Ledger
  BY DEF Init, Ledger, Listed, Unlisted, Parted, Recorded

\* Steps that touch neither the task nor its record.
LEMMA LedgerElsewhere ==
  ASSUME Ledger, UNCHANGED <<pc, completed, active, catalog, told>>
  PROVE  Ledger'
  BY DEF Ledger, Listed, Unlisted, Parted, Recorded

\* Steps of a task before its record and after its last word.
LEMMA TaskLedger ==
  ASSUME TypeOK, Ledger, NEW t \in Transfers, Task(t)
  PROVE  Ledger'
<1>0. /\ pc \in [Transfers -> Phases] /\ catalog \in [Transfers -> Statuses]
      /\ told \in [Transfers -> Messages] /\ active \subseteq Transfers
      /\ completed \in [Transfers -> BOOLEAN]
  BY DEF TypeOK
<1> USE DEF Ledger, Listed, Unlisted, Parted, Recorded
<1>1. CASE Begin(t)
  BY <1>0, <1>1 DEF Begin, Goto, maps, history
<1>2. CASE ImportCancelled(t)
  BY <1>0, <1>2 DEF ImportCancelled, Goto, Tell, maps
<1>3. CASE ImportFailed(t)
  BY <1>0, <1>3 DEF ImportFailed, Goto, Tell, maps
<1>4. CASE Imported(t)
  BY <1>0, <1>4 DEF Imported, Goto, maps, history
<1>5. CASE Register(t)
  BY <1>0, <1>5 DEF Register, Goto, history
<1>6. CASE Publish(t)
  BY <1>0, <1>6 DEF Publish, Goto, Tell
<1>7. CASE Unserve(t)
  BY <1>0, <1>7 DEF Unserve, Goto, history
<1>8. CASE Unbind(t)
  BY <1>0, <1>8 DEF Unbind, Goto, history
<1>9. CASE Settle(t)
  BY <1>0, <1>9 DEF Settle, Undelivered, SetStatus, Goto, Tell
<1>10. CASE RecordFailure(t)
  BY <1>0, <1>10 DEF RecordFailure, SetStatus, Goto, history
<1>11. CASE Retire(t)
  BY <1>0, <1>11 DEF Retire, Goto, maps, history
<1>12. CASE ServeEvent(t)
  BY <1>0, <1>12 DEF ServeEvent, SetStatus, Tell
<1>13. CASE ServeCancelled(t)
  BY <1>0, <1>13 DEF ServeCancelled, Goto, maps, history
<1>14. CASE ServeClosed(t)
  BY <1>0, <1>14 DEF ServeClosed, Goto, maps, history
<1> QED
  BY <1>1, <1>2, <1>3, <1>4, <1>5, <1>6, <1>7, <1>8, <1>9, <1>10, <1>11, <1>12,
     <1>13, <1>14 DEF Task, Advance

\* Nobody but a task and ClearFinished touches a record, and clearing leaves the
\* active ones.
LEMMA NextLedger ==
  ASSUME TypeOK, Ledger, [Next]_vars
  PROVE  Ledger'
<1>1. ASSUME NEW t \in Transfers, Task(t)
      PROVE  Ledger'
  BY <1>1, TaskLedger
<1>2. CASE ClearFinished
  BY <1>2 DEF TypeOK, ClearFinished, Ledger, Listed, Unlisted, Parted, Recorded,
     task, history
<1>3. CASE \/ \E t \in Transfers : Cancel(t)
           \/ \E c \in Conns : Server(c) \/ Consume(c)
           \/ UNCHANGED vars
  <2>1. UNCHANGED <<pc, completed, active, catalog, told>>
    BY <1>3 DEF Cancel, Server, Connect, Ask, Disconnect, Complete, Abort, Lose,
         Consume, HearConnected, HearClosed, HearGet, GateBind, GateRoute, vars,
         task, maps, history
  <2> QED
    BY <2>1, LedgerElsewhere
<1> QED
  BY <1>1, <1>2, <1>3 DEF Next, User

\* The ledger is kept in every reachable state.
LEMMA LedgerInvariant == Spec => [](TypeOK /\ Ledger)
<1>1. TypeOK /\ Ledger /\ [Next]_vars => Ledger'
  BY NextLedger
<1> QED
  BY <1>1, InitLedger, TypeCorrect, PTL DEF Spec

\* What the ledger says of a task that is over.
LEMMA LedgerSettles == Ledger => EndedIsSettled
  BY DEF Ledger, Listed, Parted, EndedIsSettled

\* What it says of the stream.
LEMMA LedgerTells == Ledger => ToldIsRecorded
  BY DEF Ledger, Recorded, ToldIsRecorded

\* Whichever of its ways out a send takes (import cancelled, import failed, loop
\* over), and whatever other sends of its content do meanwhile, its task leaves
\* no token, no active record and no stream without a last word.
THEOREM EndedSendsSettled == Spec => []EndedIsSettled
  BY LedgerInvariant, LedgerSettles, PTL

\* The catalog is ahead of the stream: no listener that reads the record after
\* Done, Cancelled or Error still finds it active.
THEOREM StreamFollowsCatalog == Spec => []ToldIsRecorded
  BY LedgerInvariant, LedgerTells, PTL

\* The flag completed, written with the record and read by the teardown, never
\* parts from it: a delivered send keeps its status through its own teardown.
THEOREM DeliveredStaysDone == Spec => DoneIsFinal
<1> DEFINE Kept == \A t \in Transfers :
                      catalog[t] = "done" => catalog'[t] \in {"done", "absent"}
<1>1. TypeOK /\ Ledger /\ [Next]_vars => [Kept]_vars
  <2> SUFFICES ASSUME TypeOK, Ledger, Next PROVE Kept
    OBVIOUS
  <2>0. catalog \in [Transfers -> Statuses]
    BY DEF TypeOK
  <2>1. ASSUME NEW t \in Transfers, Publish(t) \/ RecordFailure(t)
        PROVE  Kept
    BY <2>0, <2>1 DEF Publish, RecordFailure, SetStatus, Goto, Ledger, Unlisted
  <2>2. ASSUME NEW t \in Transfers, Settle(t)
        PROVE  Kept
    BY <2>0, <2>2 DEF Settle, Undelivered, SetStatus, Ledger, Recorded
  <2>3. ASSUME NEW t \in Transfers, ServeEvent(t)
        PROVE  Kept
    BY <2>0, <2>3 DEF ServeEvent, SetStatus
  <2>4. CASE ClearFinished
    BY <2>4 DEF ClearFinished
  <2>5. CASE UNCHANGED catalog
    BY <2>5
  <2> QED
    BY <2>1, <2>2, <2>3, <2>4, <2>5 DEF Next, Task, Advance, Begin, ImportCancelled,
       ImportFailed, Imported, Register, Unserve, Unbind, Retire, ServeCancelled,
       ServeClosed, User, Cancel, Server, Connect, Ask, Disconnect, Complete, Abort,
       Lose, Consume, HearConnected, HearClosed, HearGet, GateBind, GateRoute, maps
<1> QED
  BY <1>1, LedgerInvariant, PTL DEF Spec, DoneIsFinal

\* A stream that has ended is that of a task on its way out.
LastWords ==
    \A t \in Transfers :
        told[t] \in {"cancelled", "error"} => pc[t] \in {"failed", "retire", "ended"}

\* The last word on a stream is the last: no event that was queued before a cancel or
\* an error follows it, whatever requests still run and whoever cancels again.
THEOREM LastWordStands ==
  Spec => [][\A t \in Transfers : told[t] \in {"cancelled", "error"} => told'[t] = told[t]]_told
<1> DEFINE Stands == \A t \in Transfers :
                        told[t] \in {"cancelled", "error"} => told'[t] = told[t]
<1>1. TypeOK /\ LastWords /\ [Next]_vars => LastWords' /\ Stands
  <2> SUFFICES ASSUME TypeOK, LastWords, [Next]_vars
               PROVE  LastWords' /\ Stands
    OBVIOUS
  <2>0. pc \in [Transfers -> Phases] /\ told \in [Transfers -> Messages]
    BY DEF TypeOK
  <2>1. ASSUME NEW t \in Transfers, Publish(t) \/ ServeEvent(t)
        PROVE  LastWords' /\ Stands
    <3>1. /\ pc[t] \in {"publish", "serving"}
          /\ told' = told \/ \E m \in {"ready", "joined", "done"} : told' = [told EXCEPT ![t] = m]
          /\ pc' = pc \/ pc' = [pc EXCEPT ![t] = "serving"]
      BY <2>1 DEF Publish, ServeEvent, Goto, Tell
    <3> QED  BY <2>0, <3>1 DEF LastWords
  <2>2. ASSUME NEW t \in Transfers, ImportCancelled(t) \/ ImportFailed(t) \/ Settle(t)
        PROVE  LastWords' /\ Stands
    BY <2>0, <2>2 DEF ImportCancelled, ImportFailed, Settle, Goto, Tell, LastWords
  <2>3. ASSUME NEW t \in Transfers, RecordFailure(t) \/ Retire(t)
        PROVE  LastWords' /\ Stands
    BY <2>0, <2>3 DEF RecordFailure, Retire, Goto, LastWords, history
  <2>4. ASSUME NEW t \in Transfers,
               \/ Begin(t) \/ Imported(t) \/ Register(t) \/ Unserve(t) \/ Unbind(t)
               \/ ServeCancelled(t) \/ ServeClosed(t)
        PROVE  LastWords' /\ Stands
    <3>1. /\ UNCHANGED told
          /\ pc[t] \notin {"failed", "retire", "ended"} /\ \E to : pc' = [pc EXCEPT ![t] = to]
      BY <2>4 DEF Begin, Imported, Register, Unserve, Unbind, ServeCancelled, ServeClosed,
         Goto, history
    <3> QED  BY <2>0, <3>1 DEF LastWords
  <2>5. CASE User \/ (\E c \in Conns : Server(c) \/ Consume(c)) \/ UNCHANGED vars
    <3>1. UNCHANGED <<pc, told>>
      BY <2>5 DEF User, ClearFinished, Cancel, Server, Connect, Ask, Disconnect, Complete,
         Abort, Lose, Consume, HearConnected, HearClosed, HearGet, GateBind, GateRoute, vars,
         task, history
    <3> QED  BY <3>1 DEF LastWords
  <2> QED  BY <2>1, <2>2, <2>3, <2>4, <2>5 DEF Next, Task, Advance
<1>2. Init => LastWords
  BY DEF Init, LastWords
<1> QED
  BY <1>1, <1>2, TypeCorrect, PTL DEF Spec

-----------------------------------------------------------------------------
(* Sends of the same content: what one of them alone is sure of.           *)

\* Another send of the same bytes has left its registration, or failed before it.
Past == {"unbind", "settle", "retire", "ended"}
Rival(t) == \E u \in Transfers \ {t} : Content[u] = Content[t] /\ pc[u] \in Past

\* A hash whose sends are all on their way to the gate or behind it.
Undisturbed(h) == \A u \in Transfers : Content[u] = h => pc[u] \notin Past

\* Until the first send of a content is over, its hash, which no older ticket names, is
\* served from the moment it is shared, so that nobody passes the gate unbound, and all
\* its users are the bound one.
Guarded ==
    \A h \in Hashes \ Earlier : Undisturbed(h) =>
        /\ h \in shared => serving[h] # None
        /\ \A t \in Transfers : Content[t] = h /\ pc[t] = "publish" => serving[h] # None
        /\ gate.at = "route" /\ req[gate.conn].hash = h /\ conns[gate.conn] # None
              => bound[h] = conns[gate.conn]
        /\ \A t \in Transfers : Content[t] = h => joined[t] \subseteq {bound[h]}

\* The requests routed to a send come from one device, or it has had a rival.
SharedByRivals == \A t \in Transfers : Rival(t) \/ \A d, e \in joined[t] : d = e

\* The teardown of a send, once begun, goes to its end.
LEMMA PastStays ==
  ASSUME TypeOK, [Next]_vars, NEW t \in Transfers, pc[t] \in Past
  PROVE  pc'[t] \in Past
<1>0. pc \in [Transfers -> Phases]
  BY DEF TypeOK
<1>1. ASSUME NEW u \in Transfers, Task(u)
      PROVE  \/ UNCHANGED pc
             \/ \E from, to \in Phases : Goto(u, from, to) /\ (from \in Past => to \in Past)
  BY <1>1 DEF Task, Advance, Begin, ImportCancelled, ImportFailed, Imported, Register,
     Publish, Unserve, Unbind, Settle, RecordFailure, Retire, ServeEvent, ServeCancelled,
     ServeClosed, Phases, Past
<1>2. ASSUME NEW u \in Transfers, Task(u)
      PROVE  pc'[t] \in Past
  BY <1>0, <1>1, <1>2 DEF Goto
<1>3. CASE User \/ (\E c \in Conns : Server(c) \/ Consume(c)) \/ UNCHANGED vars
  BY <1>3 DEF User, ClearFinished, Cancel, Server, Connect, Ask, Disconnect, Complete, Abort,
     Lose, Consume, HearConnected, HearClosed, HearGet, GateBind, GateRoute, vars, task
<1> QED  BY <1>2, <1>3 DEF Next

\* So what is undisturbed has been.
LEMMA UndisturbedBefore ==
  ASSUME TypeOK, [Next]_vars, NEW h \in Hashes, Undisturbed(h)'
  PROVE  Undisturbed(h)
  BY PastStays DEF Undisturbed

\* Steps that leave the maps, the gate and its request alone.
LEMMA GuardedElsewhere ==
  ASSUME TypeOK, Guarded, [Next]_vars,
         UNCHANGED <<serving, bound, conns, gate, shared, joined>>,
         gate.at # "idle" => req'[gate.conn] = req[gate.conn],
         \A t \in Transfers : pc'[t] = "publish" => pc[t] = "publish"
  PROVE  Guarded'
<1> SUFFICES ASSUME NEW h \in Hashes \ Earlier, Undisturbed(h)'
             PROVE  /\ h \in shared => serving[h] # None
                    /\ \A t \in Transfers : Content[t] = h /\ pc'[t] = "publish"
                           => serving[h] # None
                    /\ gate.at = "route" /\ req'[gate.conn].hash = h /\ conns[gate.conn] # None
                          => bound[h] = conns[gate.conn]
                    /\ \A t \in Transfers : Content[t] = h => joined[t] \subseteq {bound[h]}
  BY DEF Guarded
<1>1. Undisturbed(h)
  BY UndisturbedBefore
<1> QED  BY <1>1 DEF Guarded

\* The tasks keep the guard: who takes an entry away is past the gate.
LEMMA TaskGuarded ==
  ASSUME TypeOK, Guarded, NEW t \in Transfers, Task(t), [Next]_vars
  PROVE  Guarded'
<1>0. /\ pc \in [Transfers -> Phases]
      /\ serving \in [Hashes -> Transfers \cup {None}]
      /\ bound \in [Hashes -> Devices \cup {None}]
      /\ Content[t] \in Hashes
  BY DEF TypeOK
<1>1. CASE \/ Begin(t) \/ ImportCancelled(t) \/ ImportFailed(t) \/ Imported(t)
           \/ Settle(t) \/ RecordFailure(t) \/ Retire(t)
           \/ ServeEvent(t) \/ ServeCancelled(t) \/ ServeClosed(t)
  <2>1. UNCHANGED <<serving, bound, conns, gate, shared, joined, req>>
    BY <1>1 DEF Begin, ImportCancelled, ImportFailed, Imported, Settle, RecordFailure, Retire,
       ServeEvent, ServeCancelled, ServeClosed, provider, history, maps
  <2>2. \A u \in Transfers : pc'[u] = "publish" => pc[u] = "publish"
    BY <1>0, <1>1 DEF Begin, ImportCancelled, ImportFailed, Imported, Settle, RecordFailure,
       Retire, ServeEvent, ServeCancelled, ServeClosed, Goto
  <2> QED  BY <2>1, <2>2, GuardedElsewhere
<1> SUFFICES ASSUME Register(t) \/ Publish(t) \/ Unserve(t) \/ Unbind(t),
                    NEW h \in Hashes \ Earlier, Undisturbed(h)'
             PROVE  /\ h \in shared' => serving'[h] # None
                    /\ \A u \in Transfers : Content[u] = h /\ pc'[u] = "publish"
                           => serving'[h] # None
                    /\ gate.at = "route" /\ req[gate.conn].hash = h /\ conns[gate.conn] # None
                          => bound'[h] = conns[gate.conn]
                    /\ \A u \in Transfers : Content[u] = h => joined[u] \subseteq {bound'[h]}
  <2>1. (Register(t) \/ Publish(t) \/ Unserve(t) \/ Unbind(t)) => UNCHANGED <<gate, req, conns, joined>>
    BY DEF Register, Publish, Unserve, Unbind, provider, history
  <2> QED  BY <1>1, <2>1 DEF Guarded, Task, Advance
<1>2. Undisturbed(h)
  BY UndisturbedBefore
<1>3. CASE Register(t)
  BY <1>0, <1>2, <1>3 DEF Register, Goto, Guarded, history
<1>4. CASE Publish(t)
  <2>1. UNCHANGED <<serving, bound>> /\ shared' = shared \cup {Content[t]}
    BY <1>4 DEF Publish
  <2>2. pc[t] = "publish" /\ pc' = [pc EXCEPT ![t] = "serving"]
    BY <1>4 DEF Publish, Goto
  <2> QED  BY <1>0, <1>2, <2>1, <2>2 DEF Guarded
<1>5. CASE Unserve(t)
  <2>1. pc'[t] = "unbind"
    BY <1>0, <1>5 DEF Unserve, Goto
  <2>2. Content[t] # h
    BY <2>1 DEF Undisturbed, Past
  <2> QED  BY <1>0, <1>2, <1>5, <2>2 DEF Unserve, Goto, Guarded, history
<1>6. CASE Unbind(t)
  <2>1. pc[t] = "unbind"
    BY <1>6 DEF Unbind, Goto
  <2>2. Content[t] # h
    BY <1>2, <2>1 DEF Undisturbed, Past
  <2> QED  BY <1>0, <1>2, <1>6, <2>2 DEF Unbind, Goto, Guarded, history
<1> QED  BY <1>3, <1>4, <1>5, <1>6

\* A request is routed to the send registered for its hash, and to no other.
LEMMA RoutedJoins ==
  ASSUME TypeOK, RequestsTracked, NEW c \in Conns, GateRoute(c), NEW t \in Transfers
  PROVE  \/ joined'[t] = joined[t]
         \/ /\ t = serving[req[c].hash] /\ conns[c] # None
            /\ joined'[t] = joined[t] \cup {conns[c]}
  BY DEF GateRoute, TypeOK

\* So do the user, the blob server and the consumer: while the hash is served the gate
\* is not passed unbound, and one that is bound is passed by its device alone.
LEMMA NextGuarded ==
  ASSUME TypeOK, RequestsTracked, RegistrationIsLive, Guarded, [Next]_vars
  PROVE  Guarded'
<1>0. /\ serving \in [Hashes -> Transfers \cup {None}]
      /\ bound \in [Hashes -> Devices \cup {None}]
      /\ conns \in [Conns -> Devices \cup {None}]
      /\ joined \in [Transfers -> SUBSET Devices]
  BY DEF TypeOK
<1>1. ASSUME NEW t \in Transfers, Task(t)
      PROVE  Guarded'
  BY <1>1, TaskGuarded
<1>2. CASE User \/ (\E c \in Conns : Server(c)) \/ UNCHANGED vars
  <2>1. UNCHANGED <<pc, serving, bound, conns, gate, shared, joined>>
    BY <1>2 DEF User, ClearFinished, Cancel, Server, Connect, Ask, Disconnect, Complete,
       Abort, Lose, vars, task, maps, provider, history
  <2>2. \A c \in Conns : req[c].st = "pending" => req'[c] = req[c]
    BY <1>2 DEF TypeOK, User, ClearFinished, Cancel, Server, Connect, Ask, Disconnect,
       Complete, Abort, Lose, vars, provider
  <2>3. gate.at # "idle" => req'[gate.conn] = req[gate.conn]
    BY <2>2 DEF RequestsTracked
  <2> QED  BY <2>1, <2>3, GuardedElsewhere
<1>3. ASSUME NEW c \in Conns, Consume(c)
      PROVE  Guarded'
  <2>0. UNCHANGED <<pc, serving, shared>>
    BY <1>3 DEF Consume, HearConnected, HearClosed, HearGet, GateBind, GateRoute, task, maps,
       history
  <2> SUFFICES ASSUME NEW h \in Hashes \ Earlier, Undisturbed(h)
               PROVE  /\ gate'.at = "route" /\ req'[gate'.conn].hash = h /\ conns'[gate'.conn] # None
                            => bound'[h] = conns'[gate'.conn]
                      /\ \A t \in Transfers : Content[t] = h => joined'[t] \subseteq {bound'[h]}
    BY <2>0 DEF Guarded, Undisturbed
  <2>1. /\ h \in shared => serving[h] # None
        /\ gate.at = "route" /\ req[gate.conn].hash = h /\ conns[gate.conn] # None
              => bound[h] = conns[gate.conn]
        /\ \A t \in Transfers : Content[t] = h => joined[t] \subseteq {bound[h]}
    BY DEF Guarded
  <2>2. CASE HearConnected(c) \/ HearClosed(c)
    <3>1. gate'.at = "idle" /\ UNCHANGED <<bound, joined>>
      BY <2>2 DEF HearConnected, HearClosed, Hear, history
    <3> QED  BY <2>1, <3>1
  <2>3. CASE HearGet(c)
    <3>1. /\ gate' = [at |-> IF Ungated(c) THEN "route" ELSE "bind", conn |-> c]
          /\ UNCHANGED <<req, conns, bound, joined>>
      BY <2>3 DEF HearGet, GatedAt, maps, history
    <3>2. req[c].hash \in shared
      <4>1. RequestsTracked'
        BY NextTracked
      <4>2. gate'.at # "idle" /\ gate'.conn = c
        BY <3>1
      <4> QED  BY <2>0, <3>1, <4>1, <4>2 DEF RequestsTracked
    <3>3. gate'.at = "route" /\ gate'.conn = c => conns[c] = None \/ serving[req[c].hash] = None
      BY <3>1 DEF Ungated
    <3> QED  BY <2>1, <3>1, <3>2, <3>3
  <2>4. CASE GateBind(c)
    <3>0. UNCHANGED <<conns, joined>> /\ req[c].hash \in Hashes
      BY <2>4 DEF GateBind, history, RequestsTracked, TypeOK
    <3>1. CASE /\ Admits(req[c].hash, conns[c])
               /\ bound' = [bound EXCEPT ![req[c].hash] = conns[c]]
               /\ gate' = [at |-> "route", conn |-> c]
               /\ UNCHANGED req
      <4>1. CASE h = req[c].hash
        <5>1. bound'[h] = conns[c] /\ bound[h] \in {None, conns[c]}
          BY <1>0, <3>1, <4>1 DEF Admits
        <5>2. \A t \in Transfers : None \notin joined[t]
          BY <1>0
        <5> QED  BY <2>1, <3>0, <3>1, <5>1, <5>2
      <4>2. CASE h # req[c].hash
        <5>1. bound'[h] = bound[h]
          BY <1>0, <3>1, <4>2
        <5> QED  BY <2>1, <3>0, <3>1, <4>2, <5>1
      <4> QED  BY <4>1, <4>2
    <3>2. CASE gate' = Idle /\ UNCHANGED bound
      BY <2>1, <3>0, <3>2 DEF Idle
    <3> QED  BY <2>4, <3>1, <3>2 DEF GateBind
  <2>5. CASE GateRoute(c)
    <3>0. /\ gate'.at = "idle" /\ UNCHANGED bound
          /\ gate.at = "route" /\ gate.conn = c
      BY <2>5 DEF GateRoute, Idle, maps
    <3>1. ASSUME NEW t \in Transfers, Content[t] = h
          PROVE  joined'[t] \subseteq {bound[h]}
      <4>1. CASE joined'[t] = joined[t]
        BY <2>1, <3>1, <4>1
      <4>2. CASE /\ t = serving[req[c].hash] /\ conns[c] # None
                 /\ joined'[t] = joined[t] \cup {conns[c]}
        <5>1. Content[t] = req[c].hash
          BY <2>5, <3>0, <4>2 DEF RegistrationIsLive, RequestsTracked, TypeOK
        <5> QED  BY <2>1, <3>0, <3>1, <4>2, <5>1
      <4> QED  BY <2>5, <4>1, <4>2, RoutedJoins
    <3> QED  BY <3>0, <3>1
  <2> QED  BY <1>3, <2>2, <2>3, <2>4, <2>5 DEF Consume
<1> QED  BY <1>1, <1>2, <1>3 DEF Next

\* A send that has no rival keeps its one user: it is the bound one until the send
\* leaves its registration, and nobody is routed to it afterwards.
LEMMA NextShared ==
  ASSUME FirstTickets, TypeOK, RequestsTracked, RegistrationIsLive, Guarded, SharedByRivals,
         [Next]_vars
  PROVE  SharedByRivals'
<1> SUFFICES ASSUME NEW t \in Transfers, ~Rival(t)'
             PROVE  \A d, e \in joined'[t] : d = e
  BY DEF SharedByRivals
<1>1. ~Rival(t)
  BY PastStays DEF Rival
<1>2. CASE joined'[t] = joined[t]
  BY <1>1, <1>2 DEF SharedByRivals
<1>3. ASSUME NEW c \in Conns, GateRoute(c), joined'[t] # joined[t]
      PROVE  \A d, e \in joined'[t] : d = e
  <2>1. t = serving[req[c].hash] /\ req[c].hash \in Hashes
    BY <1>3, RoutedJoins DEF GateRoute, RequestsTracked, TypeOK
  <2>2. pc[t] \notin Past /\ Content[t] = req[c].hash
    BY <2>1 DEF RegistrationIsLive, Past
  <2>3. Undisturbed(Content[t]) /\ UNCHANGED <<pc, bound>>
    BY <1>1, <1>3, <2>2 DEF Rival, Undisturbed, GateRoute, maps
  <2>4. Undisturbed(Content[t])'
    BY <2>3 DEF Undisturbed
  <2>5. joined'[t] \subseteq {bound'[Content[t]]}
    BY <2>1, <2>2, <2>4, NextGuarded DEF Guarded, FirstTickets
  <2> QED  BY <2>5
<1>4. CASE UNCHANGED joined
  BY <1>2, <1>4
<1> QED
  BY <1>2, <1>3, <1>4 DEF Next, Task, Advance, Begin, ImportCancelled, ImportFailed, Imported,
     Register, Publish, Unserve, Unbind, Settle, RecordFailure, Retire, ServeEvent,
     ServeCancelled, ServeClosed, User, ClearFinished, Cancel, Server, Connect, Ask,
     Disconnect, Complete, Abort, Lose, Consume, HearConnected, HearClosed, HearGet, GateBind,
     history, vars

\* For any sends, of the same bytes or not, that no ticket of an earlier run names: the
\* ticket of a send reaches a second device only after another send of the same bytes has
\* begun its teardown or has failed.  Up to then any number of sends, cancels and devices
\* share the maps without harm.
THEOREM OnlyRivalsShare ==
  ASSUME FirstTickets
  PROVE  Spec => []SharedByRivals
<1>1. Init => Guarded /\ SharedByRivals
  BY DEF Init, Guarded, SharedByRivals, Idle
<1>2. TypeOK /\ RequestsTracked /\ RegistrationIsLive /\ Guarded /\ SharedByRivals /\ [Next]_vars
      => (Guarded /\ SharedByRivals)'
  BY NextGuarded, NextShared
<1> QED
  BY <1>1, <1>2, Tracked, RegistrationsLive, PTL DEF Spec

-----------------------------------------------------------------------------
(* Sends of distinct content: the session each of them is.                 *)

\* The registration of a send is its own, from Register to Unserve.
Registered ==
    \A t \in Transfers :
        pc[t] \in {"publish", "serving", "unserve"} <=> serving[Content[t]] = t

\* Before its ticket is out nobody asks for its content, and no binding waits.
Untouched ==
    \A t \in Transfers :
        pc[t] \in {"none", "importing", "register", "publish"} =>
            /\ Content[t] \notin shared
            /\ bound[Content[t]] = None
            /\ joined[t] = {}

\* The gate binds a device it knows and, past the binding, still finds it there.
GateBound ==
    LET c == gate.conn
        h == req[c].hash
    IN  /\ gate.at = "bind" => conns[c] # None
        /\ gate.at = "route" /\ conns[c] # None /\ serving[h] # None
              => bound[h] = conns[c]

\* The device the gate is about to route to h.
InGate(h, d) ==
    gate.at = "route" /\ req[gate.conn].hash = h /\ conns[gate.conn] = d

\* While a send is registered its users are the bound device, which is in or at
\* the gate.
BoundIsUser ==
    \A t \in Transfers :
        LET h == Content[t] IN
        pc[t] \in {"serving", "unserve"} =>
            /\ joined[t] \subseteq {bound[h]}
            /\ bound[h] # None => bound[h] \in joined[t] \/ InGate(h, bound[h])

\* The loop is left for a reason.
StopAsked == \A t \in Transfers : pc[t] = "unserve" => token[t]

\* The inductive invariant of sends of distinct content, on top of Tracked.
SessionInv ==
    /\ Registered
    /\ Untouched
    /\ GateBound
    /\ BoundIsUser
    /\ StopAsked
    /\ OneRecipient

\* A new send has everything before it.
LEMMA InitSession ==
  ASSUME FirstTickets
  PROVE  Init => SessionInv
  BY DEF FirstTickets, Init, SessionInv, Registered, Untouched, GateBound, BoundIsUser,
         StopAsked, OneRecipient, Idle

\* Steps that leave the maps, the gate and its request alone, and move a task
\* neither into nor out of its registration.
LEMMA Calm ==
  ASSUME SessionInv,
         UNCHANGED <<serving, bound, conns, gate, shared, joined>>,
         gate.at # "idle" => req'[gate.conn] = req[gate.conn],
         \A t \in Transfers :
             /\ pc'[t] \in {"none", "importing", "register", "publish"} =>
                    pc[t] \in {"none", "importing", "register", "publish"}
             /\ pc'[t] = "publish" <=> pc[t] = "publish"
             /\ pc'[t] \in {"serving", "unserve"} <=> pc[t] \in {"serving", "unserve"}
             /\ pc'[t] = "unserve" => token'[t]
  PROVE  SessionInv'
<1>1. Registered'
  BY DEF SessionInv, Registered
<1>2. Untouched'
  BY DEF SessionInv, Untouched
<1>3. GateBound'
  <2>1. CASE gate.at = "idle"
    BY <2>1 DEF GateBound
  <2>2. CASE gate.at # "idle"
    BY <2>2 DEF SessionInv, GateBound
  <2> QED
    BY <2>1, <2>2
<1>4. \A h, d : InGate(h, d) => InGate(h, d)'
  BY DEF InGate
<1>5. BoundIsUser'
  BY <1>4 DEF SessionInv, BoundIsUser
<1>6. StopAsked' /\ OneRecipient'
  BY DEF SessionInv, StopAsked, OneRecipient
<1> QED
  BY <1>1, <1>2, <1>3, <1>5, <1>6 DEF SessionInv

\* The steps of a task other than those on the maps are calm.
LEMMA TaskCalm ==
  ASSUME TypeOK, SessionInv, NEW t \in Transfers,
         \/ Begin(t) \/ ImportCancelled(t) \/ ImportFailed(t) \/ Imported(t)
         \/ Settle(t) \/ RecordFailure(t) \/ Retire(t)
         \/ ServeEvent(t) \/ ServeCancelled(t) \/ ServeClosed(t)
  PROVE  SessionInv'
<1>1. UNCHANGED <<serving, bound, conns, gate, shared, joined, req, token>>
  BY DEF Begin, ImportCancelled, ImportFailed, Imported, Settle, RecordFailure,
         Retire, ServeEvent, ServeCancelled, ServeClosed, provider, history, maps
<1>2. ~ServeClosed(t)
  BY DEF SessionInv, Registered, ServeClosed, ChannelOpen, Goto
<1>3. \/ pc' = pc
      \/ \E to \in {"importing", "register", "retire", "failed", "ended"} :
             /\ pc[t] \in {"none", "importing", "settle", "failed", "retire"}
             /\ pc' = [pc EXCEPT ![t] = to]
             /\ to \in {"importing", "register"} => pc[t] \in {"none", "importing"}
      \/ pc[t] = "serving" /\ token[t] /\ pc' = [pc EXCEPT ![t] = "unserve"]
  BY <1>2 DEF Begin, ImportCancelled, ImportFailed, Imported, Settle, RecordFailure,
         Retire, ServeEvent, ServeCancelled, CancelSeen, Goto
<1>4. pc \in [Transfers -> Phases]
  BY DEF TypeOK
<1>5. \A u \in Transfers :
         /\ pc'[u] \in {"none", "importing", "register", "publish"} =>
                pc[u] \in {"none", "importing", "register", "publish"}
         /\ pc'[u] = "publish" <=> pc[u] = "publish"
         /\ pc'[u] \in {"serving", "unserve"} <=> pc[u] \in {"serving", "unserve"}
         /\ pc'[u] = "unserve" => pc[u] = "unserve" \/ token[u]
  BY <1>3, <1>4
<1>6. \A u \in Transfers : pc'[u] = "unserve" => token'[u]
  BY <1>1, <1>5 DEF SessionInv, StopAsked
<1> QED
  BY <1>1, <1>5, <1>6, Calm

\* So are the user and the blob server.
LEMMA OthersCalm ==
  ASSUME TypeOK, RequestsTracked, SessionInv,
         User \/ (\E c \in Conns : Server(c)) \/ UNCHANGED vars
  PROVE  SessionInv'
<1>1. UNCHANGED <<pc, serving, bound, conns, gate, shared, joined>>
  BY DEF User, ClearFinished, Cancel, Server, Connect, Ask, Disconnect, Complete,
         Abort, Lose, vars, task, maps, provider, history
<1>2. \A t \in Transfers : token[t] => token'[t]
  BY DEF TypeOK, User, ClearFinished, Cancel, Server, Connect, Ask, Disconnect,
         Complete, Abort, Lose, vars, task
<1>3. \A c \in Conns : req[c].st = "pending" => req'[c] = req[c]
  BY DEF TypeOK, User, ClearFinished, Cancel, Server, Connect, Ask, Disconnect,
         Complete, Abort, Lose, vars, provider
<1>4. gate.at # "idle" => req'[gate.conn] = req[gate.conn]
  BY <1>3 DEF RequestsTracked
<1>5. \A t \in Transfers : pc[t] = "unserve" => token'[t]
  BY <1>2 DEF SessionInv, StopAsked
<1> QED
  BY <1>1, <1>4, <1>5, Calm

\* Register: the content is new to the maps and to the gate.
LEMMA RegisterSession ==
  ASSUME DistinctContent, TypeOK, RequestsTracked, SessionInv,
         NEW t \in Transfers, Register(t)
  PROVE  SessionInv'
<1> DEFINE h == Content[t]
<1>0. /\ h \in Hashes
      /\ pc[t] = "register" /\ pc' = [pc EXCEPT ![t] = "publish"]
      /\ serving' = [serving EXCEPT ![h] = t]
      /\ UNCHANGED <<token, bound, conns, gate, req, shared, joined>>
      /\ \A u \in Transfers : Content[u] = h => u = t
  BY DEF Register, Goto, provider, history, DistinctContent
<1>1. Registered'
  BY <1>0 DEF SessionInv, TypeOK, Registered
<1>2. Untouched'
  BY <1>0 DEF SessionInv, TypeOK, Untouched
<1>3. gate.at # "idle" => req[gate.conn].hash # h
  BY <1>0 DEF SessionInv, Untouched, RequestsTracked
<1>4. GateBound'
  <2>1. \A g \in Hashes : g # h => serving'[g] = serving[g]
    BY <1>0 DEF TypeOK
  <2>2. gate.at # "idle" => req[gate.conn].hash \in Hashes
    BY DEF TypeOK, RequestsTracked
  <2> QED
    BY <1>0, <1>3, <2>1, <2>2 DEF SessionInv, GateBound
<1>5. BoundIsUser'
  BY <1>0 DEF SessionInv, TypeOK, BoundIsUser, InGate
<1>6. StopAsked' /\ OneRecipient'
  BY <1>0 DEF SessionInv, TypeOK, StopAsked, OneRecipient
<1> QED
  BY <1>1, <1>2, <1>4, <1>5, <1>6 DEF SessionInv

\* Publish: the content is announced, and nobody has asked yet.
LEMMA PublishSession ==
  ASSUME DistinctContent, TypeOK, RequestsTracked, SessionInv,
         NEW t \in Transfers, Publish(t)
  PROVE  SessionInv'
<1> DEFINE h == Content[t]
<1>0. /\ pc[t] = "publish" /\ pc' = [pc EXCEPT ![t] = "serving"]
      /\ shared' = shared \cup {h}
      /\ UNCHANGED <<token, serving, bound, conns, gate, req, joined>>
      /\ \A u \in Transfers : Content[u] = h => u = t
  BY DEF Publish, Goto, provider, DistinctContent
<1>1. Registered'
  BY <1>0 DEF SessionInv, TypeOK, Registered
<1>2. Untouched'
  BY <1>0 DEF SessionInv, TypeOK, Untouched
<1>3. GateBound'
  BY <1>0 DEF SessionInv, GateBound
<1>4. BoundIsUser'
  <2>1. bound[h] = None /\ joined[t] = {}
    BY <1>0 DEF SessionInv, Untouched
  <2> QED
    BY <1>0, <2>1 DEF SessionInv, TypeOK, BoundIsUser, InGate
<1>5. StopAsked' /\ OneRecipient'
  BY <1>0 DEF SessionInv, TypeOK, StopAsked, OneRecipient
<1> QED
  BY <1>1, <1>2, <1>3, <1>4, <1>5 DEF SessionInv

\* Unserve: the session is over, its binding still stands.
LEMMA UnserveSession ==
  ASSUME DistinctContent, TypeOK, RequestsTracked, SessionInv,
         NEW t \in Transfers, Unserve(t)
  PROVE  SessionInv'
<1> DEFINE h == Content[t]
<1>0. /\ h \in Hashes
      /\ pc[t] = "unserve" /\ pc' = [pc EXCEPT ![t] = "unbind"]
      /\ serving' = [serving EXCEPT ![h] = None]
      /\ UNCHANGED <<token, bound, conns, gate, req, shared, joined>>
      /\ \A u \in Transfers : Content[u] = h => u = t
  BY DEF Unserve, Goto, provider, history, DistinctContent
<1>1. Registered'
  BY <1>0 DEF SessionInv, TypeOK, Registered
<1>2. Untouched'
  BY <1>0 DEF SessionInv, TypeOK, Untouched
<1>3. GateBound'
  <2>1. \A g \in Hashes : serving'[g] \in {serving[g], None}
    BY <1>0 DEF TypeOK
  <2>2. gate.at # "idle" => req[gate.conn].hash \in Hashes
    BY DEF TypeOK, RequestsTracked
  <2> QED
    BY <1>0, <2>1, <2>2 DEF SessionInv, GateBound
<1>4. BoundIsUser'
  BY <1>0 DEF SessionInv, TypeOK, BoundIsUser, InGate
<1>5. StopAsked' /\ OneRecipient'
  BY <1>0 DEF SessionInv, TypeOK, StopAsked, OneRecipient
<1> QED
  BY <1>1, <1>2, <1>3, <1>4, <1>5 DEF SessionInv

\* Unbind: nobody is registered for the content any more.
LEMMA UnbindSession ==
  ASSUME DistinctContent, TypeOK, RequestsTracked, RegistrationIsLive, SessionInv,
         NEW t \in Transfers, Unbind(t)
  PROVE  SessionInv'
<1> DEFINE h == Content[t]
<1>0. /\ h \in Hashes
      /\ pc[t] = "unbind" /\ pc' = [pc EXCEPT ![t] = "settle"]
      /\ bound' = [bound EXCEPT ![h] = None]
      /\ UNCHANGED <<token, serving, conns, gate, req, shared, joined>>
      /\ \A u \in Transfers : Content[u] = h => u = t
  BY DEF Unbind, Goto, provider, history, DistinctContent
<1>1. Registered'
  BY <1>0 DEF SessionInv, TypeOK, Registered
<1>2. Untouched'
  BY <1>0 DEF SessionInv, TypeOK, Untouched
<1>3. serving[h] = None
  <2>1. \A u \in Transfers : serving[h] # u
    <3> SUFFICES ASSUME NEW u \in Transfers, serving[h] = u PROVE FALSE
      OBVIOUS
    <3>1. Content[u] = h
      BY <1>0, NoneAssumption DEF RegistrationIsLive
    <3> QED
      BY <1>0, <3>1 DEF SessionInv, Registered
  <2> QED
    BY <1>0, <2>1 DEF TypeOK
<1>4. GateBound'
  <2>1. \A g \in Hashes : g # h => bound'[g] = bound[g]
    BY <1>0 DEF TypeOK
  <2>2. gate.at # "idle" => req[gate.conn].hash \in Hashes
    BY DEF TypeOK, RequestsTracked
  <2> QED
    BY <1>0, <1>3, <2>1, <2>2 DEF SessionInv, GateBound
<1>5. BoundIsUser'
  BY <1>0 DEF SessionInv, TypeOK, BoundIsUser, InGate
<1>6. StopAsked' /\ OneRecipient'
  BY <1>0 DEF SessionInv, TypeOK, StopAsked, OneRecipient
<1> QED
  BY <1>1, <1>2, <1>4, <1>5, <1>6 DEF SessionInv

\* The consumer starts on a message: no binding moves.
LEMMA HearSession ==
  ASSUME TypeOK, RequestsTracked, SessionInv, NEW c \in Conns,
         HearConnected(c) \/ HearClosed(c) \/ HearGet(c)
  PROVE  SessionInv'
<1>0. /\ UNCHANGED <<pc, token, serving, bound, req, shared, joined>>
      /\ gate.at = "idle"
  BY DEF HearConnected, HearClosed, HearGet, Hear, task, maps, history
<1>1. Registered' /\ Untouched' /\ StopAsked' /\ OneRecipient'
  BY <1>0 DEF SessionInv, Registered, Untouched, StopAsked, OneRecipient
<1>2. GateBound'
  <2>1. CASE HearConnected(c) \/ HearClosed(c)
    BY <1>0, <2>1 DEF GateBound, HearConnected, HearClosed
  <2>2. CASE HearGet(c)
    <3>1. /\ gate' = [at |-> IF Ungated(c) THEN "route" ELSE "bind", conn |-> c]
          /\ UNCHANGED conns
      BY <2>2 DEF HearGet, GatedAt, maps
    <3>2. gate'.conn = c /\ gate'.at = IF Ungated(c) THEN "route" ELSE "bind"
      BY <3>1
    <3> QED
      BY <1>0, <3>1, <3>2 DEF GateBound, Ungated
  <2> QED
    BY <2>1, <2>2
<1>3. BoundIsUser'
  BY <1>0 DEF SessionInv, BoundIsUser, InGate
<1> QED
  BY <1>1, <1>2, <1>3 DEF SessionInv

\* The lock on bound: a free ticket goes to the device at the gate.
LEMMA BindSession ==
  ASSUME DistinctContent, TypeOK, RequestsTracked, SessionInv,
         NEW c \in Conns, GateBind(c)
  PROVE  SessionInv'
<1> DEFINE h == req[c].hash
<1>0. /\ gate.at = "bind" /\ gate.conn = c
      /\ UNCHANGED <<pc, token, serving, conns, shared, joined>>
      /\ h \in Hashes /\ h \in shared
      /\ conns[c] # None
  BY DEF SessionInv, GateBind, GateBound, RequestsTracked, TypeOK, task, history
<1>1. Registered' /\ StopAsked' /\ OneRecipient'
  BY <1>0 DEF SessionInv, Registered, StopAsked, OneRecipient
<1>2. CASE bound[h] \in {None, conns[c]} /\ UNCHANGED req
           /\ bound' = [bound EXCEPT ![h] = conns[c]]
           /\ gate' = [at |-> "route", conn |-> c]
  <2>1. /\ \A g \in Hashes : g # h => bound'[g] = bound[g]
        /\ bound'[h] = conns[c]
        /\ gate'.at = "route" /\ gate'.conn = c
    BY <1>0, <1>2 DEF TypeOK
  <2>2. Untouched'
    BY <1>0, <2>1 DEF SessionInv, Untouched, TypeOK
  <2>3. GateBound'
    BY <1>0, <1>2, <2>1 DEF GateBound
  <2>4. BoundIsUser'
    <3> SUFFICES ASSUME NEW t \in Transfers, pc[t] \in {"serving", "unserve"}
                 PROVE  /\ joined[t] \subseteq {bound'[Content[t]]}
                        /\ bound'[Content[t]] # None =>
                              \/ bound'[Content[t]] \in joined[t]
                              \/ /\ gate'.at = "route"
                                 /\ req'[gate'.conn].hash = Content[t]
                                 /\ conns[gate'.conn] = bound'[Content[t]]
      BY <1>0 DEF BoundIsUser, InGate
    <3>1. CASE Content[t] # h
      <4>1. Content[t] \in Hashes /\ bound'[Content[t]] = bound[Content[t]]
        BY <2>1, <3>1
      <4> QED
        BY <1>0, <4>1 DEF SessionInv, BoundIsUser, InGate
    <3>2. CASE Content[t] = h
      <4>1. joined[t] \subseteq {bound[h]} /\ joined[t] \subseteq Devices
        BY <3>2 DEF SessionInv, BoundIsUser, TypeOK
      <4>2. joined[t] \subseteq {conns[c]}
        BY <1>2, <4>1
      <4> QED
        BY <1>0, <1>2, <2>1, <3>2, <4>2
    <3> QED
      BY <3>1, <3>2
  <2> QED
    BY <1>1, <2>2, <2>3, <2>4 DEF SessionInv
<1>3. CASE gate' = Idle /\ UNCHANGED bound
  <2>1. gate'.at = "idle"
    BY <1>3 DEF Idle
  <2>2. Untouched' /\ GateBound'
    BY <1>0, <1>3, <2>1 DEF SessionInv, Untouched, GateBound
  <2>3. BoundIsUser'
    BY <1>0, <1>3 DEF SessionInv, BoundIsUser, InGate
  <2> QED
    BY <1>1, <2>2, <2>3 DEF SessionInv
<1> QED
  BY <1>2, <1>3 DEF GateBind, Admits

\* The device a request is routed for, if it has a name and a send to go to, is
\* the bound one, and the send is open.
LEMMA RoutedIsBound ==
  ASSUME DistinctContent, TypeOK, RequestsTracked, RegistrationIsLive, SessionInv,
         NEW c \in Conns, GateRoute(c),
         serving[req[c].hash] # None, conns[c] # None
  PROVE  LET t == serving[req[c].hash] IN
         /\ t \in Transfers
         /\ Content[t] = req[c].hash
         /\ pc[t] \in {"serving", "unserve"}
         /\ bound[req[c].hash] = conns[c]
         /\ joined[t] \subseteq {conns[c]}
<1> DEFINE h == req[c].hash
           t == serving[h]
<1>1. gate.at = "route" /\ gate.conn = c
  BY DEF GateRoute
<1>2. h \in Hashes /\ h \in shared
  BY <1>1 DEF RequestsTracked, TypeOK
<1>3. t \in Transfers /\ Content[t] = h /\ pc[t] \in {"publish", "serving", "unserve"}
  BY <1>2 DEF TypeOK, RegistrationIsLive
<1>4. pc[t] # "publish"
  BY <1>2, <1>3 DEF SessionInv, Untouched
<1>5. bound[h] = conns[c]
  BY <1>1 DEF SessionInv, GateBound
<1>6. joined[t] \subseteq {bound[h]}
  BY <1>3, <1>4 DEF SessionInv, BoundIsUser
<1> QED
  BY <1>3, <1>4, <1>5, <1>6

\* Route: the device at the gate becomes the user of the send.
LEMMA RouteSession ==
  ASSUME DistinctContent, TypeOK, RequestsTracked, RegistrationIsLive, SessionInv,
         NEW c \in Conns, GateRoute(c)
  PROVE  SessionInv'
<1> DEFINE h == req[c].hash
           t == serving[h]
<1>0. /\ gate.at = "route" /\ gate.conn = c /\ gate'.at = "idle"
      /\ UNCHANGED <<pc, token, serving, bound, conns, shared>>
      /\ h \in Hashes
  BY DEF GateRoute, Idle, RequestsTracked, TypeOK, maps
<1>1. Registered' /\ StopAsked' /\ GateBound'
  BY <1>0 DEF SessionInv, Registered, StopAsked, GateBound
<1>2. CASE t = None \/ conns[c] = None
  <2>1. joined' = joined
    BY <1>2 DEF GateRoute
  <2>2. Untouched' /\ OneRecipient'
    BY <1>0, <2>1 DEF SessionInv, Untouched, OneRecipient
  <2>3. \A u \in Transfers : pc[u] \in {"serving", "unserve"} /\ bound[Content[u]] # None
           => ~InGate(Content[u], bound[Content[u]])
    <3> SUFFICES ASSUME NEW u \in Transfers, pc[u] \in {"serving", "unserve"},
                        bound[Content[u]] # None,
                        InGate(Content[u], bound[Content[u]])
                 PROVE  FALSE
      OBVIOUS
    <3>1. h = Content[u] /\ conns[c] = bound[Content[u]]
      BY <1>0 DEF InGate
    <3>2. t = u
      BY <3>1 DEF SessionInv, Registered
    <3> QED
      BY <1>2, <3>1, <3>2, NoneAssumption
  <2>4. BoundIsUser'
    BY <1>0, <2>1, <2>3 DEF SessionInv, BoundIsUser
  <2> QED
    BY <1>1, <2>2, <2>4 DEF SessionInv
<1>3. CASE t # None /\ conns[c] # None
  <2>1. /\ t \in Transfers /\ Content[t] = h /\ pc[t] \in {"serving", "unserve"}
        /\ bound[h] = conns[c] /\ joined[t] \subseteq {conns[c]}
    BY <1>3, RoutedIsBound
  <2>2. /\ joined'[t] = {conns[c]}
        /\ \A u \in Transfers : u # t => joined'[u] = joined[u]
    BY <1>3, <2>1 DEF GateRoute, TypeOK
  <2>3. Untouched'
    BY <1>0, <2>1, <2>2 DEF SessionInv, Untouched
  <2>4. OneRecipient'
    BY <2>2 DEF SessionInv, OneRecipient
  <2>5. BoundIsUser'
    <3>1. \A u \in Transfers : u # t => Content[u] # h
      BY <2>1 DEF DistinctContent
    <3>2. \A u \in Transfers : u # t => ~InGate(Content[u], bound[Content[u]])
      BY <1>0, <3>1 DEF InGate
    <3> QED
      BY <1>0, <2>1, <2>2, <3>2 DEF SessionInv, BoundIsUser
  <2> QED
    BY <1>1, <2>3, <2>4, <2>5 DEF SessionInv
<1> QED
  BY <1>2, <1>3

\* The inductive step.
LEMMA NextSession ==
  ASSUME DistinctContent, TypeOK, RequestsTracked, RegistrationIsLive, SessionInv,
         [Next]_vars
  PROVE  SessionInv'
<1>1. ASSUME NEW t \in Transfers, Task(t)
      PROVE  SessionInv'
  BY <1>1, TaskCalm, RegisterSession, PublishSession, UnserveSession, UnbindSession
     DEF Task, Advance
<1>2. CASE User \/ (\E c \in Conns : Server(c)) \/ UNCHANGED vars
  BY <1>2, OthersCalm
<1>3. ASSUME NEW c \in Conns, Consume(c)
      PROVE  SessionInv'
  BY <1>3, HearSession, BindSession, RouteSession DEF Consume
<1> QED
  BY <1>1, <1>2, <1>3 DEF Next

\* The session invariant holds in every reachable state.
LEMMA SessionInvariant ==
  ASSUME DistinctContent, FirstTickets
  PROVE  Spec => [](TypeOK /\ RequestsTracked /\ RegistrationIsLive /\ SessionInv)
<1>1. TypeOK /\ RequestsTracked /\ RegistrationIsLive /\ SessionInv /\ [Next]_vars
      => SessionInv'
  BY NextSession
<1> QED
  BY <1>1, InitSession, Tracked, RegistrationsLive, PTL DEF Spec

\* Sends of distinct content that no older ticket names serve one device each, however
\* the requests of several devices, the three locks of the gate and the teardown of the
\* send interleave.  Two sends of the same content do not (the run SendServe_rivals).
THEOREM OneRecipientHolds ==
  ASSUME DistinctContent, FirstTickets
  PROVE  Spec => []OneRecipient
<1>1. SessionInv => OneRecipient
  BY DEF SessionInv
<1> QED
  BY <1>1, SessionInvariant, PTL

\* And the device that is let in is the first comer: a denial always has another
\* user of this very send as its reason.
THEOREM FirstComerHolds ==
  ASSUME DistinctContent, FirstTickets
  PROVE  Spec => FirstComerServed
<1> DEFINE Denial ==
      \A c \in Conns :
          LET h == req[c].hash IN
          (/\ gate = [at |-> "bind", conn |-> c]
           /\ gate' = Idle
           /\ serving[h] # None)
          => joined[serving[h]] \ {conns[c]} # {}
<1>1. TypeOK /\ RequestsTracked /\ RegistrationIsLive /\ SessionInv /\ [Next]_vars
      => [Denial]_vars
  <2> SUFFICES ASSUME TypeOK, RequestsTracked, RegistrationIsLive, SessionInv, Next,
                      NEW c \in Conns, gate = [at |-> "bind", conn |-> c],
                      gate' = Idle, serving[req[c].hash] # None
               PROVE  joined[serving[req[c].hash]] \ {conns[c]} # {}
    OBVIOUS
  <2> DEFINE h == req[c].hash
             t == serving[h]
  <2>1. gate.at = "bind" /\ gate.conn = c /\ h \in Hashes /\ h \in shared
    BY DEF RequestsTracked, TypeOK
  <2>2. GateBind(c)
    <3>1. gate'.at = "idle"
      BY DEF Idle
    <3>2. gate' # gate
      BY <2>1, <3>1
    <3>3. \E d \in Conns : HearGet(d) \/ GateBind(d) \/ GateRoute(d)
      BY <3>2 DEF Next, Task, Advance, Begin, ImportCancelled, ImportFailed, Imported,
         Register, Publish, Unserve, Unbind, Settle, RecordFailure, Retire,
         ServeEvent, ServeCancelled, ServeClosed, User, ClearFinished, Cancel,
         Server, Connect, Ask, Disconnect, Complete, Abort, Lose, Consume,
         HearConnected, HearClosed, provider
    <3> QED
      BY <2>1, <3>3 DEF HearGet, Hear, GateBind, GateRoute
  <2>3. bound[h] \notin {None, conns[c]}
    BY <2>2 DEF GateBind, Idle, Admits
  <2>4. /\ t \in Transfers /\ Content[t] = h
        /\ pc[t] \in {"publish", "serving", "unserve"}
    BY <2>1 DEF TypeOK, RegistrationIsLive
  <2>5. pc[t] \in {"serving", "unserve"}
    BY <2>1, <2>4 DEF SessionInv, Untouched
  <2>6. bound[h] \in joined[t]
    BY <2>1, <2>3, <2>4, <2>5 DEF SessionInv, BoundIsUser, InGate
  <2> QED
    BY <2>3, <2>6
<1> QED
  BY <1>1, SessionInvariant, PTL DEF Spec, FirstComerServed

-----------------------------------------------------------------------------
(* The refinement of TicketSession.                                        *)

\* Phases, users and stops that do not change make a stutter of the session.
LEMMA PhaseSame ==
  ASSUME NEW t \in Transfers, NEW to \in Phases, pc \in [Transfers -> Phases],
         pc' = [pc EXCEPT ![t] = to],
         \/ {pc[t], to} \subseteq {"none", "importing", "register"}
         \/ {pc[t], to} \subseteq {"publish", "serving", "unserve"}
         \/ {pc[t], to} \cap {"none", "importing", "register",
                              "publish", "serving", "unserve"} = {}
  PROVE  SessionPhase' = SessionPhase
<1>1. \A u \in Transfers : u # t => pc'[u] = pc[u]
  OBVIOUS
<1>2. pc'[t] = to
  OBVIOUS
<1> QED
  BY <1>1, <1>2 DEF SessionPhase

\* Other moves of a task change the phase of its send alone.
LEMMA PhaseMoves ==
  ASSUME NEW t \in Transfers, NEW to \in Phases, pc \in [Transfers -> Phases],
         pc' = [pc EXCEPT ![t] = to], NEW p,
         p = CASE to \in {"none", "importing", "register"} -> "idle"
               [] to \in {"publish", "serving", "unserve"} -> "open"
               [] OTHER -> "closed"
  PROVE  SessionPhase' = [SessionPhase EXCEPT ![t] = p]
  BY DEF SessionPhase

\* A step of a task opens, abandons or closes its session, or is a stutter.
LEMMA TaskRefines ==
  ASSUME TypeOK, SessionInv, NEW t \in Transfers, Task(t)
  PROVE  [Session!Next]_Session!vars
<1>0. pc \in [Transfers -> Phases]
  BY DEF TypeOK
<1>1. UNCHANGED <<token, joined>>
  BY DEF Task, Advance, Begin, ImportCancelled, ImportFailed, Imported,
         Register, Publish, Unserve, Unbind, Settle, RecordFailure, Retire,
         ServeEvent, ServeCancelled, ServeClosed, history
<1>2. CASE Register(t)
  <2>1. pc[t] = "register" /\ pc' = [pc EXCEPT ![t] = "publish"]
    BY <1>2 DEF Register, Goto
  <2>2. SessionPhase' = [SessionPhase EXCEPT ![t] = "open"]
    BY <1>0, <2>1, PhaseMoves DEF Phases
  <2>3. SessionPhase[t] = "idle"
    BY <2>1 DEF SessionPhase
  <2> QED
    BY <1>1, <2>2, <2>3 DEF Session!Next, Session!Open
<1>3. CASE ImportCancelled(t) \/ ImportFailed(t)
  <2>1. /\ pc[t] = "importing"
        /\ \/ pc' = [pc EXCEPT ![t] = "retire"]
           \/ pc' = [pc EXCEPT ![t] = "failed"]
    BY <1>3 DEF ImportCancelled, ImportFailed, Goto
  <2>2. SessionPhase' = [SessionPhase EXCEPT ![t] = "closed"]
    BY <1>0, <2>1, PhaseMoves DEF Phases
  <2>3. SessionPhase[t] = "idle"
    BY <2>1 DEF SessionPhase
  <2> QED
    BY <1>1, <2>2, <2>3 DEF Session!Next, Session!Abandon
<1>4. CASE Unserve(t)
  <2>1. pc[t] = "unserve" /\ pc' = [pc EXCEPT ![t] = "unbind"]
    BY <1>4 DEF Unserve, Goto
  <2>2. SessionPhase' = [SessionPhase EXCEPT ![t] = "closed"]
    BY <1>0, <2>1, PhaseMoves DEF Phases
  <2>3. SessionPhase[t] = "open" /\ token[t]
    BY <2>1 DEF SessionPhase, SessionInv, StopAsked
  <2> QED
    BY <1>1, <2>2, <2>3 DEF Session!Next, Session!Close
<1>5. CASE ~Register(t) /\ ~ImportCancelled(t) /\ ~ImportFailed(t) /\ ~Unserve(t)
  <2>1. \/ pc' = pc
        \/ \E to \in Phases :
              /\ pc' = [pc EXCEPT ![t] = to]
              /\ \/ {pc[t], to} \subseteq {"none", "importing", "register"}
                 \/ {pc[t], to} \subseteq {"publish", "serving", "unserve"}
                 \/ {pc[t], to} \cap {"none", "importing", "register",
                                      "publish", "serving", "unserve"} = {}
    BY <1>5 DEF Task, Advance, Begin, Imported, Publish, Unbind, Settle,
         RecordFailure, Retire, ServeEvent, ServeCancelled, ServeClosed, Goto, Phases
  <2>2. SessionPhase' = SessionPhase
    <3>1. CASE pc' = pc
      BY <3>1 DEF SessionPhase
    <3> QED
      BY <1>0, <2>1, <3>1, PhaseSame
  <2> QED
    BY <1>1, <2>2 DEF Session!vars
<1> QED
  BY <1>2, <1>3, <1>4, <1>5

\* Every step is one of the ticket session, or a stutter.
LEMMA NextRefines ==
  ASSUME DistinctContent, TypeOK, RequestsTracked, RegistrationIsLive, SessionInv,
         [Next]_vars
  PROVE  [Session!Next]_Session!vars
<1>1. ASSUME NEW t \in Transfers, Task(t)
      PROVE  [Session!Next]_Session!vars
  BY <1>1, TaskRefines
<1>2. ASSUME NEW t \in Transfers, Cancel(t)
      PROVE  [Session!Next]_Session!vars
  <2>1. SessionPhase' = SessionPhase /\ UNCHANGED joined
    BY <1>2 DEF Cancel, SessionPhase, history
  <2> QED
    BY <1>2, <2>1 DEF Cancel, Session!Next, Session!Stop
<1>3. CASE UNCHANGED <<pc, token, joined>>
  <2>1. SessionPhase' = SessionPhase
    BY <1>3 DEF SessionPhase
  <2> QED
    BY <1>3, <2>1 DEF Session!vars
<1>4. CASE ClearFinished \/ (\E c \in Conns : Server(c)) \/ UNCHANGED vars
  BY <1>3, <1>4 DEF ClearFinished, Server, Connect, Ask, Disconnect, Complete,
     Abort, Lose, vars, task, history
<1>5. ASSUME NEW c \in Conns,
             HearConnected(c) \/ HearClosed(c) \/ HearGet(c) \/ GateBind(c)
      PROVE  [Session!Next]_Session!vars
  BY <1>3, <1>5 DEF HearConnected, HearClosed, HearGet, GateBind, task, history
<1>6. ASSUME NEW c \in Conns, GateRoute(c)
      PROVE  [Session!Next]_Session!vars
  <2> DEFINE t == serving[req[c].hash]
  <2>1. SessionPhase' = SessionPhase /\ UNCHANGED <<pc, token>>
    BY <1>6 DEF GateRoute, SessionPhase
  <2>2. CASE t = None \/ conns[c] = None
    BY <1>3, <1>6, <2>1, <2>2 DEF GateRoute
  <2>3. CASE t # None /\ conns[c] # None
    <3>1. /\ t \in Transfers /\ pc[t] \in {"serving", "unserve"}
          /\ joined[t] \subseteq {conns[c]}
      BY <1>6, <2>3, RoutedIsBound
    <3>2. joined' = [joined EXCEPT ![t] = {conns[c]}]
      BY <1>6, <2>3, <3>1 DEF GateRoute
    <3>3. SessionPhase[t] = "open" /\ conns[c] \in Devices
      BY <2>3, <3>1 DEF SessionPhase, TypeOK
    <3> QED
      BY <2>1, <3>1, <3>2, <3>3 DEF Session!Next, Session!Admit
  <2> QED
    BY <2>2, <2>3
<1> QED
  BY <1>1, <1>2, <1>4, <1>5, <1>6 DEF Next, User, Consume

\* run_send, its registration and the gate implement a ticket session for every
\* number of sends of distinct content that no older ticket names: each opens once, lets
\* one device in, and closes only after its token was cancelled.
THEOREM SessionRefinement ==
  ASSUME DistinctContent, FirstTickets
  PROVE  Spec => ImplementsSession
<1>1. Init => Session!Init
  BY DEF Init, Session!Init, SessionPhase
<1>2. TypeOK /\ RequestsTracked /\ RegistrationIsLive /\ SessionInv /\ [Next]_vars
      => [Session!Next]_Session!vars
  BY NextRefines
<1> QED
  BY <1>1, <1>2, SessionInvariant, PTL DEF Spec, ImplementsSession, Session!Spec

=============================================================================
