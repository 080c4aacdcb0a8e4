--------------------------- MODULE Nearby_proofs ----------------------------
(***************************************************************************)
(* What TLAPS proves about Nearby, for any number of sessions and devices, *)
(* of names and of waiting events.                                         *)
(***************************************************************************)
EXTENDS Nearby, TLAPS, SequenceTheorems

USE DeviceAssumption, BoundAssumption

\* How the flag, the registration and the subscription of a session stand while
\* an operation holds its lock.  A rename has set the new name before the old
\* advertisement is withdrawn, so only there do the two names differ.
Standing ==
    \A c \in Cores :
        /\ op[c] = "free" => /\ (running[c] <=> registered[c] # None)
                             /\ (running[c] <=> c \in subscribers)
        /\ op[c] = "starting" => /\ registered[c] = None /\ ~running[c] /\ c \notin subscribers
        /\ op[c] \in {"ensure", "browse", "claim", "subscribe"} =>
              registered[c] = name[c] /\ running[c] /\ c \notin subscribers
        /\ op[c] = "unregister" => registered[c] # None /\ ~running[c]
        /\ op[c] \in {"unsubscribe", "clear"} => registered[c] = None /\ ~running[c]
        /\ op[c] = "clear" => c \notin subscribers
        /\ op[c] # "unregister" => registered[c] \in {None, name[c]}

\* The first state is well typed.
LEMMA InitType == Init => TypeOK
<1> SUFFICES ASSUME Init PROVE TypeOK
  OBVIOUS
<1>1. 0 \in Versions
  BY DEF Versions
<1>2. chan \in [Cores -> Seq(Events)]
  <2>1. <<>> \in Seq(Events)
    OBVIOUS
  <2> QED  BY <2>1 DEF Init
<1>3. name \in [Devices -> Versions] /\ table \in [Cores -> [Devices -> Versions \cup {None}]]
  BY <1>1 DEF Init, Free
<1> QED  BY <1>2, <1>3 DEF Init, TypeOK, Ops

\* What an event leaves of a table is a table.
LEMMA FoldedType ==
  ASSUME NEW t \in [Devices -> Versions \cup {None}], NEW e \in Events
  PROVE  Folded(t, e[1], e[2][1], e[2][2]) \in [Devices -> Versions \cup {None}]
<1>1. e[1] \in {"resolved", "removed"} /\ e[2][1] \in Devices /\ e[2][2] \in Versions
  BY DEF Events, Instances
<1> QED  BY <1>1 DEF Folded

\* A pending event is of some instance.
LEMMA EmitType ==
  ASSUME TypeOK, Room, NEW k \in {"resolved", "removed"}, NEW i \in Instances,
         Emit(<<k, i>>)
  PROVE  chan' \in [Cores -> Seq(Events)]
<1>1. <<k, i>> \in Events
  BY DEF Events
<1>2. listener \in Cores /\ chan[listener] \in Seq(Events)
  BY DEF TypeOK, Room
<1>3. Append(chan[listener], <<k, i>>) \in Seq(Events)
  BY <1>1, <1>2
<1> QED  BY <1>3 DEF Emit, TypeOK

\* Every step is well typed.
LEMMA NextType ==
  ASSUME TypeOK, Standing, [Next]_vars
  PROVE  TypeOK'
<1> USE DEF session, browse, reading, network, history
<1>1. ASSUME NEW c \in Cores, StartNearby(c) \/ RegisterFails(c) \/ EnsureBrowse(c) \/ BrowseFails(c)
      PROVE  TypeOK'
  BY <1>1 DEF TypeOK, StartNearby, RegisterFails, EnsureBrowse, BrowseFails, Goto, Ops
<1>2. ASSUME NEW c \in Cores, Register(c)
      PROVE  TypeOK'
  <2>1. c \in Devices /\ name[c] \in Versions /\ <<c, name[c]>> \in Instances
    BY DEF TypeOK, Devices, Instances
  <2> QED  BY <1>2, <2>1 DEF TypeOK, Register, Goto, Ops
<1>3. ASSUME NEW c \in Cores, Browse(c)
      PROVE  TypeOK'
  BY <1>3 DEF TypeOK, Browse, Goto, Ops
<1>4. ASSUME NEW c \in Cores, Claim(c)
      PROVE  TypeOK'
  BY <1>4 DEF TypeOK, Claim, Goto, Ops
<1>5. ASSUME NEW c \in Cores, Subscribe(c)
      PROVE  TypeOK'
  BY <1>5 DEF TypeOK, Subscribe, Goto, Ops, Free
<1>6. ASSUME NEW c \in Cores, StopNearby(c)
      PROVE  TypeOK'
  BY <1>6 DEF TypeOK, StopNearby, Stop, Goto, Ops
<1>7. ASSUME NEW c \in Cores, Rename(c)
      PROVE  TypeOK'
  <2>1. name' \in [Devices -> Versions]
    <3>1. c \in Devices /\ name[c] \in 0..Renames /\ name[c] < Renames
      BY <1>7 DEF TypeOK, Rename, Versions, Devices
    <3>2. name[c] + 1 \in Versions
      BY <3>1 DEF Versions
    <3> QED  BY <1>7, <3>2 DEF TypeOK, Rename
  <2>2. op' \in [Cores -> Ops] /\ renaming' \in [Cores -> BOOLEAN] /\ running' \in [Cores -> BOOLEAN]
    BY <1>7 DEF TypeOK, Rename, Stop, Goto, Ops
  <2> QED  BY <1>7, <2>1, <2>2 DEF TypeOK, Rename
<1>8. ASSUME NEW c \in Cores, Unregister(c)
      PROVE  TypeOK'
  <2>1. registered[c] \in Versions /\ c \in Devices
    BY <1>8 DEF TypeOK, Standing, Unregister, Goto, Devices
  <2>2. <<c, registered[c]>> \in Instances
    BY <2>1 DEF Instances
  <2>3. net' \subseteq Instances /\ leaked' \subseteq Instances
    BY <1>8, <2>2 DEF TypeOK, Unregister
  <2>4. op' \in [Cores -> Ops] /\ registered' \in [Cores -> Versions \cup {None}]
    BY <1>8 DEF TypeOK, Unregister, Goto, Ops
  <2> QED  BY <1>8, <2>3, <2>4 DEF TypeOK, Unregister
<1>9. ASSUME NEW c \in Cores, Unsubscribe(c) \/ Clear(c)
      PROVE  TypeOK'
  <2>1. op' \in [Cores -> Ops] /\ renaming' \in [Cores -> BOOLEAN]
    BY <1>9 DEF TypeOK, Unsubscribe, Clear, Goto, Ops
  <2>2. Free \in [Devices -> Versions \cup {None}]
    BY DEF Free
  <2>3. table' \in [Cores -> [Devices -> Versions \cup {None}]] /\ subscribers' \subseteq Cores
    BY <1>9, <2>2 DEF TypeOK, Unsubscribe, Clear
  <2> QED  BY <1>9, <2>1, <2>3 DEF TypeOK, Unsubscribe, Clear
<1>10. CASE Take
  <2>1. chan[pump] \in Seq(Events) /\ chan[pump] # <<>>
    BY <1>10 DEF TypeOK, Take
  <2>2. Head(chan[pump]) \in Events /\ Tail(chan[pump]) \in Seq(Events)
    BY <2>1
  <2> QED  BY <1>10, <2>2 DEF TypeOK, Take
<1>11. ASSUME NEW c \in Cores, ApplyEvent(c)
      PROVE  TypeOK'
  <2>1. hand \in Events /\ table[c] \in [Devices -> Versions \cup {None}]
    BY <1>11 DEF TypeOK, ApplyEvent
  <2>2. table' \in [Cores -> [Devices -> Versions \cup {None}]]
    <3> DEFINE t == Folded(table[c], hand[1], hand[2][1], hand[2][2])
    <3>1. t \in [Devices -> Versions \cup {None}]
      BY <2>1, FoldedType
    <3>2. table' = [table EXCEPT ![c] = t]
      BY <1>11 DEF ApplyEvent
    <3> HIDE DEF t
    <3> QED  BY <3>1, <3>2 DEF TypeOK
  <2>3. hand' \in Events \cup {None} /\ todo' \subseteq Cores /\ (todo' # {} => hand' \in Events)
    BY <1>11, <2>1 DEF TypeOK, ApplyEvent
  <2> QED  BY <1>11, <2>2, <2>3 DEF TypeOK, ApplyEvent
<1>12. ASSUME NEW i \in Instances, Announce(i)
      PROVE  TypeOK'
  <2>1. chan' \in [Cores -> Seq(Events)]
    BY <1>12, EmitType DEF Announce
  <2> QED  BY <1>12, <2>1 DEF TypeOK, Announce
<1>13. ASSUME NEW i \in Instances, Expire(i)
      PROVE  TypeOK'
  <2>1. chan' \in [Cores -> Seq(Events)]
    BY <1>13, EmitType DEF Expire
  <2> QED  BY <1>13, <2>1 DEF TypeOK, Expire
<1>14. ASSUME NEW o \in Others, Arrive(o)
      PROVE  TypeOK'
  <2>1. PICK v \in name[o]..Renames : name' = [name EXCEPT ![o] = v] /\ net' = net \cup {<<o, v>>}
    BY <1>14 DEF Arrive
  <2>2. o \in Devices /\ v \in Versions
    BY <2>1 DEF TypeOK, Devices, Versions
  <2>3. <<o, v>> \in Instances
    BY <2>2 DEF Instances
  <2> QED  BY <1>14, <2>1, <2>2, <2>3 DEF TypeOK, Arrive
<1>15. ASSUME NEW o \in Others, Leave(o)
      PROVE  TypeOK'
  BY <1>15 DEF TypeOK, Leave
<1>16. CASE UNCHANGED vars
  BY <1>16 DEF TypeOK, vars
<1> QED
  BY <1>1, <1>2, <1>3, <1>4, <1>5, <1>6, <1>7, <1>8, <1>9, <1>10, <1>11, <1>12, <1>13,
     <1>14, <1>15, <1>16 DEF Next, User, Task, Pump, Daemon

-----------------------------------------------------------------------------
(* A session as a whole.                                                   *)

\* What each session advertises: what it registered, and what it could not take back.
Advertised ==
    \A c \in Cores :
        Of(c, net) \ leaked = IF registered[c] = None THEN {}
                              ELSE {<<c, registered[c]>>} \ leaked

\* At first no session is on, none is registered and no operation is under way.
LEMMA InitStanding == Init => Standing /\ Advertised
<1> SUFFICES ASSUME Init PROVE Standing /\ Advertised
  OBVIOUS
<1>1. Standing
  BY DEF Init, Standing
<1>2. Advertised
  BY DEF Init, Advertised, Of
<1> QED  BY <1>1, <1>2

\* Every step of a start, a stop or a rename leaves flag, registration and
\* subscription as the next step expects to find them.
LEMMA NextStanding ==
  ASSUME TypeOK, Standing, [Next]_vars
  PROVE  Standing'
<1> USE DEF session, browse, reading, network, history
<1>1. ASSUME NEW c \in Cores, StartNearby(c) \/ RegisterFails(c) \/ EnsureBrowse(c) \/ BrowseFails(c)
      PROVE  Standing'
  BY <1>1 DEF TypeOK, Standing, StartNearby, RegisterFails, EnsureBrowse, BrowseFails, Goto
<1>2. ASSUME NEW c \in Cores, Register(c)
      PROVE  Standing'
  BY <1>2 DEF TypeOK, Standing, Register, Goto
<1>3. ASSUME NEW c \in Cores, Browse(c) \/ Claim(c)
      PROVE  Standing'
  BY <1>3 DEF TypeOK, Standing, Browse, Claim, Goto
<1>4. ASSUME NEW c \in Cores, Subscribe(c)
      PROVE  Standing'
  <2>1. registered[c] # None
    BY <1>4 DEF TypeOK, Standing, Subscribe, Goto, Versions, Devices
  <2> QED  BY <1>4, <2>1 DEF TypeOK, Standing, Subscribe, Goto
<1>5. ASSUME NEW c \in Cores, StopNearby(c)
      PROVE  Standing'
  BY <1>5 DEF TypeOK, Standing, StopNearby, Stop, Goto
<1>6. ASSUME NEW c \in Cores, Rename(c)
      PROVE  Standing'
  <2>1. c \in Devices
    BY DEF Devices
  <2>2. CASE registered[c] # None
    BY <1>6, <2>1, <2>2 DEF TypeOK, Standing, Rename, Stop, Goto
  <2>3. CASE registered[c] = None
    BY <1>6, <2>1, <2>3 DEF TypeOK, Standing, Rename
  <2> QED  BY <2>2, <2>3
<1>7. ASSUME NEW c \in Cores, Unregister(c)
      PROVE  Standing'
  BY <1>7 DEF TypeOK, Standing, Unregister, Goto
<1>8. ASSUME NEW c \in Cores, Unsubscribe(c) \/ Clear(c)
      PROVE  Standing'
  BY <1>8 DEF TypeOK, Standing, Unsubscribe, Clear, Goto
<1>9. CASE Pump
  BY <1>9 DEF Standing, Pump, Take, ApplyEvent
<1>10. CASE Daemon
  BY <1>10 DEF Standing, Daemon, Announce, Expire
<1>11. ASSUME NEW o \in Others, Arrive(o)
      PROVE  Standing'
  <2>1. \A c \in Cores : name'[c] = name[c]
    BY <1>11 DEF TypeOK, Arrive, Devices
  <2> QED  BY <1>11, <2>1 DEF Standing, Arrive
<1>12. ASSUME NEW o \in Others, Leave(o)
      PROVE  Standing'
  BY <1>12 DEF Standing, Leave
<1>13. CASE UNCHANGED vars
  BY <1>13 DEF Standing, vars
<1> QED
  BY <1>1, <1>2, <1>3, <1>4, <1>5, <1>6, <1>7, <1>8, <1>9, <1>10, <1>11, <1>12, <1>13
  DEF Next, User, Task

\* Only a registration adds an instance and only a refused unregistration leaves one.
LEMMA NextAdvertised ==
  ASSUME TypeOK, Standing, Advertised, [Next]_vars
  PROVE  Advertised'
<1> USE DEF session, browse, reading, network, history
<1>1. ASSUME UNCHANGED <<net, leaked, registered>>
      PROVE  Advertised'
  BY <1>1 DEF Advertised, Of
<1>2. ASSUME NEW c \in Cores, Register(c)
      PROVE  Advertised'
  <2>1. registered[c] = None /\ name[c] # None
    BY <1>2 DEF TypeOK, Standing, Register, Goto, Versions, Devices
  <2>2. registered'[c] = name[c] /\ \A d \in Cores \ {c} : registered'[d] = registered[d]
    BY <1>2 DEF TypeOK, Register
  <2>3. Of(c, net') = Of(c, net) \cup {<<c, name[c]>>} /\ \A d \in Cores \ {c} : Of(d, net') = Of(d, net)
    BY <1>2 DEF Register, Of
  <2>4. leaked' = leaked
    BY <1>2 DEF Register
  <2> QED  BY <2>1, <2>2, <2>3, <2>4 DEF Advertised
<1>3. ASSUME NEW c \in Cores, Unregister(c)
      PROVE  Advertised'
  <2>1. registered'[c] = None /\ \A d \in Cores \ {c} : registered'[d] = registered[d]
    BY <1>3 DEF TypeOK, Unregister
  <2>2. Of(c, net') \ leaked' = {}
    BY <1>3 DEF Unregister, Advertised, Standing, Goto, Of
  <2>3. \A d \in Cores \ {c} : Of(d, net') \ leaked' = Of(d, net) \ leaked
    BY <1>3 DEF Unregister, Of
  <2>4. \A d \in Cores \ {c} : registered[d] # None =>
            {<<d, registered[d]>>} \ leaked' = {<<d, registered[d]>>} \ leaked
    BY <1>3 DEF Unregister
  <2> QED  BY <2>1, <2>2, <2>3, <2>4 DEF Advertised
<1>4. ASSUME NEW o \in Others, Arrive(o) \/ Leave(o)
      PROVE  Advertised'
  <2>1. \A c \in Cores : Of(c, net') = Of(c, net)
    BY <1>4 DEF Arrive, Leave, Of
  <2> QED  BY <1>4, <2>1 DEF Advertised, Arrive, Leave
<1>5. ASSUME NEW c \in Cores, StartNearby(c) \/ RegisterFails(c) \/ EnsureBrowse(c) \/ Browse(c)
             \/ BrowseFails(c) \/ Claim(c) \/ Subscribe(c) \/ StopNearby(c) \/ Rename(c)
             \/ Unsubscribe(c) \/ Clear(c)
      PROVE  UNCHANGED <<net, leaked, registered>>
  BY <1>5 DEF StartNearby, RegisterFails, EnsureBrowse, Browse, BrowseFails, Claim, Subscribe,
              StopNearby, Rename, Unsubscribe, Clear
<1>6. ASSUME Pump \/ Daemon \/ UNCHANGED vars
      PROVE  UNCHANGED <<net, leaked, registered>>
  BY <1>6 DEF Pump, Take, ApplyEvent, Daemon, Announce, Expire, vars
<1> QED
  BY <1>1, <1>2, <1>3, <1>4, <1>5, <1>6 DEF Next, User, Task

\* Both follow along every behaviour.
LEMMA StandingHolds == Spec => [](TypeOK /\ Standing /\ Advertised)
<1>1. Init => TypeOK /\ Standing /\ Advertised
  BY InitType, InitStanding
<1>2. TypeOK /\ Standing /\ Advertised /\ [Next]_vars => (TypeOK /\ Standing /\ Advertised)'
  BY NextType, NextStanding, NextAdvertised
<1> QED  BY <1>1, <1>2, PTL DEF Spec

\* The state stays within its types.
THEOREM TypeCorrect == Spec => []TypeOK
  BY StandingHolds, PTL

\* Between operations a session is on or off as a whole.
THEOREM WholeSessions == Spec => []SessionWhole
<1>1. Standing => SessionWhole
  BY DEF Standing, SessionWhole
<1> QED  BY <1>1, StandingHolds, PTL

\* Between operations a device is advertised under its present name and no other.
THEOREM NamesInForce == Spec => []AdvertisedAsNamed
<1>1. TypeOK /\ Standing /\ Advertised => AdvertisedAsNamed
  <2> SUFFICES ASSUME TypeOK, Standing, Advertised, NEW c \in Cores, op[c] = "free"
               PROVE  Of(c, net) \ leaked = IF running[c] THEN {<<c, name[c]>>} \ leaked ELSE {}
    BY DEF AdvertisedAsNamed
  <2> QED  BY DEF Standing, Advertised
<1> QED  BY <1>1, StandingHolds, PTL

-----------------------------------------------------------------------------
(* What a session lists.                                                   *)

Has(s, e) == \E k \in 1..Len(s) : s[k] = e

\* Every announcement in s is of a device still told of, or a departure follows.
Followed(s, told) ==
    \A i \in Instances, k \in 1..Len(s) :
        s[k] = <<"resolved", i>> => i \in told \/ \E j \in (k + 1)..Len(s) : s[j] = <<"removed", i>>

\* An event in a channel is the first one or in the rest.
LEMMA TailHas ==
  ASSUME NEW s \in Seq(Events), s # <<>>, NEW e, Has(s, e)
  PROVE  e = Head(s) \/ Has(Tail(s), e)
<1>1. PICK k \in 1..Len(s) : s[k] = e
  BY DEF Has
<1>2. CASE k = 1
  BY <1>1, <1>2
<1>3. CASE k # 1
  <2>1. k - 1 \in 1..Len(Tail(s)) /\ Tail(s)[k - 1] = s[k]
    BY <1>3
  <2> QED  BY <1>1, <2>1 DEF Has
<1> QED  BY <1>2, <1>3

\* Taking the first event keeps the order in which the others tell of an instance.
LEMMA TailFollowed ==
  ASSUME NEW s \in Seq(Events), s # <<>>, NEW told, Followed(s, told)
  PROVE  /\ Followed(Tail(s), told)
         /\ \A i \in Instances : Head(s) = <<"resolved", i>> =>
               i \in told \/ Has(Tail(s), <<"removed", i>>)
<1>1. Len(s) \in Nat \ {0} /\ Len(Tail(s)) = Len(s) - 1
  OBVIOUS
<1>2. \A k \in 1..Len(s) : k # 1 => Tail(s)[k - 1] = s[k]
  OBVIOUS
<1>3. ASSUME NEW i \in Instances, NEW k \in 1..Len(Tail(s)), Tail(s)[k] = <<"resolved", i>>, i \notin told
      PROVE  \E j \in (k + 1)..Len(Tail(s)) : Tail(s)[j] = <<"removed", i>>
  <2>1. k + 1 \in 1..Len(s) /\ s[k + 1] = <<"resolved", i>>
    <3>1. k + 1 \in 1..Len(s) /\ k + 1 # 1 /\ (k + 1) - 1 = k
      BY <1>1
    <3>2. Tail(s)[(k + 1) - 1] = s[k + 1]
      BY <1>2, <3>1
    <3> QED  BY <1>3, <3>1, <3>2
  <2>2. PICK j \in ((k + 1) + 1)..Len(s) : s[j] = <<"removed", i>>
    BY <1>3, <2>1 DEF Followed
  <2>3. j - 1 \in (k + 1)..Len(Tail(s)) /\ Tail(s)[j - 1] = s[j]
    <3>1. j \in 1..Len(s) /\ j # 1
      BY <1>1, <2>2
    <3> QED  BY <1>1, <1>2, <2>2, <3>1
  <2> QED  BY <2>2, <2>3
<1>4. ASSUME NEW i \in Instances, Head(s) = <<"resolved", i>>, i \notin told
      PROVE  Has(Tail(s), <<"removed", i>>)
  <2>1. 1 \in 1..Len(s) /\ s[1] = <<"resolved", i>>
    BY <1>1, <1>4
  <2>2. PICK j \in (1 + 1)..Len(s) : s[j] = <<"removed", i>>
    BY <1>4, <2>1 DEF Followed
  <2>3. j - 1 \in 1..Len(Tail(s)) /\ Tail(s)[j - 1] = s[j]
    BY <1>1, <1>2, <2>2
  <2> QED  BY <2>2, <2>3 DEF Has
<1> QED  BY <1>3, <1>4 DEF Followed

\* What is appended is in the channel, with all that was.
LEMMA AppendHas ==
  ASSUME NEW s \in Seq(Events), NEW x \in Events
  PROVE  Has(Append(s, x), x) /\ \A e : Has(s, e) => Has(Append(s, x), e)
<1>1. Len(Append(s, x)) = Len(s) + 1 /\ Append(s, x)[Len(s) + 1] = x
  OBVIOUS
<1>2. \A k \in 1..Len(s) : Append(s, x)[k] = s[k] /\ k \in 1..(Len(s) + 1)
  OBVIOUS
<1>3. Len(s) + 1 \in 1..(Len(s) + 1)
  OBVIOUS
<1> QED  BY <1>1, <1>2, <1>3 DEF Has

\* An instance the daemon announces is told of last by its arrival.
LEMMA AnnounceFollowed ==
  ASSUME NEW s \in Seq(Events), NEW told, Followed(s, told), NEW i \in Instances
  PROVE  Followed(Append(s, <<"resolved", i>>), told \cup {i})
<1> DEFINE x == <<"resolved", i>>
           t == Append(s, x)
<1>1. x \in Events
  BY DEF Events
<1>2. Len(t) = Len(s) + 1 /\ t[Len(s) + 1] = x /\ \A k \in 1..Len(s) : t[k] = s[k]
  BY <1>1
<1>3. ASSUME NEW h \in Instances, NEW k \in 1..Len(t), t[k] = <<"resolved", h>>, h \notin told \cup {i}
      PROVE  \E j \in (k + 1)..Len(t) : t[j] = <<"removed", h>>
  <2>1. k \in 1..Len(s)
    <3>1. k # Len(s) + 1
      BY <1>2, <1>3
    <3> QED  BY <1>2, <3>1
  <2>2. PICK j \in (k + 1)..Len(s) : s[j] = <<"removed", h>>
    BY <1>2, <1>3, <2>1 DEF Followed
  <2>3. j \in 1..Len(s) /\ j \in (k + 1)..Len(t)
    BY <1>2, <2>1, <2>2
  <2> QED  BY <1>2, <2>2, <2>3
<1> QED  BY <1>3 DEF Followed

\* An instance the daemon lets go is told of last by its departure.
LEMMA ExpireFollowed ==
  ASSUME NEW s \in Seq(Events), NEW told, Followed(s, told), NEW i \in Instances
  PROVE  Followed(Append(s, <<"removed", i>>), told \ {i})
<1> DEFINE x == <<"removed", i>>
           t == Append(s, x)
<1>1. x \in Events
  BY DEF Events
<1>2. Len(t) = Len(s) + 1 /\ t[Len(s) + 1] = x /\ \A k \in 1..Len(s) : t[k] = s[k]
  BY <1>1
<1>3. ASSUME NEW h \in Instances, NEW k \in 1..Len(t), t[k] = <<"resolved", h>>, h \notin told \ {i}
      PROVE  \E j \in (k + 1)..Len(t) : t[j] = <<"removed", h>>
  <2>1. k \in 1..Len(s)
    <3>1. k # Len(s) + 1
      BY <1>2, <1>3
    <3> QED  BY <1>2, <3>1
  <2>2. CASE h = i
    <3>1. Len(s) + 1 \in (k + 1)..Len(t)
      BY <1>2, <2>1
    <3> QED  BY <1>2, <2>2, <3>1
  <2>3. CASE h # i
    <3>1. PICK j \in (k + 1)..Len(s) : s[j] = <<"removed", h>>
      BY <1>2, <1>3, <2>1, <2>3 DEF Followed
    <3>2. j \in 1..Len(s) /\ j \in (k + 1)..Len(t)
      BY <1>2, <2>1, <3>1
    <3> QED  BY <1>2, <3>1, <3>2
  <2> QED  BY <2>2, <2>3
<1> QED  BY <1>3 DEF Followed

\* Who reads: nobody before the pump is claimed, and its reader never browses again.
Reader ==
    /\ started <=> pump # None
    /\ pump = None => hand = None /\ todo = {} /\ \A c \in Cores : table[c] = Free
    /\ pump # None => op[pump] \notin {"browse", "claim"}

Coming(i) == Has(chan[listener], <<"removed", i>>)

\* What the daemon has told the browse it serves, and what of it is still on its
\* way into the tables: an entry is of a device still told of, or the event that
\* will take it out is waiting or being applied.
Served ==
    /\ listener # None => Followed(chan[listener], announced)
    /\ pump = listener /\ pump # None =>
          /\ todo # {} => \A i \in Instances : hand = <<"resolved", i>> => i \in announced \/ Coming(i)
          /\ \A c \in subscribers, d \in Devices : table[c][d] # None =>
                \/ <<d, table[c][d]>> \in announced
                \/ Coming(<<d, table[c][d]>>)
                \/ hand = <<"removed", <<d, table[c][d]>>>> /\ c \in todo

\* At first no table lists anything.
LEMMA InitServed == Init => Reader /\ Served
  BY DEF Init, Reader, Served, Free

\* The event in the pump's hand and the subscribers it has yet to serve stay well formed.
LEMMA NextReader ==
  ASSUME TypeOK, Reader, [Next]_vars
  PROVE  Reader'
<1> USE DEF session, browse, reading, network, history
<1>1. ASSUME NEW c \in Cores, User(c) \/ Register(c) \/ RegisterFails(c) \/ Unregister(c) \/ Unsubscribe(c)
      PROVE  Reader'
  <2>1. UNCHANGED <<started, pump, hand, todo, table>>
    BY <1>1 DEF User, StartNearby, StopNearby, Rename, Register, RegisterFails, Unregister, Unsubscribe
  <2>2. \A d \in Cores : op'[d] \in {"browse", "claim"} => op'[d] = op[d]
    BY <1>1 DEF TypeOK, User, StartNearby, StopNearby, Rename, Stop, Goto, Register, RegisterFails,
                Unregister, Unsubscribe
  <2> QED  BY <2>1, <2>2 DEF Reader, TypeOK
<1>2. ASSUME NEW c \in Cores, EnsureBrowse(c) \/ Browse(c) \/ BrowseFails(c) \/ Claim(c)
      PROVE  Reader'
  BY <1>2 DEF TypeOK, Reader, EnsureBrowse, Browse, BrowseFails, Claim, Goto
<1>3. ASSUME NEW c \in Cores, Subscribe(c) \/ Clear(c)
      PROVE  Reader'
  BY <1>3 DEF TypeOK, Reader, Subscribe, Clear, Goto
<1>4. CASE Take
  BY <1>4 DEF Reader, Take
<1>5. ASSUME NEW c \in Cores, ApplyEvent(c)
      PROVE  Reader'
  BY <1>5 DEF Reader, ApplyEvent
<1>6. ASSUME NEW i \in Instances, Announce(i) \/ Expire(i)
      PROVE  Reader'
  BY <1>6 DEF Reader, Announce, Expire
<1>7. ASSUME NEW o \in Others, Arrive(o) \/ Leave(o)
      PROVE  Reader'
  BY <1>7 DEF Reader, Arrive, Leave
<1>8. CASE UNCHANGED vars
  BY <1>8 DEF Reader, vars
<1> QED
  BY <1>1, <1>2, <1>3, <1>4, <1>5, <1>6, <1>7, <1>8 DEF Next, Task, Pump, Daemon

\* What a table lists stays announced, or its departure stays ahead of the pump,
\* whatever the daemon, the pump and the sessions do.
LEMMA NextServed ==
  ASSUME TypeOK, Reader, Served, [Next]_vars
  PROVE  Served'
<1> USE DEF session, browse, reading, network, history
<1>1. ASSUME UNCHANGED <<pump, listener, chan, announced, hand, todo>>,
             subscribers' \subseteq subscribers, table' = table
      PROVE  Served'
  BY <1>1 DEF Served, Coming
<1>2. ASSUME NEW c \in Cores, User(c) \/ Register(c) \/ RegisterFails(c) \/ EnsureBrowse(c)
             \/ BrowseFails(c) \/ Unregister(c) \/ Unsubscribe(c)
      PROVE  Served'
  BY <1>1, <1>2 DEF User, StartNearby, StopNearby, Rename, Register, RegisterFails, EnsureBrowse,
                    BrowseFails, Unregister, Unsubscribe
<1>3. ASSUME NEW c \in Cores, Browse(c)
      PROVE  Served'
  <2>1. chan'[listener'] = <<>> /\ listener' = c
    BY <1>3 DEF TypeOK, Browse
  <2>2. Followed(chan'[listener'], announced')
    BY <2>1 DEF Followed
  <2>3. pump' # c
    BY <1>3 DEF Browse, Reader, Goto
  <2> QED  BY <2>1, <2>2, <2>3 DEF Served
<1>4. ASSUME NEW c \in Cores, Claim(c)
      PROVE  Served'
  <2>1. CASE started
    <3>1. UNCHANGED <<pump, listener, chan, announced, hand, todo, subscribers, table>>
      BY <1>4, <2>1 DEF Claim
    <3> QED  BY <1>1, <3>1
  <2>2. CASE ~started
    <3>1. hand' = None /\ todo' = {} /\ \A d \in Cores : table'[d] = Free
      BY <1>4, <2>2 DEF Claim, Reader
    <3>2. \A d \in Cores, e \in Devices : table'[d][e] = None
      BY <3>1 DEF Free
    <3>3. subscribers' \subseteq Cores
      BY <1>4 DEF Claim, TypeOK
    <3>4. listener' # None => Followed(chan'[listener'], announced')
      BY <1>4 DEF Claim, Served
    <3> QED  BY <3>1, <3>2, <3>3, <3>4 DEF Served
  <2> QED  BY <2>1, <2>2
<1>5. ASSUME NEW c \in Cores, Subscribe(c)
      PROVE  Served'
  <2>1. UNCHANGED <<listener, pump, chan, announced>>
    BY <1>5 DEF Subscribe
  <2>2. todo' # {} => hand' = hand /\ todo # {}
    BY <1>5 DEF Subscribe
  <2>3. \A d \in Devices : table'[c][d] = None
    BY <1>5 DEF Subscribe, TypeOK, Free
  <2>4. \A h \in subscribers' : h # c => h \in subscribers /\ table'[h] = table[h]
    BY <1>5 DEF Subscribe, TypeOK
  <2>5. \A h \in Cores : h # c /\ h \in todo => h \in todo' /\ hand' = hand
    BY <1>5 DEF Subscribe
  <2>6. subscribers' \subseteq Cores
    BY <1>5 DEF Subscribe, TypeOK
  <2>7. \A i : Coming(i)' <=> Coming(i)
    BY <2>1 DEF Coming
  <2> QED  BY <2>1, <2>2, <2>3, <2>4, <2>5, <2>6, <2>7 DEF Served
<1>6. ASSUME NEW c \in Cores, Clear(c)
      PROVE  Served'
  <2>1. UNCHANGED <<listener, pump, chan, announced, hand, todo, subscribers>>
    BY <1>6 DEF Clear
  <2>2. \A d \in Devices : table'[c][d] = None
    BY <1>6 DEF Clear, TypeOK, Free
  <2>3. \A h \in Cores : h # c => table'[h] = table[h]
    BY <1>6 DEF Clear, TypeOK
  <2>4. \A i : Coming(i)' <=> Coming(i)
    BY <2>1 DEF Coming
  <2> QED  BY <2>1, <2>2, <2>3, <2>4 DEF Served, TypeOK
<1>7. CASE Take
  <2> DEFINE s == chan[pump]
  <2>1. pump \in Cores /\ s \in Seq(Events) /\ s # <<>>
    BY <1>7 DEF Take, TypeOK
  <2>2. chan'[pump] = Tail(s) /\ \A c \in Cores \ {pump} : chan'[c] = chan[c]
    BY <1>7 DEF Take, TypeOK
  <2>3. UNCHANGED <<listener, pump, announced, table, subscribers>> /\ todo = {} /\ todo' = subscribers
    BY <1>7 DEF Take
  <2>4. CASE pump # listener
    <3>1. listener # None => chan'[listener] = chan[listener]
      BY <2>2, <2>4 DEF TypeOK
    <3> QED  BY <2>3, <2>4, <3>1 DEF Served
  <2>5. CASE pump = listener
    <3>1. Followed(s, announced) /\ listener # None
      BY <2>1, <2>5 DEF Served, TypeOK
    <3>2. Followed(Tail(s), announced)
          /\ \A i \in Instances : Head(s) = <<"resolved", i>> =>
                i \in announced \/ Has(Tail(s), <<"removed", i>>)
      BY <2>1, <3>1, TailFollowed
    <3>3. \A e : Has(s, e) => e = Head(s) \/ Has(Tail(s), e)
      BY <2>1, TailHas
    <3>4. chan'[listener'] = Tail(s)
      BY <2>2, <2>3, <2>5
    <3>5. \A c \in subscribers : hand' = Head(s) /\ c \in todo'
      BY <1>7 DEF Take
    <3>6. todo' # {} => hand' = Head(s)
      BY <2>3, <3>5
    <3>7. ASSUME NEW c \in subscribers, NEW d \in Devices, table[c][d] # None
          PROVE  \/ <<d, table[c][d]>> \in announced
                 \/ Has(Tail(s), <<"removed", <<d, table[c][d]>>>>)
                 \/ hand' = <<"removed", <<d, table[c][d]>>>> /\ c \in todo'
      <4>1. <<d, table[c][d]>> \in announced \/ Has(s, <<"removed", <<d, table[c][d]>>>>)
        BY <2>3, <2>5, <3>1, <3>7 DEF Served, Coming
      <4> QED  BY <3>3, <3>5, <4>1
    <3> HIDE DEF s
    <3> QED  BY <2>3, <2>5, <3>2, <3>4, <3>6, <3>7 DEF Served, Coming
  <2> QED  BY <2>4, <2>5
<1>8. ASSUME NEW c \in Cores, ApplyEvent(c)
      PROVE  Served'
  <2>1. UNCHANGED <<listener, pump, chan, announced, subscribers>> /\ c \in todo
    BY <1>8 DEF ApplyEvent
  <2>2. \A i : Coming(i)' <=> Coming(i)
    BY <2>1 DEF Coming
  <2>3. PICK k \in {"resolved", "removed"}, d \in Devices, v \in Versions : hand = <<k, <<d, v>>>>
    BY <2>1 DEF TypeOK, Events, Instances
  <2>4. table' = [table EXCEPT ![c] = Folded(table[c], k, d, v)]
    BY <1>8, <2>3 DEF ApplyEvent
  <2>5. todo' # {} => hand' = hand
    BY <1>8 DEF ApplyEvent
  <2>6. todo' = todo \ {c}
    BY <1>8 DEF ApplyEvent
  <2> SUFFICES ASSUME pump = listener, pump # None, NEW h \in subscribers, NEW e \in Devices,
                      table'[h][e] # None
               PROVE  \/ <<e, table'[h][e]>> \in announced
                      \/ Coming(<<e, table'[h][e]>>)
                      \/ hand' = <<"removed", <<e, table'[h][e]>>>> /\ h \in todo'
    BY <2>1, <2>2, <2>5, <2>6 DEF Served
  <2>7. CASE h # c
    <3>1. table'[h] = table[h] /\ (h \in todo => h \in todo' /\ hand' = hand)
      BY <2>4, <2>5, <2>6, <2>7 DEF TypeOK
    <3> QED  BY <3>1 DEF Served
  <2>8. CASE h = c
    <3>1. table'[c] = Folded(table[c], k, d, v) /\ table[c] \in [Devices -> Versions \cup {None}]
      BY <2>4 DEF TypeOK
    <3>2. CASE k = "removed"
      <4>1. table'[c][e] = table[c][e] /\ ~(e = d /\ table[c][e] = v)
        BY <2>8, <3>1, <3>2 DEF Folded
      <4>2. hand # <<"removed", <<e, table[c][e]>>>>
        BY <2>3, <4>1
      <4> QED  BY <2>8, <4>1, <4>2 DEF Served
    <3>3. CASE k = "resolved" /\ table'[c][e] # table[c][e]
      <4>1. e = d /\ table'[c][e] = v
        BY <3>1, <3>3 DEF Folded
      <4>2. <<d, v>> \in announced \/ Coming(<<d, v>>)
        BY <2>1, <2>3, <3>3 DEF Served, Instances
      <4> QED  BY <2>8, <4>1, <4>2
    <3>4. CASE k = "resolved" /\ table'[c][e] = table[c][e]
      <4>1. hand # <<"removed", <<e, table[c][e]>>>>
        BY <2>3, <3>4
      <4> QED  BY <2>8, <3>4, <4>1 DEF Served
    <3> QED  BY <3>2, <3>3, <3>4
  <2> QED  BY <2>7, <2>8
<1>9. ASSUME NEW i \in Instances, Announce(i)
      PROVE  Served'
  <2> DEFINE s == chan[listener]
             x == <<"resolved", i>>
  <2>1. listener \in Cores /\ s \in Seq(Events) /\ x \in Events
    BY <1>9 DEF Announce, Room, TypeOK, Events
  <2>2. chan'[listener] = Append(s, x)
    BY <1>9, <2>1 DEF Announce, Emit, TypeOK
  <2>3. announced' = announced \cup {i}
        /\ UNCHANGED <<listener, pump, hand, todo, table, subscribers>>
    BY <1>9 DEF Announce
  <2>4. Followed(s, announced)
    BY <2>1 DEF Served
  <2>5. Followed(Append(s, x), announced')
    BY <2>1, <2>3, <2>4, AnnounceFollowed
  <2>6. \A e : Has(s, e) => Has(Append(s, x), e)
    BY <2>1, AppendHas
  <2>7. \A h : Coming(h) => Coming(h)'
    BY <2>2, <2>3, <2>6 DEF Coming
  <2> HIDE DEF s, x
  <2> QED  BY <2>2, <2>3, <2>5, <2>7 DEF Served
<1>10. ASSUME NEW i \in Instances, Expire(i)
      PROVE  Served'
  <2> DEFINE s == chan[listener]
             x == <<"removed", i>>
  <2>1. listener \in Cores /\ s \in Seq(Events) /\ x \in Events
    BY <1>10 DEF Expire, Room, TypeOK, Events
  <2>2. chan'[listener] = Append(s, x)
    BY <1>10, <2>1 DEF Expire, Emit, TypeOK
  <2>3. announced' = announced \ {i}
        /\ UNCHANGED <<listener, pump, hand, todo, table, subscribers>>
    BY <1>10 DEF Expire
  <2>4. Followed(s, announced)
    BY <2>1 DEF Served
  <2>5. Followed(Append(s, x), announced')
    BY <2>1, <2>3, <2>4, ExpireFollowed
  <2>6. Has(Append(s, x), x) /\ \A e : Has(s, e) => Has(Append(s, x), e)
    BY <2>1, AppendHas
  <2>7. Coming(i)' /\ \A h : Coming(h) => Coming(h)'
    BY <2>2, <2>3, <2>6 DEF Coming
  <2> HIDE DEF s, x
  <2> QED  BY <2>2, <2>3, <2>5, <2>7 DEF Served
<1>11. ASSUME NEW o \in Others, Arrive(o) \/ Leave(o)
      PROVE  Served'
  BY <1>1, <1>11 DEF Arrive, Leave
<1>12. CASE UNCHANGED vars
  BY <1>1, <1>12 DEF vars
<1> QED
  BY <1>2, <1>3, <1>4, <1>5, <1>6, <1>7, <1>8, <1>9, <1>10, <1>11, <1>12 DEF Next, Task, Pump, Daemon

\* Once every event has been applied, a session lists only devices the daemon
\* still holds for present.
THEOREM NoGhostDevices == Spec => []ListedArePresent
<1>1. Init => TypeOK /\ Standing /\ Reader /\ Served
  BY InitType, InitStanding, InitServed
<1>2. TypeOK /\ Standing /\ Reader /\ Served /\ [Next]_vars
         => (TypeOK /\ Standing /\ Reader /\ Served)'
  BY NextType, NextStanding, NextReader, NextServed
<1>3. TypeOK /\ Served => ListedArePresent
  <2> SUFFICES ASSUME TypeOK, Served, Quiet, NEW c \in subscribers, NEW d \in Listed(c)
               PROVE  <<d, table[c][d]>> \in announced
    BY DEF ListedArePresent
  <2>1. d \in Devices /\ table[c][d] # None
    BY DEF Listed
  <2>2. ~Coming(<<d, table[c][d]>>)
    BY DEF Quiet, Coming, Has
  <2> QED  BY <2>1, <2>2 DEF Served, Quiet
<1> QED  BY <1>1, <1>2, <1>3, PTL DEF Spec

-----------------------------------------------------------------------------
(* What a session does not leave out.                                      *)

\* The version a device is advertised under, or will be next: a rename has set
\* the name before the old advertisement is withdrawn.
Top(d) == IF d \in Cores /\ registered[d] # None THEN registered[d] ELSE name[d]

\* No older advertisement of d was left behind by a refused unregistration.
Clean(d) == Of(d, leaked) \subseteq {<<d, Top(d)>>}

\* No advertisement, announcement or waiting event is of a later name; a device
\* elsewhere has one advertisement at most.
Bounded ==
    /\ \A c \in Cores : registered[c] # None => registered[c] <= name[c]
    /\ \A i \in announced \cup net \cup leaked : i[2] <= Top(i[1])
    /\ listener # None => \A i \in Instances :
          Has(chan[listener], <<"resolved", i>>) => i[2] <= Top(i[1])
    /\ \A o \in Others : Of(o, net) \subseteq {<<o, name[o]>>} /\ Of(o, leaked) = {}

\* An event that undoes what the announcement of i does to a table.
Overrides(e, i) ==
    \/ e = <<"removed", i>>
    \/ \E w \in Versions \ {i[2]} : e = <<"resolved", <<i[1], w>>>>

Unspoilt(s, i) == \A k \in 1..Len(s) : ~Overrides(s[k], i)

\* The announcement of i is in s, and nothing after it undoes it.
Final(s, i) ==
    \E k \in 1..Len(s) :
        s[k] = <<"resolved", i>> /\ \A j \in (k + 1)..Len(s) : ~Overrides(s[j], i)

\* Once what waits has been applied, the table of c names i: its announcement
\* waits, is being applied, or was applied, and nothing on its way undoes it.
Arrives(c, i) ==
    LET s == chan[listener] IN
    \/ Final(s, i)
    \/ /\ Unspoilt(s, i)
       /\ \/ c \in todo /\ hand = <<"resolved", i>>
          \/ table[c][i[1]] = i[2] /\ (c \in todo => ~Overrides(hand, i))

\* What has been announced of a device's latest name reaches every table that
\* existed when it was, as long as the pump reads the browse that is served.
Kept ==
    listener # None => \A d \in Devices :
        LET i == <<d, Top(d)>> IN
        Clean(d) /\ i \in announced =>
            /\ Has(chan[listener], <<"resolved", i>>) => Final(chan[listener], i)
            /\ pump \in {None, listener} => \A c \in subscribers :
                  d \in Foreign \/ i \in missed[c] \/ Arrives(c, i)

\* Taking the first event of a queue.
LEMMA TailFinal ==
  ASSUME NEW s \in Seq(Events), s # <<>>, NEW i
  PROVE  /\ Final(s, i) => \/ Final(Tail(s), i)
                           \/ Head(s) = <<"resolved", i>> /\ Unspoilt(Tail(s), i)
         /\ Unspoilt(s, i) => ~Overrides(Head(s), i) /\ Unspoilt(Tail(s), i)
         /\ \A e : Has(Tail(s), e) => Has(s, e)
<1>1. Len(s) \in Nat \ {0} /\ Len(Tail(s)) = Len(s) - 1 /\ Head(s) = s[1]
  OBVIOUS
<1>2. \A k \in 1..Len(Tail(s)) : k + 1 \in 1..Len(s) /\ Tail(s)[k] = s[k + 1]
  OBVIOUS
<1>3. ASSUME NEW k \in 1..Len(s), s[k] = <<"resolved", i>>,
             \A j \in (k + 1)..Len(s) : ~Overrides(s[j], i)
      PROVE  \/ Final(Tail(s), i)
             \/ Head(s) = <<"resolved", i>> /\ Unspoilt(Tail(s), i)
  <2>1. CASE k = 1
    <3>1. \A j \in 1..Len(Tail(s)) : ~Overrides(Tail(s)[j], i)
      BY <1>1, <1>2, <1>3, <2>1
    <3> QED  BY <1>1, <1>3, <2>1, <3>1 DEF Unspoilt
  <2>2. CASE k # 1
    <3>1. k - 1 \in 1..Len(Tail(s)) /\ Tail(s)[k - 1] = s[k]
      BY <1>1, <2>2
    <3>2. \A j \in ((k - 1) + 1)..Len(Tail(s)) : ~Overrides(Tail(s)[j], i)
      <4> TAKE j \in ((k - 1) + 1)..Len(Tail(s))
      <4>1. j \in 1..Len(Tail(s)) /\ j + 1 \in (k + 1)..Len(s)
        BY <1>1, <2>2
      <4> QED  BY <1>2, <1>3, <4>1
    <3> QED  BY <1>3, <3>1, <3>2 DEF Final
  <2> QED  BY <2>1, <2>2
<1>4. ASSUME Unspoilt(s, i)
      PROVE  ~Overrides(Head(s), i) /\ Unspoilt(Tail(s), i)
  <2>1. 1 \in 1..Len(s)
    BY <1>1
  <2> QED  BY <1>1, <1>2, <1>4, <2>1 DEF Unspoilt
<1>5. ASSUME NEW e, Has(Tail(s), e)
      PROVE  Has(s, e)
  BY <1>2, <1>5 DEF Has
<1> QED  BY <1>3, <1>4, <1>5 DEF Final

\* An event at the back that does not undo an announcement.
LEMMA AppendFinal ==
  ASSUME NEW s \in Seq(Events), NEW x \in Events, NEW i, ~Overrides(x, i)
  PROVE  /\ Final(s, i) => Final(Append(s, x), i)
         /\ Unspoilt(s, i) => Unspoilt(Append(s, x), i)
<1> DEFINE t == Append(s, x)
<1>1. Len(s) \in Nat /\ Len(t) = Len(s) + 1 /\ t[Len(s) + 1] = x
      /\ \A k \in 1..Len(s) : t[k] = s[k]
  OBVIOUS
<1>2. \A k \in 1..Len(t) : k \in 1..Len(s) \/ k = Len(s) + 1
  BY <1>1
<1> HIDE DEF t
<1>3. ASSUME NEW k \in 1..Len(s), s[k] = <<"resolved", i>>,
             \A j \in (k + 1)..Len(s) : ~Overrides(s[j], i)
      PROVE  Final(t, i)
  <2>1. k \in 1..Len(t) /\ t[k] = <<"resolved", i>>
    BY <1>1, <1>3
  <2>2. \A j \in (k + 1)..Len(t) : ~Overrides(t[j], i)
    <3> TAKE j \in (k + 1)..Len(t)
    <3>1. CASE j = Len(s) + 1
      BY <1>1, <3>1
    <3>2. CASE j # Len(s) + 1
      <4>1. j \in (k + 1)..Len(s) /\ j \in 1..Len(s)
        BY <1>1, <3>2
      <4> QED  BY <1>1, <1>3, <4>1
    <3> QED  BY <3>1, <3>2
  <2> QED  BY <2>1, <2>2 DEF Final
<1>4. ASSUME Unspoilt(s, i)
      PROVE  Unspoilt(t, i)
  BY <1>1, <1>2, <1>4 DEF Unspoilt
<1> QED  BY <1>3, <1>4 DEF Final, t

\* The announcement itself at the back.
LEMMA AppendSelf ==
  ASSUME NEW s \in Seq(Events), NEW i \in Instances
  PROVE  Final(Append(s, <<"resolved", i>>), i)
<1> DEFINE x == <<"resolved", i>>
           t == Append(s, x)
<1>1. x \in Events
  BY DEF Events
<1>2. Len(s) \in Nat /\ Len(t) = Len(s) + 1 /\ t[Len(s) + 1] = x
  BY <1>1
<1>3. Len(s) + 1 \in 1..Len(t) /\ ((Len(s) + 1) + 1)..Len(t) = {}
  BY <1>2
<1> QED  BY <1>2, <1>3 DEF Final

\* Nothing else is added.
LEMMA AppendBack ==
  ASSUME NEW s \in Seq(Events), NEW x \in Events, NEW e, Has(Append(s, x), e), e # x
  PROVE  Has(s, e)
<1> DEFINE t == Append(s, x)
<1>1. Len(s) \in Nat /\ Len(t) = Len(s) + 1 /\ t[Len(s) + 1] = x
      /\ \A k \in 1..Len(s) : t[k] = s[k]
  OBVIOUS
<1>2. PICK k \in 1..Len(t) : t[k] = e
  BY DEF Has
<1>3. k \in 1..Len(s)
  BY <1>1, <1>2
<1> QED  BY <1>1, <1>2, <1>3 DEF Has

\* The name in force is a name.
LEMMA TopType ==
  ASSUME TypeOK, NEW d \in Devices
  PROVE  Top(d) \in Nat /\ Top(d) \in Versions
  BY DEF TypeOK, Top, Versions

\* No step takes the name in force back, and a step that leaves it cleans nothing:
\* what an old name left behind stays for good.
LEMMA TopGrows ==
  ASSUME TypeOK, Standing, Bounded, [Next]_vars, NEW d \in Devices
  PROVE  Top(d) <= Top(d)' /\ (Clean(d)' /\ Top(d)' = Top(d) => Clean(d))
<1> USE DEF session, browse, reading, network, history
<1>0. Top(d) \in Nat /\ name[d] \in Nat
  BY TopType DEF TypeOK, Versions
<1>1. ASSUME UNCHANGED <<name, registered, leaked>>
      PROVE  Top(d) <= Top(d)' /\ (Clean(d)' => Clean(d))
  BY <1>0, <1>1 DEF Top, Clean, Of
<1>2. ASSUME NEW c \in Cores, Register(c)
      PROVE  Top(d)' = Top(d) /\ leaked' = leaked
  <2>1. registered[c] = None /\ UNCHANGED <<name, leaked>>
    BY <1>2 DEF Register, Standing, Goto
  <2>2. registered' = [registered EXCEPT ![c] = name[c]]
    BY <1>2 DEF Register
  <2> QED  BY <2>1, <2>2 DEF Top, TypeOK
<1>3. ASSUME NEW c \in Cores, Rename(c)
      PROVE  /\ Top(d) <= Top(d)' /\ UNCHANGED leaked
             /\ Clean(d)' /\ Top(d)' = Top(d) => Clean(d)
  <2>1. UNCHANGED <<registered, leaked>> /\ name' = [name EXCEPT ![c] = @ + 1]
    BY <1>3 DEF Rename
  <2>2. name'[d] \in {name[d], name[d] + 1}
    BY <2>1 DEF TypeOK
  <2>3. Top(d)' \in {Top(d), Top(d) + 1}
    BY <2>1, <2>2 DEF Top
  <2> QED  BY <1>0, <2>1, <2>3 DEF Clean, Of
<1>4. ASSUME NEW c \in Cores, Unregister(c)
      PROVE  /\ Top(d) <= Top(d)'
             /\ Clean(d)' /\ Top(d)' = Top(d) => Clean(d)
  <2>1. registered' = [registered EXCEPT ![c] = None] /\ UNCHANGED name
    BY <1>4 DEF Unregister
  <2>2. registered[c] # None /\ registered[c] <= name[c]
    BY <1>4 DEF Unregister, Standing, Goto, Bounded
  <2>3. leaked \subseteq leaked' \cup {<<c, registered[c]>>}
    BY <1>4 DEF Unregister
  <2>4. CASE d = c
    <3>1. Top(d) = registered[c] /\ Top(d)' = name[c]
      BY <2>1, <2>2, <2>4 DEF Top, TypeOK
    <3> QED  BY <2>2, <2>3, <2>4, <3>1 DEF Clean, Of
  <2>5. CASE d # c
    <3>1. Top(d)' = Top(d)
      BY <2>1, <2>5 DEF Top, TypeOK
    <3>2. Of(d, leaked) \subseteq Of(d, leaked')
      BY <2>3, <2>5 DEF Of
    <3> QED  BY <1>0, <3>1, <3>2 DEF Clean
  <2> QED  BY <2>4, <2>5
<1>5. ASSUME NEW o \in Others, Arrive(o)
      PROVE  /\ Top(d) <= Top(d)'
             /\ Clean(d)' /\ Top(d)' = Top(d) => Clean(d)
  <2>1. PICK v \in name[o]..Renames : name' = [name EXCEPT ![o] = v]
    BY <1>5 DEF Arrive
  <2>2. UNCHANGED <<registered, leaked>> /\ o \in Devices
    BY <1>5 DEF Arrive, Devices
  <2>3. name[d] <= name'[d]
    BY <1>0, <2>1, <2>2 DEF TypeOK, Versions
  <2>4. Top(d) <= Top(d)'
    BY <1>0, <2>2, <2>3 DEF Top
  <2> QED  BY <2>2, <2>4 DEF Clean, Of
<1>6. CASE UNCHANGED <<name, registered, leaked>>
  BY <1>1, <1>6
<1>7. ASSUME NEW c \in Cores, Register(c)
      PROVE  Top(d) <= Top(d)' /\ (Clean(d)' /\ Top(d)' = Top(d) => Clean(d))
  BY <1>0, <1>2, <1>7 DEF Clean, Of
<1> QED
  BY <1>3, <1>4, <1>5, <1>6, <1>7 DEF Next, User, Task, StartNearby, StopNearby,
     RegisterFails, EnsureBrowse, Browse, BrowseFails, Claim, Subscribe, Unsubscribe,
     Clear, Pump, Take, ApplyEvent, Daemon, Announce, Expire, Leave, vars

\* Nothing is on the network at first.
LEMMA InitKept == Init => Bounded /\ Kept
<1> SUFFICES ASSUME Init PROVE Bounded /\ Kept
  OBVIOUS
<1>1. announced = {} /\ net = {} /\ leaked = {} /\ listener = None
      /\ \A c \in Cores : registered[c] = None
  BY DEF Init
<1> QED  BY <1>1 DEF Bounded, Kept, Of

\* Whatever is known of a name stays below the name in force.
LEMMA NextBounded ==
  ASSUME TypeOK, Standing, Bounded, [Next]_vars
  PROVE  Bounded'
<1> USE DEF session, browse, reading, network, history
<1> DEFINE Below(i) == i[2] <= Top(i[1])
<1>1. \A i \in Instances : Below(i) => Below(i)'
  <2> TAKE i \in Instances
  <2>1. i[1] \in Devices /\ i[2] \in Nat
    BY DEF Instances, Versions
  <2>2. Top(i[1]) \in Nat /\ Top(i[1]) <= Top(i[1])'
    BY <2>1, TopType, TopGrows
  <2>3. Top(i[1])' \in Nat
    <3>1. TypeOK'
      BY NextType
    <3>2. name'[i[1]] \in Nat /\ \A c \in Cores : registered'[c] \in Nat \cup {None}
      BY <2>1, <3>1 DEF TypeOK, Versions
    <3> QED  BY <3>2 DEF Top
  <2> QED  BY <2>1, <2>2, <2>3
<1>2. announced \cup net \cup leaked \subseteq Instances
  BY DEF TypeOK
<1>3. \A c \in Cores : registered'[c] # None => registered'[c] <= name'[c]
  <2>1. ASSUME NEW c \in Cores, Register(c) \/ Unregister(c)
        PROVE  \A h \in Cores : registered'[h] # None => registered'[h] <= name'[h]
    <3>1. UNCHANGED name /\ name[c] \in Nat
      BY <2>1 DEF Register, Unregister, TypeOK, Versions, Devices
    <3>2. registered'[c] \in {name[c], None}
          /\ \A h \in Cores \ {c} : registered'[h] = registered[h]
      BY <2>1 DEF Register, Unregister, TypeOK
    <3> QED  BY <3>1, <3>2 DEF Bounded
  <2>2. ASSUME NEW c \in Cores, Rename(c)
        PROVE  \A h \in Cores : registered'[h] # None => registered'[h] <= name'[h]
    <3>1. \A h \in Cores : name[h] \in Nat /\ registered[h] \in Nat \cup {None}
      BY DEF TypeOK, Versions, Devices
    <3>2. \A h \in Cores : name'[h] \in {name[h], name[h] + 1}
      BY <2>2 DEF Rename, TypeOK, Devices
    <3>3. UNCHANGED registered
      BY <2>2 DEF Rename
    <3> QED  BY <3>1, <3>2, <3>3 DEF Bounded
  <2>3. ASSUME NEW o \in Others, Arrive(o)
        PROVE  \A h \in Cores : registered'[h] # None => registered'[h] <= name'[h]
    <3>1. UNCHANGED registered /\ \A h \in Cores : name'[h] = name[h]
      BY <2>3 DEF Arrive, TypeOK, Devices
    <3> QED  BY <3>1 DEF Bounded
  <2>4. CASE UNCHANGED <<registered, name>>
    BY <2>4 DEF Bounded
  <2> QED
    BY <2>1, <2>2, <2>3, <2>4 DEF Next, User, Task, StartNearby, StopNearby,
       RegisterFails, EnsureBrowse, Browse, BrowseFails, Claim, Subscribe, Unsubscribe,
       Clear, Pump, Take, ApplyEvent, Daemon, Announce, Expire, Leave, vars
<1>4. \A i \in announced' \cup net' \cup leaked' : Below(i)'
  <2>1. ASSUME NEW c \in Cores, Register(c)
        PROVE  \A i \in announced' \cup net' \cup leaked' : Below(i)'
    <3>1. UNCHANGED <<announced, leaked>> /\ net' = net \cup {<<c, name[c]>>}
      BY <2>1 DEF Register
    <3>2. Top(c)' = name[c] /\ name[c] \in Nat
      BY <2>1 DEF Top, Register, TypeOK, Versions, Devices
    <3> QED  BY <1>1, <1>2, <3>1, <3>2 DEF Bounded
  <2>2. ASSUME NEW c \in Cores, Unregister(c)
        PROVE  \A i \in announced' \cup net' \cup leaked' : Below(i)'
    <3>1. /\ announced' = announced /\ net' \subseteq net
          /\ leaked' \subseteq leaked \cup {<<c, registered[c]>>}
      BY <2>2 DEF Unregister
    <3>2. Top(c)' = name[c] /\ registered[c] <= name[c]
      BY <2>2 DEF Top, Unregister, TypeOK, Standing, Bounded, Goto
    <3> QED  BY <1>1, <1>2, <3>1, <3>2 DEF Bounded
  <2>3. ASSUME NEW o \in Others, Arrive(o)
        PROVE  \A i \in announced' \cup net' \cup leaked' : Below(i)'
    <3>1. PICK v \in name[o]..Renames :
              name' = [name EXCEPT ![o] = v] /\ net' = net \cup {<<o, v>>}
      BY <2>3 DEF Arrive
    <3>2. UNCHANGED <<announced, leaked>>
      BY <2>3 DEF Arrive
    <3>3. Top(o)' = v /\ v \in Nat
      BY <3>1 DEF Top, TypeOK, Devices, Versions
    <3> QED  BY <1>1, <1>2, <3>1, <3>2, <3>3 DEF Bounded
  <2>4. CASE announced' \cup net' \cup leaked' \subseteq announced \cup net \cup leaked
    BY <1>1, <1>2, <2>4 DEF Bounded
  <2> QED
    BY <2>1, <2>2, <2>3, <2>4 DEF Next, User, Task, StartNearby, StopNearby, Rename,
       RegisterFails, EnsureBrowse, Browse, BrowseFails, Claim, Subscribe, Unsubscribe,
       Clear, Pump, Take, ApplyEvent, Daemon, Announce, Expire, Leave, vars
<1>5. listener' # None => \A i \in Instances :
          Has(chan'[listener'], <<"resolved", i>>) => Below(i)'
  <2>1. ASSUME NEW c \in Cores, Browse(c)
        PROVE  listener' # None => \A i \in Instances :
                  Has(chan'[listener'], <<"resolved", i>>) => Below(i)'
    <3>1. chan'[listener'] = <<>>
      BY <2>1 DEF Browse, TypeOK
    <3> QED  BY <3>1 DEF Has
  <2>2. CASE Take
    <3>1. /\ pump \in Cores /\ chan[pump] \in Seq(Events) /\ chan[pump] # <<>>
          /\ UNCHANGED listener
          /\ chan' = [chan EXCEPT ![pump] = Tail(@)]
      BY <2>2 DEF Take, TypeOK
    <3>2. \A e : Has(Tail(chan[pump]), e) => Has(chan[pump], e)
      BY <3>1, TailFinal
    <3>3. listener # None => \A e : Has(chan'[listener], e) => Has(chan[listener], e)
      BY <3>1, <3>2 DEF TypeOK
    <3> QED  BY <1>1, <3>1, <3>3 DEF Bounded
  <2>3. ASSUME NEW i \in Instances, Announce(i) \/ Expire(i)
        PROVE  listener' # None => \A h \in Instances :
                  Has(chan'[listener'], <<"resolved", h>>) => Below(h)'
    <3> DEFINE s == chan[listener]
    <3>1. PICK x \in {<<"resolved", i>>, <<"removed", i>>} :
              Emit(x) /\ (x = <<"resolved", i>> => i \in net)
      BY <2>3 DEF Announce, Expire
    <3>2. listener \in Cores /\ s \in Seq(Events) /\ x \in Events /\ listener' = listener
      BY <2>3, <3>1 DEF Announce, Expire, Room, TypeOK, Events
    <3>3. chan'[listener] = Append(s, x)
      BY <3>1, <3>2 DEF Emit, TypeOK
    <3>4. \A e : Has(Append(s, x), e) => e = x \/ Has(s, e)
      BY <3>2, AppendBack
    <3> HIDE DEF s
    <3>5. ASSUME NEW h \in Instances, Has(Append(s, x), <<"resolved", h>>)
          PROVE  Below(h)
      <4>1. CASE Has(s, <<"resolved", h>>)
        BY <3>2, <4>1 DEF Bounded, s
      <4>2. CASE <<"resolved", h>> = x
        BY <3>1, <4>2 DEF Bounded
      <4> QED  BY <3>4, <3>5, <4>1, <4>2
    <3> QED  BY <1>1, <3>2, <3>3, <3>5
  <2>4. CASE UNCHANGED <<listener, chan>>
    BY <1>1, <2>4 DEF Bounded
  <2> QED
    BY <2>1, <2>2, <2>3, <2>4 DEF Next, User, Task, StartNearby, StopNearby, Rename,
       Register, Unregister, RegisterFails, EnsureBrowse, BrowseFails, Claim, Subscribe,
       Unsubscribe, Clear, Pump, ApplyEvent, Daemon, Arrive, Leave, vars
<1>6. \A o \in Others : Of(o, net') \subseteq {<<o, name'[o]>>} /\ Of(o, leaked') = {}
  <2>1. ASSUME NEW c \in Cores, Register(c) \/ Unregister(c)
        PROVE  \A o \in Others : Of(o, net') \subseteq {<<o, name'[o]>>} /\ Of(o, leaked') = {}
    BY <2>1 DEF Register, Unregister, Bounded, Of
  <2>2. ASSUME NEW c \in Cores, Rename(c)
        PROVE  \A o \in Others : Of(o, net') \subseteq {<<o, name'[o]>>} /\ Of(o, leaked') = {}
    <3>1. UNCHANGED <<net, leaked>> /\ \A o \in Others : name'[o] = name[o]
      BY <2>2 DEF Rename, TypeOK
    <3> QED  BY <3>1 DEF Bounded
  <2>3. ASSUME NEW o \in Others, Arrive(o)
        PROVE  \A h \in Others : Of(h, net') \subseteq {<<h, name'[h]>>} /\ Of(h, leaked') = {}
    <3>1. PICK v \in name[o]..Renames :
              name' = [name EXCEPT ![o] = v] /\ net' = net \cup {<<o, v>>}
      BY <2>3 DEF Arrive
    <3>2. UNCHANGED leaked /\ Of(o, net) = {} /\ name'[o] = v
          /\ \A h \in Others \ {o} : name'[h] = name[h]
      BY <2>3, <3>1 DEF Arrive, TypeOK, Devices
    <3> QED  BY <3>1, <3>2 DEF Bounded, Of
  <2>4. CASE net' \subseteq net /\ UNCHANGED <<name, leaked>>
    BY <2>4 DEF Bounded, Of
  <2> QED
    BY <2>1, <2>2, <2>3, <2>4 DEF Next, User, Task, StartNearby, StopNearby,
       RegisterFails, EnsureBrowse, Browse, BrowseFails, Claim, Subscribe, Unsubscribe,
       Clear, Pump, Take, ApplyEvent, Daemon, Announce, Expire, Leave, vars
<1> QED  BY <1>3, <1>4, <1>5, <1>6 DEF Bounded

\* An announced name that is in force after a step was in force before it.
LEMMA StaysNamed ==
  ASSUME TypeOK, Standing, Bounded, [Next]_vars, NEW d \in Devices,
         Clean(d)', <<d, Top(d)'>> \in announced
  PROVE  Top(d)' = Top(d) /\ Clean(d)
<1>1. Top(d) \in Nat /\ Top(d) <= Top(d)'
  BY TopType, TopGrows
<1>2. Top(d)' \in Nat
  <2>1. TypeOK'
    BY NextType
  <2>2. name'[d] \in Nat /\ \A c \in Cores : registered'[c] \in Nat \cup {None}
    BY <2>1 DEF TypeOK, Versions
  <2> QED  BY <2>2 DEF Top
<1>3. Top(d)' <= Top(d)
  BY DEF Bounded
<1> QED  BY <1>1, <1>2, <1>3, TopGrows

\* Of a device that left nothing behind, the network holds the name in force.
LEMMA NetNamed ==
  ASSUME TypeOK, Bounded, Advertised, NEW d \in Devices, Clean(d),
         NEW i \in net, i[1] = d
  PROVE  i = <<d, Top(d)>>
<1>1. i \in Of(d, net) /\ (i \in leaked => i \in Of(d, leaked))
  BY DEF Of
<1>2. CASE i \in leaked
  BY <1>1, <1>2 DEF Clean
<1>3. CASE i \notin leaked /\ d \in Cores
  BY <1>1, <1>3 DEF Advertised, Top
<1>4. CASE i \notin leaked /\ d \in Others
  BY <1>1, <1>4 DEF Bounded, Top
<1> QED  BY <1>2, <1>3, <1>4 DEF Devices

\* Every step keeps what a table has coming.
LEMMA NextKept ==
  ASSUME TypeOK, Standing, Advertised, Reader, Bounded, Kept, [Next]_vars
  PROVE  Kept'
<1> USE DEF session, browse, reading, network, history
<1> SUFFICES ASSUME listener' # None, NEW d \in Devices, NEW v, v = Top(d)',
                    Clean(d)', <<d, v>> \in announced'
             PROVE  /\ Has(chan'[listener'], <<"resolved", <<d, v>>>>)
                          => Final(chan'[listener'], <<d, v>>)
                    /\ pump' \in {None, listener'} => \A c \in subscribers' :
                          d \in Foreign \/ <<d, v>> \in missed'[c] \/ Arrives(c, <<d, v>>)'
  BY DEF Kept
<1> DEFINE i == <<d, v>>
<1>0. ASSUME i \in announced
      PROVE  Top(d) = v /\ Clean(d)
  BY <1>0, StaysNamed
<1>1. ASSUME i \in announced, listener # None
      PROVE  /\ Has(chan[listener], <<"resolved", i>>) => Final(chan[listener], i)
             /\ pump \in {None, listener} => \A c \in subscribers :
                   d \in Foreign \/ i \in missed[c] \/ Arrives(c, i)
  BY <1>0, <1>1 DEF Kept
<1>v. v \in Nat /\ v \in Versions /\ i \in Instances
  <2>1. TypeOK'
    BY NextType
  <2> QED  BY <2>1 DEF TypeOK, Instances, Versions
<1> DEFINE Goal == /\ Has(chan'[listener'], <<"resolved", i>>) => Final(chan'[listener'], i)
                   /\ pump' \in {None, listener'} => \A c \in subscribers' :
                         d \in Foreign \/ i \in missed'[c] \/ Arrives(c, i)'
<1> HIDE DEF i
<1> SUFFICES Goal
  BY DEF i
<1>2. ASSUME UNCHANGED <<listener, pump, chan, announced, hand, todo, missed>>,
             subscribers' \subseteq subscribers,
             \A c \in subscribers' : table'[c] = table[c]
      PROVE  Goal
  <2>1. \A c \in subscribers' : Arrives(c, i) => Arrives(c, i)'
    BY <1>2 DEF Arrives
  <2> QED  BY <1>1, <1>2, <2>1 DEF i
<1>3. ASSUME NEW h \in Cores, Browse(h)
      PROVE  Goal
  BY <1>3 DEF Browse
<1>4. ASSUME NEW h \in Cores, Claim(h)
      PROVE  Goal
  <2>1. CASE started
    <3>1. UNCHANGED <<listener, pump, chan, announced, hand, todo, missed, subscribers, table>>
      BY <1>4, <2>1 DEF Claim
    <3> QED  BY <1>2, <3>1
  <2>2. CASE ~started
    <3>1. pump = None /\ UNCHANGED <<listener, chan, announced, hand, todo, missed,
                                     subscribers, table>>
      BY <1>4, <2>2 DEF Claim, Reader
    <3>2. \A c \in subscribers : Arrives(c, i) => Arrives(c, i)'
      BY <3>1 DEF Arrives
    <3> QED  BY <1>1, <3>1, <3>2 DEF i
  <2> QED  BY <2>1, <2>2
<1>5. ASSUME NEW h \in Cores, Subscribe(h)
      PROVE  Goal
  <2>1. UNCHANGED <<listener, pump, chan, announced>>
        /\ subscribers' = subscribers \cup {h}
        /\ missed' = [missed EXCEPT ![h] = announced \ Awaited]
    BY <1>5 DEF Subscribe
  <2>2. \A c \in subscribers : c # h => c \in Cores /\ table'[c] = table[c] /\ missed'[c] = missed[c]
    BY <1>5 DEF Subscribe, TypeOK
  <2>3. \A c \in Cores : c # h => (c \in todo' <=> c \in todo) /\ (c \in todo => hand' = hand)
    BY <1>5 DEF Subscribe
  <2>4. \A c \in subscribers : c # h /\ Arrives(c, i) => Arrives(c, i)'
    BY <2>1, <2>2, <2>3 DEF Arrives
  <2>5. ASSUME i \notin missed'[h]
        PROVE  Arrives(h, i)'
    <3>1. i \in Awaited
      BY <2>1, <2>5 DEF TypeOK, i
    <3>2. PICK k \in 1..Len(chan[listener]) :
              chan[listener][k][1] = "resolved" /\ chan[listener][k][2] = i
      BY <3>1 DEF Awaited
    <3>3. chan[listener] \in Seq(Events)
      BY <2>1 DEF TypeOK
    <3>4. chan[listener][k] \in Events
      BY <3>2, <3>3
    <3>5. chan[listener][k] = <<"resolved", i>>
      BY <3>2, <3>4 DEF Events
    <3>6. Has(chan[listener], <<"resolved", i>>)
      BY <3>2, <3>5 DEF Has
    <3>7. Final(chan[listener], i)
      BY <1>1, <2>1, <3>6 DEF i
    <3> QED  BY <2>1, <3>7 DEF Arrives
  <2> QED  BY <1>1, <2>1, <2>2, <2>4, <2>5 DEF i
<1>6. ASSUME NEW h \in Cores, Clear(h)
      PROVE  Goal
  <2>1. h \notin subscribers /\ UNCHANGED <<listener, pump, chan, announced, hand, todo,
                                            missed, subscribers>>
    BY <1>6 DEF Clear, Goto, Standing
  <2>2. \A c \in subscribers' : table'[c] = table[c]
    BY <1>6, <2>1 DEF Clear, TypeOK
  <2> QED  BY <1>2, <2>1, <2>2
<1>7. CASE Take
  <2> DEFINE s == chan[pump]
  <2>1. pump \in Cores /\ s \in Seq(Events) /\ s # <<>> /\ pump # None
    BY <1>7 DEF Take, TypeOK
  <2>2. chan'[pump] = Tail(s) /\ \A c \in Cores \ {pump} : chan'[c] = chan[c]
    BY <1>7 DEF Take, TypeOK
  <2>3. UNCHANGED <<listener, pump, announced, table, subscribers, missed>>
        /\ todo = {} /\ todo' = subscribers
    BY <1>7 DEF Take
  <2>4. i \in announced /\ listener # None /\ listener \in Cores
    BY <2>3 DEF i, TypeOK
  <2>5. CASE pump # listener
    <3>1. chan'[listener'] = chan[listener]
      BY <2>2, <2>3, <2>4, <2>5
    <3> QED  BY <1>1, <2>1, <2>3, <2>4, <2>5, <3>1
  <2>6. CASE pump = listener
    <3> HIDE DEF s
    <3>1. /\ Final(s, i) => \/ Final(Tail(s), i)
                            \/ Head(s) = <<"resolved", i>> /\ Unspoilt(Tail(s), i)
          /\ Unspoilt(s, i) => ~Overrides(Head(s), i) /\ Unspoilt(Tail(s), i)
          /\ \A e : Has(Tail(s), e) => Has(s, e)
      BY <2>1, TailFinal
    <3>2. s = chan[listener] /\ chan'[listener'] = Tail(s)
      BY <2>2, <2>3, <2>6 DEF s
    <3>3. Has(Tail(s), <<"resolved", i>>) /\ Unspoilt(Tail(s), i) => Final(Tail(s), i)
      <4> SUFFICES ASSUME Has(Tail(s), <<"resolved", i>>), Unspoilt(Tail(s), i)
                   PROVE  Final(Tail(s), i)
        OBVIOUS
      <4>1. PICK k \in 1..Len(Tail(s)) : Tail(s)[k] = <<"resolved", i>>
        BY DEF Has
      <4>2. Len(Tail(s)) \in Nat
        BY <2>1
      <4>3. \A j \in (k + 1)..Len(Tail(s)) : j \in 1..Len(Tail(s))
        BY <4>2
      <4> QED  BY <4>1, <4>3 DEF Unspoilt, Final
    <3>4. Has(Tail(s), <<"resolved", i>>) => Final(Tail(s), i)
      BY <1>1, <2>4, <3>1, <3>2, <3>3
    <3>5. \A c \in subscribers : c \in todo' /\ hand' = Head(s) /\ c \notin todo
      BY <1>7 DEF Take, s
    <3>6. \A c \in subscribers : Arrives(c, i) => Arrives(c, i)'
      BY <2>3, <3>1, <3>2, <3>5 DEF Arrives
    <3> QED  BY <1>1, <2>3, <2>4, <2>6, <3>2, <3>4, <3>6
  <2> QED  BY <2>5, <2>6
<1>8. ASSUME NEW h \in Cores, ApplyEvent(h)
      PROVE  Goal
  <2>1. UNCHANGED <<listener, pump, chan, announced, subscribers, missed>> /\ h \in todo
    BY <1>8 DEF ApplyEvent
  <2>2. PICK k \in {"resolved", "removed"}, e \in Devices, w \in Versions : hand = <<k, <<e, w>>>>
    BY <2>1 DEF TypeOK, Events, Instances
  <2>3. table' = [table EXCEPT ![h] = Folded(table[h], k, e, w)]
    BY <1>8, <2>2 DEF ApplyEvent
  <2>4. todo' = todo \ {h} /\ (todo' # {} => hand' = hand)
    BY <1>8 DEF ApplyEvent
  <2>5. i \in announced /\ listener # None
    BY <2>1 DEF i
  <2>6. ASSUME NEW c \in subscribers, d \notin Foreign, Arrives(c, i)
        PROVE  Arrives(c, i)'
    <3>1. CASE c # h
      <4>1. table'[c] = table[c] /\ (c \in todo' <=> c \in todo) /\ (c \in todo => hand' = hand)
        BY <2>3, <2>4, <3>1 DEF TypeOK
      <4> QED  BY <2>1, <2>6, <4>1 DEF Arrives
    <3>2. CASE c = h
      <4>1. h \notin todo' /\ i[1] = d /\ i[2] = v
        BY <2>4 DEF i
      <4>2. CASE Final(chan[listener], i)
        BY <2>1, <4>2 DEF Arrives
      <4>3. CASE Unspoilt(chan[listener], i) /\ hand = <<"resolved", i>>
        <5>1. k = "resolved" /\ e = d /\ w = v
          BY <2>2, <4>3 DEF i
        <5>2. table'[h][d] = v
          BY <2>3, <2>6, <5>1 DEF TypeOK, Folded
        <5> QED  BY <2>1, <3>2, <4>1, <4>3, <5>2 DEF Arrives
      <4>4. CASE Unspoilt(chan[listener], i) /\ table[h][d] = v /\ ~Overrides(hand, i)
        <5>1. ~(k = "removed" /\ e = d /\ w = v)
          BY <2>2, <4>4 DEF Overrides, i
        <5>2. ~(k = "resolved" /\ e = d /\ w # v)
          BY <2>2, <4>1, <4>4 DEF Overrides
        <5>3. v # None
          BY <1>v
        <5>4. table'[h][d] = v
          BY <2>3, <4>4, <5>1, <5>2, <5>3 DEF TypeOK, Folded
        <5> QED  BY <2>1, <3>2, <4>1, <4>4, <5>4 DEF Arrives
      <4> QED  BY <2>1, <2>6, <3>2, <4>1, <4>2, <4>3, <4>4 DEF Arrives
    <3> QED  BY <3>1, <3>2
  <2> QED  BY <1>1, <2>1, <2>5, <2>6
<1>9. ASSUME NEW j \in Instances, Announce(j) \/ Expire(j)
      PROVE  Goal
  <2> DEFINE s == chan[listener]
  <2>1. PICK x \in {<<"resolved", j>>, <<"removed", j>>} :
            /\ Emit(x)
            /\ x = <<"resolved", j>> => j \in net \ announced /\ announced' = announced \cup {j}
            /\ x = <<"removed", j>> => announced' = announced \ {j}
    BY <1>9 DEF Announce, Expire
  <2>2. listener \in Cores /\ s \in Seq(Events) /\ x \in Events
    BY <1>9, <2>1 DEF Announce, Expire, Room, TypeOK, Events
  <2>3. chan'[listener] = Append(s, x)
    BY <2>1, <2>2 DEF Emit, TypeOK
  <2>4. UNCHANGED <<listener, pump, hand, todo, table, subscribers>>
        /\ \A c \in Cores : missed[c] \ {j} \subseteq missed'[c]
    BY <1>9 DEF Announce, Expire
  <2>5. i \in announced' /\ subscribers \subseteq Cores
    BY DEF i, TypeOK
  <2> HIDE DEF s
  <2>6. CASE i \notin announced
    <3>1. i = j /\ x = <<"resolved", i>>
      BY <2>1, <2>5, <2>6
    <3>2. Final(Append(s, x), i)
      BY <2>2, <3>1, AppendSelf
    <3> QED  BY <2>3, <2>4, <3>2 DEF Arrives
  <2>7. CASE i \in announced
    <3>1. i # j
      BY <2>1, <2>5, <2>7
    <3>2. j \in net => j[1] # d
      <4>1. j \in net /\ j[1] = d => j = <<d, Top(d)>>
        BY <1>0, <2>7, NetNamed
      <4> QED  BY <1>0, <2>7, <3>1, <4>1 DEF i
    <3>3. ~Overrides(x, i) /\ x # <<"resolved", i>>
      BY <2>1, <3>1, <3>2 DEF Overrides, i
    <3>4. /\ Final(s, i) => Final(Append(s, x), i)
          /\ Unspoilt(s, i) => Unspoilt(Append(s, x), i)
      BY <2>2, <3>3, AppendFinal
    <3>5. Has(Append(s, x), <<"resolved", i>>) => Has(s, <<"resolved", i>>)
      BY <2>2, <3>3, AppendBack
    <3>6. \A c \in subscribers : Arrives(c, i) => Arrives(c, i)'
      BY <2>3, <2>4, <3>4 DEF Arrives, s
    <3>7. listener # None
      BY <2>4
    <3> QED  BY <1>1, <2>3, <2>4, <2>5, <2>7, <3>1, <3>4, <3>5, <3>6, <3>7 DEF s
  <2> QED  BY <2>6, <2>7
<1>10. CASE \/ \E c \in Cores : User(c) \/ Register(c) \/ RegisterFails(c) \/ EnsureBrowse(c)
                                \/ BrowseFails(c) \/ Unregister(c) \/ Unsubscribe(c)
            \/ \E o \in Others : Arrive(o) \/ Leave(o)
            \/ UNCHANGED vars
  BY <1>2, <1>10 DEF User, StartNearby, StopNearby, Rename, Register, RegisterFails,
     EnsureBrowse, BrowseFails, Unregister, Unsubscribe, Arrive, Leave, vars
<1> QED
  BY <1>3, <1>4, <1>5, <1>6, <1>7, <1>8, <1>9, <1>10 DEF Next, Task, Pump, Daemon

\* The inductive invariant of the lists holds in every reachable state.
LEMMA KeptHolds == Spec => [](TypeOK /\ Standing /\ Advertised /\ Bounded /\ Kept)
<1>1. Init => Reader
  BY InitServed
<1>2. TypeOK /\ Standing /\ Advertised /\ Reader /\ Bounded /\ Kept /\ [Next]_vars
         => (Reader /\ Bounded /\ Kept)'
  BY NextReader, NextBounded, NextKept
<1> QED  BY <1>1, <1>2, InitKept, StandingHolds, PTL DEF Spec

\* Once every event has been applied, a session lists every announced device
\* that advertises itself, under its present name: whatever the order of renames,
\* goodbyes, restarts of sessions and steps of the pump, an announcement is lost
\* only on a table that did not exist yet, or behind a refused unregistration.
THEOREM NoDeviceLeftOut == Spec => []ListedUnlessMissed
<1>1. TypeOK /\ Advertised /\ Bounded /\ Kept => ListedUnlessMissed
  <2> SUFFICES ASSUME TypeOK, Advertised, Bounded, Kept, Quiet,
                      NEW c \in subscribers, NEW i \in announced \cap net,
                      i[1] \notin Foreign, i \notin missed[c], Of(i[1], leaked) = {}
               PROVE  table[c][i[1]] = i[2]
    BY DEF ListedUnlessMissed
  <2> DEFINE d == i[1]
  <2>1. d \in Devices /\ Clean(d)
    BY DEF TypeOK, Instances, Clean
  <2>2. i = <<d, Top(d)>>
    BY <2>1, NetNamed
  <2>3. listener # None /\ pump = listener /\ chan[listener] = <<>> /\ todo = {}
    BY DEF Quiet
  <2>4. Arrives(c, i)
    BY <2>1, <2>2, <2>3 DEF Kept
  <2>5. ~Final(chan[listener], i)
    BY <2>3 DEF Final
  <2> QED  BY <2>3, <2>4, <2>5 DEF Arrives
<1> QED  BY <1>1, KeptHolds, PTL

=============================================================================
