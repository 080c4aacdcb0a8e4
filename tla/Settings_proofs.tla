-------------------------- MODULE Settings_proofs ---------------------------
(***************************************************************************)
(* What TLAPS proves about Settings, for any number of calls, names and    *)
(* devices, and any limit of the counters.                                 *)
(***************************************************************************)
EXTENDS Settings, TLAPS

USE CountAssumption, CallAssumption, ValueAssumption

\* The defaults are settings.
LEMMA DefaultType == Default \in AllSettings
  BY DEF Default, AllSettings

\* A change of one field leaves settings.
LEMMA ChangeType ==
  ASSUME NEW s \in AllSettings
  PROVE  /\ \A v \in BOOLEAN : [s EXCEPT !.nearby_on = v] \in AllSettings
         /\ \A n \in Names : [s EXCEPT !.name = n] \in AllSettings
         /\ \A p \in Peers : [s EXCEPT !.trusted[p] = 0] \in AllSettings
         /\ \A p \in Peers :
               [s EXCEPT !.trusted[p] = IF @ < MaxCount THEN @ + 1 ELSE @] \in AllSettings
<1>1. \A v \in BOOLEAN : [s EXCEPT !.nearby_on = v] \in AllSettings
  BY DEF AllSettings
<1>2. \A n \in Names : [s EXCEPT !.name = n] \in AllSettings
  BY DEF AllSettings
<1>3. ASSUME NEW p \in Peers, NEW k \in 0..MaxCount
      PROVE  [s EXCEPT !.trusted[p] = k] \in AllSettings
  <2>1. [s.trusted EXCEPT ![p] = k] \in [Peers -> 0..MaxCount]
    BY DEF AllSettings
  <2> QED  BY <2>1 DEF AllSettings
<1>4. ASSUME NEW p \in Peers
      PROVE  (IF s.trusted[p] < MaxCount THEN s.trusted[p] + 1 ELSE s.trusted[p]) \in 0..MaxCount
  <2>1. s.trusted[p] \in 0..MaxCount
    BY DEF AllSettings
  <2> QED  BY <2>1
<1>5. 0 \in 0..MaxCount
  OBVIOUS
<1> QED  BY <1>1, <1>2, <1>3, <1>4, <1>5

\* What a restart loads is settings, and names the engine.
LEMMA LoadedType ==
  ASSUME NEW f \in AllSettings \cup {Empty, Torn}
  PROVE  Loaded(f) \in AllSettings /\ (f \in AllSettings => Loaded(f) = f)
  BY DefaultType DEF Loaded

\* The name of any settings is a name or the host's.
LEMMA NameOfType ==
  ASSUME NEW s \in AllSettings
  PROVE  NameOf(s) \in Names \cup {Host}
  BY DEF NameOf, AllSettings

\* What a call carries while it is under way.
Carried ==
    \A t \in Calls :
        /\ stage[t] = "renamed" => wish[t] \in Names
        /\ stage[t] \in {"open", "write", "reply"} => snapshot[t] \in AllSettings

\* The process starts with the defaults, no call under way.
LEMMA InitType == Init => TypeOK /\ Carried
<1> SUFFICES ASSUME Init  PROVE TypeOK /\ Carried
  OBVIOUS
<1>1. PICK k \in Commands :
          /\ stage    = [t \in Calls |-> IF t = k THEN "reply" ELSE "idle"]
          /\ snapshot = [t \in Calls |-> IF t = k THEN Default ELSE None]
  BY DEF Init
<1>2. /\ stage \in [Calls -> {"idle", "renamed", "open", "write", "reply"}]
      /\ \A t \in Commands : stage[t] # "renamed"
      /\ snapshot \in [Calls -> AllSettings \cup {None}]
  BY <1>1, DefaultType DEF Calls
<1>3. Carried
  BY <1>1, DefaultType DEF Carried
<1> QED  BY <1>2, <1>3, DefaultType DEF Init, TypeOK

\* What every update does, whoever calls it.
LEMMA UpdateType ==
  ASSUME TypeOK, NEW t \in Calls, NEW new \in AllSettings, Update(t, new)
  PROVE  /\ settings' \in AllSettings /\ snapshot' \in [Calls -> AllSettings \cup {None}]
         /\ whole' \in BOOLEAN
         /\ UNCHANGED <<file, prefs, engine>>
  BY DEF TypeOK, Update

\* A command updates memory and takes its snapshot within the domains.
LEMMA CommandType ==
  ASSUME TypeOK, NEW t \in Commands, NEW new \in AllSettings, Command(t, new)
  PROVE  TypeOK'
<1>1. t \in Calls
  BY DEF Calls
<1>2. /\ settings' \in AllSettings /\ snapshot' \in [Calls -> AllSettings \cup {None}]
      /\ whole' \in BOOLEAN /\ UNCHANGED <<file, prefs, engine, wish, named>>
  BY <1>1, UpdateType DEF Command
<1>3. calm' \in BOOLEAN
  BY Zenon DEF Command, Begins
<1>4. /\ stage' \in [Calls -> {"idle", "renamed", "open", "write", "reply"}]
      /\ \A u \in Commands : stage'[u] # "renamed"
  BY <1>1 DEF Command, Goto, TypeOK
<1> QED  BY <1>2, <1>3, <1>4 DEF TypeOK

\* The calls of all threads, failures of writes and restarts keep every variable in its domain.
LEMMA NextType ==
  ASSUME TypeOK, Carried, [Next]_vars
  PROVE  TypeOK'
<1> DEFINE Staged == /\ stage \in [Calls -> {"idle", "renamed", "open", "write", "reply"}]
                     /\ \A u \in Commands : stage[u] # "renamed"
<1>0. settings \in AllSettings /\ Staged
  BY DEF TypeOK
<1>1. ASSUME NEW t \in Commands, NEW v \in BOOLEAN, SetPref(t, v)
      PROVE  TypeOK'
  BY <1>0, <1>1, ChangeType, CommandType DEF SetPref
<1>2. ASSUME NEW t \in Commands, NEW p \in Peers, Remember(t, p) \/ Forget(t, p)
      PROVE  TypeOK'
  BY <1>0, <1>2, ChangeType, CommandType DEF Remember, Forget
<1>3. ASSUME NEW t \in Commands, Load(t)
      PROVE  TypeOK'
  <2>1. t \in Calls
    BY DEF Calls
  <2>2. calm' \in BOOLEAN
    BY <1>3, Zenon DEF Load, Begins
  <2>3. Staged'
    BY <1>0, <1>3, <2>1 DEF Load, Goto
  <2> QED  BY <1>0, <1>3, <2>1, <2>2, <2>3 DEF Load, TypeOK
<1>4. ASSUME NEW t \in Renamers, NEW n \in Names, SetDeviceName(t, n)
      PROVE  TypeOK'
  <2>1. t \in Calls /\ t \notin Commands
    BY DEF Calls
  <2>2. Staged' /\ wish' \in [Calls -> Names \cup {None}] /\ named' \in BOOLEAN /\ calm' \in BOOLEAN
    <3>1. CASE UNCHANGED <<stage, wish, calm>> /\ named' = FALSE
      BY <3>1 DEF TypeOK
    <3>2. CASE stage' = [stage EXCEPT ![t] = "renamed"] /\ wish' = [wish EXCEPT ![t] = n]
               /\ named' = (\A u \in Renamers \ {t} : stage[u] # "renamed") /\ Begins(t)
      <4>1. named' \in BOOLEAN /\ calm' \in BOOLEAN
        BY <3>2, Zenon DEF Begins
      <4> QED  BY <1>0, <2>1, <3>2, <4>1 DEF TypeOK
    <3> QED  BY <1>4, <3>1, <3>2 DEF SetDeviceName, Goto
  <2>3. engine' \in Names \cup {Host} /\ UNCHANGED <<settings, file, snapshot, prefs, whole>>
    BY <1>4 DEF SetDeviceName
  <2> QED  BY <2>2, <2>3 DEF TypeOK
<1>5. ASSUME NEW t \in Calls, StoreName(t)
      PROVE  TypeOK'
  <2>1. t \notin Commands /\ wish[t] \in Names \cup {None}
    BY <1>5 DEF TypeOK, StoreName, Goto
  <2>2. [settings EXCEPT !.name = wish[t]] \in AllSettings
    BY <1>0, <2>1 DEF AllSettings
  <2>3. /\ settings' \in AllSettings /\ snapshot' \in [Calls -> AllSettings \cup {None}]
        /\ whole' \in BOOLEAN
        /\ UNCHANGED <<file, prefs, engine, calm, named>>
    BY <1>5, <2>2, UpdateType DEF StoreName
  <2>4. Staged' /\ wish' \in [Calls -> Names \cup {None}]
    BY <1>5, <2>1 DEF StoreName, Goto, TypeOK
  <2> QED  BY <2>3, <2>4 DEF TypeOK
<1>6. ASSUME NEW t \in Calls, Open(t)
      PROVE  TypeOK'
  BY <1>6 DEF Open, Goto, TypeOK
<1>7. ASSUME NEW t \in Calls, Write(t) \/ WriteFails(t)
      PROVE  TypeOK'
  <2>0. snapshot[t] \in AllSettings
    BY <1>7 DEF Write, WriteFails, Goto, Carried
  <2>1. UNCHANGED <<settings, wish, snapshot, prefs, engine, calm, named>>
    BY <1>7 DEF Write, WriteFails
  <2>2. Staged'
    <3>1. stage' = [stage EXCEPT ![t] = "reply"]
      BY <1>7 DEF Write, WriteFails, Goto
    <3> QED  BY <1>0, <3>1
  <2>3. file' \in AllSettings \cup {Empty, Torn} /\ whole' \in BOOLEAN
    BY <1>7, <2>0 DEF Write, WriteFails, TypeOK
  <2> QED  BY <2>1, <2>2, <2>3 DEF TypeOK
<1>8. ASSUME NEW t \in Calls, Reply(t) \/ Drop(t)
      PROVE  TypeOK'
  <2>1. snapshot[t] \in AllSettings
    BY <1>8 DEF Reply, Drop, Goto, Carried
  <2>2. prefs' \in AllSettings /\ calm' \in BOOLEAN
    BY <1>8, <2>1 DEF Reply, Drop, TypeOK
  <2>3. /\ stage' = [stage EXCEPT ![t] = "idle"] /\ snapshot' = [snapshot EXCEPT ![t] = None]
        /\ UNCHANGED <<settings, file, wish, engine, whole, named>>
    BY <1>8 DEF Reply, Drop, Goto
  <2> QED  BY <2>2, <2>3 DEF TypeOK
<1>9. CASE Restart
  <2>1. settings' \in AllSettings /\ engine' \in Names \cup {Host}
    BY <1>9, LoadedType, NameOfType DEF Restart, TypeOK
  <2>2. PICK k \in Commands :
            /\ stage'    = [t \in Calls |-> IF t = k THEN "reply" ELSE "idle"]
            /\ snapshot' = [t \in Calls |-> IF t = k THEN settings' ELSE None]
    BY <1>9 DEF Restart
  <2>3. Staged' /\ snapshot' \in [Calls -> AllSettings \cup {None}]
    BY <2>1, <2>2 DEF Calls
  <2>4. wish' \in [Calls -> Names \cup {None}]
    BY <1>9 DEF Restart
  <2> QED  BY <1>9, <2>1, <2>3, <2>4, DefaultType DEF Restart, TypeOK
<1>10. CASE UNCHANGED vars
  BY <1>10 DEF vars, TypeOK
<1> QED
  BY <1>1, <1>2, <1>3, <1>4, <1>5, <1>6, <1>7, <1>8, <1>9, <1>10
     DEF Next, User, Store, Window

\* A call that has yet to write, or to be heard, carries the snapshot it took.
LEMMA NextCarried ==
  ASSUME TypeOK, Carried, [Next]_vars
  PROVE  Carried'
<1>0. settings \in AllSettings
  BY DEF TypeOK
<1>1. ASSUME NEW t \in Commands, NEW new \in AllSettings, Command(t, new)
      PROVE  Carried'
  BY <1>1 DEF Carried, Command, Update, Goto, TypeOK
<1>2. ASSUME NEW t \in Commands,
             \/ \E v \in BOOLEAN : SetPref(t, v)
             \/ \E p \in Peers : Remember(t, p) \/ Forget(t, p)
      PROVE  Carried'
  BY <1>0, <1>1, <1>2, ChangeType DEF SetPref, Remember, Forget
<1>3. ASSUME NEW t \in Commands, Load(t)
      PROVE  Carried'
  BY <1>0, <1>3 DEF Carried, Load, Goto, TypeOK
<1>4. ASSUME NEW t \in Renamers, NEW n \in Names, SetDeviceName(t, n)
      PROVE  Carried'
  <2>1. t \in Calls
    BY DEF Calls
  <2> QED  BY <1>4, <2>1 DEF Carried, SetDeviceName, Goto, TypeOK
<1>5. ASSUME NEW t \in Calls, StoreName(t)
      PROVE  Carried'
  <2>1. wish[t] \in Names
    BY <1>5 DEF Carried, StoreName, Goto
  <2>2. [settings EXCEPT !.name = wish[t]] \in AllSettings
    BY <1>0, <2>1, ChangeType
  <2> QED  BY <1>5, <2>2 DEF Carried, StoreName, Update, Goto, TypeOK
<1>6. ASSUME NEW t \in Calls, Open(t) \/ Write(t) \/ WriteFails(t)
      PROVE  Carried'
  <2>1. stage[t] \in {"open", "write"} /\ UNCHANGED <<wish, snapshot>>
    BY <1>6 DEF Open, Write, WriteFails, Goto
  <2>2. \A u \in Calls \ {t} : stage'[u] = stage[u]
    BY <1>6 DEF Open, Write, WriteFails, Goto, TypeOK
  <2>3. stage'[t] # "renamed"
    BY <1>6 DEF Open, Write, WriteFails, Goto, TypeOK
  <2> QED  BY <2>1, <2>2, <2>3 DEF Carried
<1>7. ASSUME NEW t \in Calls, Reply(t) \/ Drop(t)
      PROVE  Carried'
  <2>1. stage' = [stage EXCEPT ![t] = "idle"] /\ snapshot' = [snapshot EXCEPT ![t] = None]
        /\ UNCHANGED wish
    BY <1>7 DEF Reply, Drop, Goto
  <2> QED  BY <2>1 DEF Carried, TypeOK
<1>8. CASE Restart
  <2>1. settings' \in AllSettings
    BY <1>8, LoadedType DEF Restart, TypeOK
  <2> QED  BY <1>8, <2>1 DEF Carried, Restart
<1>9. CASE UNCHANGED vars
  BY <1>9 DEF Carried, vars
<1> QED
  BY <1>2, <1>3, <1>4, <1>5, <1>6, <1>7, <1>8, <1>9 DEF Next, User, Store, Window

\* The last update, when it was alone: it is done and on disk, or one call still
\* carries the settings there are to an empty or unopened file.
Written ==
    whole =>
        \/ Writing = {} /\ Loaded(file) = settings
        \/ \E t \in Calls : /\ Writing = {t} /\ snapshot[t] = settings
                            /\ stage[t] = "write" => file = Empty

\* The last call, when it was alone: the window has heard it, or it is the only one
\* under way, and has yet to store its name or carries the settings there are.
Told ==
    calm =>
        \/ UnderWay = {} /\ prefs = settings
        \/ \E t \in Calls : /\ UnderWay = {t}
                            /\ stage[t] = "renamed" \/ snapshot[t] = settings

\* The last rename, when it was alone: stored, or about to be.
Naming ==
    named =>
        \/ (\A t \in Renamers : stage[t] # "renamed") /\ engine = NameOf(settings)
        \/ \E t \in Renamers : /\ \A u \in Renamers : stage[u] = "renamed" <=> u = t
                               /\ wish[t] = engine

\* At first every copy holds, or loads as, the defaults, and the window has asked
\* for the settings.
LEMMA InitCopies == Init => Written /\ Told /\ Naming
<1> SUFFICES ASSUME Init  PROVE Written /\ Told /\ Naming
  OBVIOUS
<1>1. PICK k \in Commands :
          /\ stage    = [t \in Calls |-> IF t = k THEN "reply" ELSE "idle"]
          /\ snapshot = [t \in Calls |-> IF t = k THEN Default ELSE None]
  BY DEF Init
<1>2. Writing = {} /\ UnderWay = {k} /\ snapshot[k] = Default /\ k \in Calls
  BY <1>1 DEF Writing, UnderWay, Calls
<1>3. Written
  BY <1>2 DEF Init, Written, Loaded
<1>4. Told
  BY <1>2 DEF Init, Told
<1>5. (\A t \in Renamers : stage[t] # "renamed") /\ NameOf(Default) = Host
  BY <1>1 DEF Calls, NameOf, Default
<1> QED  BY <1>3, <1>4, <1>5 DEF Init, Naming

\* An update leaves its settings in memory and in the hands of its call, which is
\* alone in writing when the update says so.
LEMMA UpdateWritten ==
  ASSUME TypeOK, NEW t \in Calls, NEW from \in {"idle", "renamed"}, NEW new,
         Goto(t, from, "open"), Update(t, new)
  PROVE  /\ Written' /\ snapshot'[t] = settings' /\ stage'[t] = "open"
         /\ UnderWay' = UnderWay \cup {t}
<1>1. Writing' = Writing \cup {t}
  BY DEF Writing, Goto, TypeOK
<1>2. snapshot'[t] = settings' /\ stage'[t] = "open"
  BY DEF Update, Goto, TypeOK
<1>3. whole' => Writing' = {t}
  BY <1>1 DEF Update
<1>4. UnderWay' = UnderWay \cup {t}
  BY DEF UnderWay, Goto, TypeOK
<1> QED  BY <1>2, <1>3, <1>4 DEF Written

\* A change of anything but the name.
LEMMA CommandCopies ==
  ASSUME TypeOK, Naming, NEW t \in Commands, NEW new, new.name = settings.name, Command(t, new)
  PROVE  Written' /\ Told' /\ Naming'
<1>1. t \in Calls
  BY DEF Calls
<1>2. Written' /\ snapshot'[t] = settings' /\ UnderWay' = UnderWay \cup {t}
  BY <1>1, UpdateWritten DEF Command
<1>3. Told'
  <2>1. calm' => UnderWay' = {t}
    BY <1>2 DEF Command, Begins
  <2> QED  BY <1>1, <1>2, <2>1 DEF Told
<1>4. NameOf(settings') = NameOf(settings)
  BY DEF Command, Update, NameOf
<1>5. \A u \in Renamers : stage'[u] = stage[u] /\ wish'[u] = wish[u]
  BY <1>1 DEF Command, Goto, TypeOK, Calls
<1>6. UNCHANGED <<engine, named>>
  BY DEF Command, Update
<1> QED  BY <1>2, <1>3, <1>4, <1>5, <1>6 DEF Naming

\* While one update writes, what the file holds follows its stage; while one call is
\* under way, what the window will hear is what there is.
LEMMA NextCopies ==
  ASSUME TypeOK, Carried, Written, Told, Naming, [Next]_vars
  PROVE  Written' /\ Told' /\ Naming'
<1>1. ASSUME NEW t \in Commands,
             \/ \E v \in BOOLEAN : SetPref(t, v)
             \/ \E p \in Peers : Remember(t, p) \/ Forget(t, p)
      PROVE  Written' /\ Told' /\ Naming'
  <2>1. settings \in AllSettings
    BY DEF TypeOK
  <2>2. /\ \A v \in BOOLEAN : [settings EXCEPT !.nearby_on = v].name = settings.name
        /\ \A p \in Peers : [settings EXCEPT !.trusted[p] = 0].name = settings.name
        /\ \A p \in Peers : [settings EXCEPT !.trusted[p] =
                               IF @ < MaxCount THEN @ + 1 ELSE @].name = settings.name
    BY <2>1 DEF AllSettings
  <2> QED  BY <1>1, <2>2, CommandCopies DEF SetPref, Remember, Forget
<1>2. ASSUME NEW t \in Commands, Load(t)
      PROVE  Written' /\ Told' /\ Naming'
  <2>1. t \in Calls /\ stage[t] = "idle" /\ stage' = [stage EXCEPT ![t] = "reply"]
    BY <1>2 DEF Load, Goto, Calls
  <2>2. /\ Writing' = Writing /\ t \notin Writing /\ UnderWay' = UnderWay \cup {t}
        /\ \A u \in Calls \ {t} : stage'[u] = stage[u] /\ snapshot'[u] = snapshot[u]
    BY <1>2, <2>1 DEF Load, Writing, UnderWay, TypeOK
  <2>3. snapshot'[t] = settings /\ UNCHANGED <<settings, file, wish, prefs, engine, whole, named>>
    BY <1>2, <2>1 DEF Load, TypeOK
  <2>4. Written'
    BY <2>2, <2>3 DEF Written
  <2>5. Told'
    <3>1. calm' => UnderWay' = {t}
      BY <1>2, <2>2 DEF Load, Begins
    <3> QED  BY <2>1, <2>3, <3>1 DEF Told
  <2>6. \A u \in Renamers : u \in Calls \ {t}
    BY DEF Calls
  <2> QED  BY <2>2, <2>3, <2>4, <2>5, <2>6 DEF Naming
<1>3. ASSUME NEW t \in Renamers, NEW n \in Names, SetDeviceName(t, n)
      PROVE  Written' /\ Told' /\ Naming'
  <2>1. t \in Calls
    BY DEF Calls
  <2>2. Writing' = Writing /\ UNCHANGED <<settings, file, snapshot, prefs, whole>>
    BY <1>3, <2>1 DEF SetDeviceName, Goto, TypeOK, Writing
  <2>3. \A u \in Calls : u \in Writing => stage'[u] = stage[u]
    BY <1>3, <2>1 DEF SetDeviceName, Goto, TypeOK, Writing
  <2>4. Written'
    BY <2>2, <2>3 DEF Written
  <2>5. Told'
    <3>1. CASE Goto(t, "idle", "renamed") /\ Begins(t)
      <4>1. UnderWay' = UnderWay \cup {t} /\ stage'[t] = "renamed"
        BY <2>1, <3>1 DEF UnderWay, Goto, TypeOK
      <4>2. calm' => UnderWay' = {t}
        BY <3>1, <4>1 DEF Begins
      <4> QED  BY <2>1, <4>1, <4>2 DEF Told
    <3>2. CASE UNCHANGED <<stage, calm>>
      <4>1. UnderWay' = UnderWay
        BY <3>2 DEF UnderWay
      <4> QED  BY <2>2, <3>2, <4>1 DEF Told
    <3> QED  BY <1>3, <3>1, <3>2 DEF SetDeviceName
  <2>6. ASSUME named'
        PROVE  /\ \A u \in Renamers : stage'[u] = "renamed" <=> u = t
               /\ wish'[t] = engine'
    BY <1>3, <2>1, <2>6 DEF SetDeviceName, Goto, TypeOK, Calls
  <2> QED  BY <2>4, <2>5, <2>6 DEF Naming
<1>4. ASSUME NEW t \in Calls, StoreName(t)
      PROVE  Written' /\ Told' /\ Naming'
  <2>1. Written' /\ snapshot'[t] = settings' /\ UnderWay' = UnderWay \cup {t}
    BY <1>4, UpdateWritten DEF StoreName
  <2>2. t \in Renamers /\ stage[t] = "renamed" /\ wish[t] \in Names
    BY <1>4 DEF StoreName, Goto, TypeOK, Carried, Calls
  <2>3. stage' = [stage EXCEPT ![t] = "open"] /\ UNCHANGED <<engine, calm, named>>
    BY <1>4 DEF StoreName, Goto, Update
  <2>4. Told'
    <3>1. calm => UnderWay = {t}
      BY <2>2 DEF Told, UnderWay
    <3> QED  BY <2>1, <2>3, <3>1 DEF Told
  <2>5. settings'.name = wish[t]
    BY <1>4 DEF StoreName, Update, TypeOK, AllSettings
  <2>6. NameOf(settings') = wish[t]
    BY <2>2, <2>5 DEF NameOf
  <2>7. ASSUME named
        PROVE  wish[t] = engine /\ \A u \in Renamers : stage[u] = "renamed" <=> u = t
    BY <2>2, <2>7 DEF Naming
  <2>8. named => \A u \in Renamers : stage'[u] # "renamed"
    BY <2>3, <2>7 DEF TypeOK, Calls
  <2> QED  BY <2>1, <2>3, <2>4, <2>6, <2>7, <2>8 DEF Naming
<1>5. ASSUME NEW t \in Calls, Open(t)
      PROVE  Written' /\ Told' /\ Naming'
  <2>1. /\ Writing' = Writing /\ UnderWay' = UnderWay
        /\ stage' = [stage EXCEPT ![t] = "write"] /\ t \in Writing /\ file' = Empty
    BY <1>5 DEF Open, Goto, TypeOK, Writing, UnderWay
  <2>2. UNCHANGED <<settings, wish, snapshot, prefs, engine, whole, calm, named>>
    BY <1>5 DEF Open
  <2>3. \A u \in Calls : stage'[u] = "renamed" <=> stage[u] = "renamed"
    BY <1>5, <2>1 DEF Open, Goto, TypeOK
  <2>4. \A u \in Renamers : stage'[u] = "renamed" <=> stage[u] = "renamed"
    BY <2>3 DEF Calls
  <2>5. Written'
    BY <2>1, <2>2 DEF Written
  <2>6. Told'
    BY <2>1, <2>2, <2>3 DEF Told
  <2> QED  BY <2>2, <2>4, <2>5, <2>6 DEF Naming
<1>6. ASSUME NEW t \in Calls, Write(t) \/ WriteFails(t)
      PROVE  Written' /\ Told' /\ Naming'
  <2>1. /\ Writing' = Writing \ {t} /\ t \in Writing /\ UnderWay' = UnderWay
        /\ snapshot[t] \in AllSettings
    BY <1>6 DEF Write, WriteFails, Goto, TypeOK, Writing, UnderWay, Carried
  <2>2. UNCHANGED <<settings, wish, snapshot, prefs, engine, calm, named>>
    BY <1>6 DEF Write, WriteFails
  <2>3. \A u \in Calls : stage'[u] = IF u = t THEN "reply" ELSE stage[u]
    BY <1>6 DEF Write, WriteFails, Goto, TypeOK
  <2>4. \A u \in Calls : stage'[u] = "renamed" <=> stage[u] = "renamed"
    BY <2>1, <2>3 DEF Writing
  <2>5. Naming'
    BY <2>2, <2>4 DEF Naming, Calls
  <2>6. Told'
    BY <2>1, <2>2, <2>4 DEF Told
  <2>7. Written'
    <3> SUFFICES ASSUME whole'
                 PROVE  Writing' = {} /\ Loaded(file') = settings'
      BY DEF Written
    <3>1. Write(t) /\ whole
      BY <1>6 DEF Write, WriteFails
    <3>2. Writing = {t} /\ snapshot[t] = settings /\ file = Empty
      BY <2>1, <3>1 DEF Written, Write, Goto
    <3>3. file' = snapshot[t]
      BY <3>1, <3>2 DEF Write
    <3> QED  BY <2>1, <2>2, <3>2, <3>3, LoadedType
  <2> QED  BY <2>5, <2>6, <2>7
<1>7. ASSUME NEW t \in Calls, Reply(t) \/ Drop(t)
      PROVE  Written' /\ Told' /\ Naming'
  <2>1. /\ stage[t] = "reply" /\ stage' = [stage EXCEPT ![t] = "idle"]
        /\ snapshot' = [snapshot EXCEPT ![t] = None]
        /\ UNCHANGED <<settings, file, wish, engine, whole, named>>
    BY <1>7 DEF Reply, Drop, Goto
  <2>2. /\ Writing' = Writing /\ t \notin Writing
        /\ t \in UnderWay /\ UnderWay' = UnderWay \ {t}
        /\ \A u \in Calls \ {t} : stage'[u] = stage[u] /\ snapshot'[u] = snapshot[u]
        /\ \A u \in Calls : stage'[u] = "renamed" <=> stage[u] = "renamed"
    BY <2>1 DEF Writing, UnderWay, TypeOK
  <2>3. Written'
    BY <2>1, <2>2 DEF Written
  <2>4. Told'
    <3> SUFFICES ASSUME calm'
                 PROVE  UnderWay' = {} /\ prefs' = settings'
      BY DEF Told
    <3>1. Reply(t) /\ calm
      BY <1>7, Zenon DEF Reply, Drop
    <3>2. UnderWay = {t} /\ snapshot[t] = settings
      BY <2>1, <2>2, <3>1 DEF Told
    <3>3. prefs' = snapshot[t]
      BY <3>1 DEF Reply
    <3> QED  BY <2>1, <2>2, <3>2, <3>3
  <2> QED  BY <2>1, <2>2, <2>3, <2>4 DEF Naming, Calls
<1>8. CASE Restart
  <2>1. PICK k \in Commands :
            /\ stage'    = [t \in Calls |-> IF t = k THEN "reply" ELSE "idle"]
            /\ snapshot' = [t \in Calls |-> IF t = k THEN settings' ELSE None]
    BY <1>8 DEF Restart
  <2>2. /\ Writing' = {} /\ UnderWay' = {k} /\ k \in Calls /\ snapshot'[k] = settings'
        /\ \A t \in Renamers : stage'[t] # "renamed"
    BY <2>1 DEF Writing, UnderWay, Calls
  <2>3. Written'
    BY <1>8, <2>2 DEF Restart, Written
  <2>4. Told'
    BY <2>2 DEF Told
  <2> QED  BY <1>8, <2>2, <2>3, <2>4 DEF Restart, Naming
<1>9. CASE UNCHANGED vars
  <2>1. Writing' = Writing /\ UnderWay' = UnderWay /\ UNCHANGED vars
    BY <1>9 DEF vars, Writing, UnderWay
  <2>2. Written'
    BY <2>1 DEF vars, Written
  <2>3. Told'
    BY <2>1 DEF vars, Told
  <2>4. Naming'
    BY <2>1 DEF vars, Naming
  <2> QED  BY <2>2, <2>3, <2>4
<1> QED
  BY <1>1, <1>2, <1>3, <1>4, <1>5, <1>6, <1>7, <1>8, <1>9 DEF Next, User, Store, Window

\* All of it holds along every behaviour.
LEMMA CopiesHold == Spec => [](TypeOK /\ Carried /\ Written /\ Told /\ Naming)
<1>1. Init => TypeOK /\ Carried /\ Written /\ Told /\ Naming
  BY InitType, InitCopies
<1>2. TypeOK /\ Carried /\ Written /\ Told /\ Naming /\ [Next]_vars
         => (TypeOK /\ Carried /\ Written /\ Told /\ Naming)'
  BY NextType, NextCarried, NextCopies
<1> QED  BY <1>1, <1>2, PTL DEF Spec

\* The state stays within its types; a counter stops at its limit.
THEOREM TypeCorrect == Spec => []TypeOK
  BY CopiesHold, PTL

\* Once nothing is being written a restart would find the settings there are,
\* unless the last update failed to write or overlapped another.
THEOREM SettingsSurvive == Spec => []FileKept
<1>1. Written => FileKept
  BY DEF Written, FileKept
<1> QED  BY <1>1, CopiesHold, PTL

\* Once every reply has arrived the window shows the settings there are, in whatever
\* order replies travel, unless the last calls overlapped or one was dropped; and
\* the engine bears the name they say, unless renames overlapped or one failed.
THEOREM OneTruth == Spec => []CopiesAgree
<1>1. Told /\ Naming => CopiesAgree
  BY DEF Told, Naming, CopiesAgree
<1> QED  BY <1>1, CopiesHold, PTL

=============================================================================
