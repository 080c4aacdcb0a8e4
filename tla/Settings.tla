------------------------------ MODULE Settings ------------------------------
(***************************************************************************)
(* The settings of the app: src-tauri/src/settings.rs, the commands of     *)
(* src-tauri/src/lib.rs that change them, the name the engine advertises   *)
(* and the copy the window keeps.  A change is made under the lock, and    *)
(* the file written in place after its release; the window takes what a    *)
(* command replies, whenever the reply reaches it.  The process may end at *)
(* any moment.                                                             *)
(*                                                                         *)
(* Commands that are not async run one after the other on the main thread; *)
(* set_device_name is async, renames the engine first, and overlaps them.  *)
(* Replies reach the window in any order.                                  *)
(***************************************************************************)
EXTENDS Naturals

CONSTANTS
    Commands,   \* calls under way at once of the commands that are not async
    Renamers,   \* calls of set_device_name under way at once
    Names,      \* names a user gives this device
    Host,       \* the name it has from its host name
    Peers,      \* devices a transfer can be completed with
    MaxCount,   \* the largest counter of a trusted device, u32::MAX
    None,       \* no name, no snapshot
    Empty, Torn \* a file just truncated, or absent; a file no one can parse

ASSUME CountAssumption == MaxCount \in Nat \ {0}
ASSUME CallAssumption  == Commands \cap Renamers = {}

VARIABLES
    settings,   \* Store.inner
    file,       \* settings.json
    stage,      \* how far each call has got
    wish,       \* the name a call of set_device_name carries
    snapshot,   \* the settings each call has cloned, and replies
    prefs,      \* PREFS, the copy of the window
    engine,     \* NearbyState.device_name
    whole,      \* history: did the last update write its file, and alone?
    calm,       \* history: did the last call start alone and reach the window?
    named       \* history: did the last rename succeed, and alone?

vars == <<settings, file, stage, wish, snapshot, prefs, engine, whole, calm, named>>

Calls       == Renamers \cup Commands
AllSettings == [name : Names \cup {None}, nearby_on : BOOLEAN, trusted : [Peers -> 0..MaxCount]]
Default     == [name |-> None, nearby_on |-> TRUE, trusted |-> [p \in Peers |-> 0]]

ASSUME ValueAssumption ==
    /\ Host \notin Names /\ None \notin Names
    /\ Empty \notin AllSettings /\ Torn \notin AllSettings

\* The window starts with the defaults and asks for the settings.
Init ==
    /\ settings = Default /\ file = Empty /\ prefs = Default /\ engine = Host
    /\ wish = [t \in Calls |-> None]
    /\ \E k \in Commands :
           /\ stage    = [t \in Calls |-> IF t = k THEN "reply" ELSE "idle"]
           /\ snapshot = [t \in Calls |-> IF t = k THEN Default ELSE None]
    /\ whole = TRUE /\ calm = TRUE /\ named = TRUE

Goto(t, from, to) == stage[t] = from /\ stage' = [stage EXCEPT ![t] = to]
Writing  == {t \in Calls : stage[t] \in {"open", "write"}}
UnderWay == {t \in Calls : stage[t] # "idle"}
MainFree == Writing \cap Commands = {}
Begins(t) == calm' = (UnderWay \ {t} = {})

\* Mutant: the snapshot is cloned before the change.
MutantUpdate(t, new) ==
    /\ settings' = new
    /\ snapshot' = [snapshot EXCEPT ![t] = settings]
    /\ whole'    = (Writing \ {t} = {})
    /\ UNCHANGED <<file, prefs, engine>>

\* Store::update, up to the release of the lock.
Update(t, new) ==
    /\ settings' = new
    /\ snapshot' = [snapshot EXCEPT ![t] = new]
    /\ whole'    = (Writing \ {t} = {})
    /\ UNCHANGED <<file, prefs, engine>>

Command(t, new) ==
    /\ MainFree
    /\ Goto(t, "idle", "open")
    /\ Update(t, new)
    /\ Begins(t)
    /\ UNCHANGED <<wish, named>>

SetPref(t, v) == Command(t, [settings EXCEPT !.nearby_on = v])

\* Mutant: the counter does not saturate.
MutantRemember(t, p) == Command(t, [settings EXCEPT !.trusted[p] = @ + 1])

\* The counter of transfers saturates.
Remember(t, p) ==
    Command(t, [settings EXCEPT !.trusted[p] = IF @ < MaxCount THEN @ + 1 ELSE @])
Forget(t, p) == Command(t, [settings EXCEPT !.trusted[p] = 0])

\* get_settings, which the window calls when it starts, when its settings sheet
\* opens and at the end of the set-up screens.
Load(t) ==
    /\ MainFree
    /\ Goto(t, "idle", "reply")
    /\ snapshot' = [snapshot EXCEPT ![t] = settings]
    /\ Begins(t)
    /\ UNCHANGED <<settings, file, wish, prefs, engine, whole, named>>

\* The engine has the name also when its session could not be restarted; then
\* the call replies an error, which carries no settings.
SetDeviceName(t, n) ==
    /\ engine' = n
    /\ \/ /\ Goto(t, "idle", "renamed")
          /\ wish'  = [wish EXCEPT ![t] = n]
          /\ named' = \A u \in Renamers \ {t} : stage[u] # "renamed"
          /\ Begins(t)
       \/ stage[t] = "idle" /\ engine # n /\ named' = FALSE /\ UNCHANGED <<stage, wish, calm>>
    /\ UNCHANGED <<settings, file, snapshot, prefs, whole>>

StoreName(t) ==
    /\ Goto(t, "renamed", "open")
    /\ Update(t, [settings EXCEPT !.name = wish[t]])
    /\ wish' = [wish EXCEPT ![t] = None]
    /\ UNCHANGED <<calm, named>>

Open(t) ==
    /\ Goto(t, "open", "write")
    /\ file' = Empty
    /\ UNCHANGED <<settings, wish, snapshot, prefs, engine, whole, calm, named>>

\* Over what another write has left meanwhile, the two may end up mixed.
Write(t) ==
    /\ Goto(t, "write", "reply")
    /\ file' \in IF file = Empty THEN {snapshot[t]} ELSE {snapshot[t], Torn}
    /\ UNCHANGED <<settings, wish, snapshot, prefs, engine, whole, calm, named>>

\* Mutant: a write that fails makes the reply an error, which the window drops.
MutantWriteFails(t) ==
    /\ \/ Goto(t, "open", "idle") /\ UNCHANGED file
       \/ Goto(t, "write", "idle") /\ file' \in {file, Torn}
    /\ whole'    = FALSE
    /\ snapshot' = [snapshot EXCEPT ![t] = None]
    /\ UNCHANGED <<settings, wish, prefs, engine, calm, named>>

\* The reply is the snapshot, whatever became of the file.
WriteFails(t) ==
    /\ \/ Goto(t, "open", "reply") /\ UNCHANGED file
       \/ Goto(t, "write", "reply") /\ file' \in {file, Torn}
    /\ whole' = FALSE
    /\ UNCHANGED <<settings, wish, snapshot, prefs, engine, calm, named>>

\* The window takes the settings a reply carries.
Reply(t) ==
    /\ Goto(t, "reply", "idle")
    /\ prefs'    = snapshot[t]
    /\ snapshot' = [snapshot EXCEPT ![t] = None]
    /\ UNCHANGED <<settings, file, wish, engine, whole, calm, named>>

\* The set-up screens rename the device and drop the reply.
Drop(t) ==
    /\ t \in Renamers
    /\ Goto(t, "reply", "idle")
    /\ snapshot' = [snapshot EXCEPT ![t] = None]
    /\ calm'     = FALSE
    /\ UNCHANGED <<settings, file, wish, prefs, engine, whole, named>>

Loaded(f) == IF f \in {Empty, Torn} THEN Default ELSE f
NameOf(s) == IF s.name = None THEN Host ELSE s.name

\* The process ends; the next one loads the file and names the engine, and the
\* window starts anew.
Restart ==
    /\ settings' = Loaded(file) /\ prefs' = Default /\ engine' = NameOf(settings')
    /\ wish' = [t \in Calls |-> None]
    /\ \E k \in Commands :
           /\ stage'    = [t \in Calls |-> IF t = k THEN "reply" ELSE "idle"]
           /\ snapshot' = [t \in Calls |-> IF t = k THEN settings' ELSE None]
    /\ whole' = TRUE /\ calm' = TRUE /\ named' = TRUE
    /\ UNCHANGED file

User ==
    \/ \E t \in Commands :
           \/ \E v \in BOOLEAN : SetPref(t, v)
           \/ \E p \in Peers : Remember(t, p) \/ Forget(t, p)
           \/ Load(t)
    \/ \E t \in Renamers, n \in Names : SetDeviceName(t, n)
Store(t)  == StoreName(t) \/ Open(t) \/ Write(t) \/ WriteFails(t)
Window(t) == Reply(t) \/ Drop(t)
Next      == User \/ (\E t \in Calls : Store(t) \/ Window(t)) \/ Restart

Spec == Init /\ [][Next]_vars

-----------------------------------------------------------------------------
\* The state stays within its types; a counter stops at its limit.
TypeOK ==
    /\ settings \in AllSettings /\ prefs \in AllSettings
    /\ file \in AllSettings \cup {Empty, Torn}
    /\ stage \in [Calls -> {"idle", "renamed", "open", "write", "reply"}]
    /\ \A t \in Commands : stage[t] # "renamed"
    /\ wish \in [Calls -> Names \cup {None}]
    /\ snapshot \in [Calls -> AllSettings \cup {None}]
    /\ engine \in Names \cup {Host}
    /\ whole \in BOOLEAN /\ calm \in BOOLEAN /\ named \in BOOLEAN

\* Once nothing is being written a restart would find the settings there are,
\* unless the last update failed to write or overlapped another
\* (settings.rs:84-94, 101-118).
FileKept == Writing = {} /\ whole => Loaded(file) = settings

\* Once every reply has arrived the window shows the settings there are, though
\* a write failed, a rename was refused or the process restarted, unless the last
\* calls overlapped, since replies may overtake one another, or the set-up screens
\* dropped one.  And the engine bears the name the settings say once no rename
\* waits to be stored, unless two overlapped or one failed
\* (lib.rs:57-73, 653-656, app.js:94-109, 158, 183).
CopiesAgree ==
    /\ UnderWay = {} /\ calm => prefs = settings
    /\ (\A t \in Renamers : stage[t] # "renamed") /\ named => engine = NameOf(settings)

=============================================================================
