# Dropwire, specified

TLA+ specifications of Dropwire's engine, checked with TLC on small instances
and, for the central claims, proved with TLAPS for all instances. Paths are
relative to the repository root, given as `src/...` in `PROJECT.json` and
without the prefix here.

## 1. The system

Dropwire sends files from one device to one other. A sender imports files into
a local blob store, shares a ticket (endpoint address and content hash) and
serves the content while the send is open. A receiver connects with the ticket,
may preview the file list, downloads what its own store lacks and exports the
files. On a local network the ticket may travel in a *nearby offer*, which the
receiving user accepts or declines.

| component | source | state | operations |
|---|---|---|---|
| sender engine | `core/src/send.rs`, `lib.rs` | `active` (id to cancel token), `serving` (hash to event channel), one task per send with its flag and queue | `send`, `cancel`, teardown |
| one-to-one gate | `core/src/send.rs` | `conns` (connection to device), `bound` (hash to device) | connected, closed, get request: allow or deny, route |
| nearby offer, sender | `core/src/offer.rs` | one task per offer, `bound` | `offer_nearby`, verdict, release |
| consent handshake | `core/src/offer.rs`, `control.rs` | `verdict_waiters`, `incoming_offers`, a parked handler per connection | deliver, park, route, respond, expire |
| receiver engine | `core/src/receive.rs` | one task per receive, blob store, destination | `receive`, `receive_selected`, `inspect`, `cancel` |
| catalog | `core/src/catalog.rs` | records by id, a JSON file | upsert, set status, list, clear, mark interrupted, save, load |
| nearby discovery | `core/src/discover.rs` | per engine: flag, advertised name, peer table; per process: one browse, one pump thread, the list of subscribed tables | start, stop, rename, list |
| identity, endpoint, config, store | `core/src/*.rs` | a key file; library objects | create at start |
| shell | `src-tauri/src/lib.rs` | pumps from engine streams to the window | commands, the offer pump, start-up |
| settings | `src-tauri/src/settings.rs` | preferences and trusted devices, a JSON file | load, update, remember, forget |
| window | `ui/app.js` | offer dialog and queue, cards, live registry | user events, engine events |
| tray | `ui/tray.js` | none | draws |

Interactions: the shell calls the engine and pumps its streams; the sender
engine and the gate share `serving` and `bound`; an offer reads the catalog,
writes `bound` and cancels a send; the consent handshake joins two engines over
one connection; every transfer writes the catalog. Nearby sessions share a browse
and write each other's names on the network; the flag of a session decides whether
offers are shown. An offer goes from the engine's broadcast through the shell's pump
into the queue of the window, and the answer back by a call. A rename goes through
the shell to the engine and then to the settings.

What is hard here:

* **Keys that differ.** Tasks are keyed by transfer id, the shared maps by
  content hash. Two sends of the same bytes, or an offer of a send that is in
  use, meet in one map entry.
* **Many short locks.** Every map has a lock of its own, released between two
  steps of an operation. The gate reads `serving`, then writes `bound`; a
  teardown clears them one after the other.
* **Two clocks.** The receiver parks an offer for 115 s, the sender waits 120 s.
* **Two maps, two calls, one timer.** A verdict, a second verdict and the
  elapsed wait race over `verdict_waiters` and `incoming_offers`.
* **Restarts.** A receive leaves a partly filled store and an active record.
* **One pump for all tables.** The browse thread works on a snapshot of the
  subscribed tables while sessions start, stop and rename themselves under a lock
  it does not take.
* **Awaits in the window.** A handler waits for the engine's answer; dialogs, timers
  and the queue go on meanwhile, and the handler then acts on what is there.
* **Four copies of the settings.** Memory, file, window and engine are written one
  after the other, the file outside the lock and in place.
* **Endings.** A send ends by cancel, by failure or because its channel closes;
  its catalog record and its stream must agree on how.

What makes each part correct: a send serves one device and stays open until
cancelled; its record and stream settle; an offered send is kept for its
neighbor; an acceptance at the sender is one the receiving user gave, once; both
ends conclude; a receive that says done has its files; the catalog agrees with
the tasks, across restarts and saves that failed; a session is on or off as a
whole, advertised under its present name, and lists who is there; no offer falls
between broadcast, queue and dialog, and none is opened without a yes that the
engine took; the copies of the settings agree once nothing is under way.

## 2. The modules

| module | models | builds on |
|---|---|---|
| `SendServe` | `send.rs` and the maps of `lib.rs`: tasks of sends, the gate, the provider-event consumer, cancel, clear | |
| `TicketSession` | what a send promises: opens once, admits one device, closes when stopped | |
| `OfferSend` | `offer_nearby_dial`: pick, bind, release, stop | extends `SendServe` |
| `Consent` | `deliver_offer`, `Ctrl::accept`, `ConsentCtx`, `route_offer`, `respond_offer`, with time | |
| `TwoSidedConsent` | what the handshake promises: one outcome, accepted only if shown and accepted | |
| `Receive` | `spawn_receive`, `run_receive`, `inspect`, the store, the catalog and its file, restarts | |
| `Nearby` | `discover.rs` and the operations of `offer.rs` that drive it | |
| `OfferDesk` | broadcast, shell pump, consent dialog, queue, preview, remembered peer | |
| `Settings` | `settings.rs`, its commands, the engine's name, the window's copy | |
| `MC*` | small instances for TLC | |
| `*_proofs` | theorems for `SendServe`, `OfferSend`, `Consent`, `Receive`, `Nearby`, `OfferDesk`, `Settings` | extend the module they are about |

### SendServe

`pc[t]` says where `run_send` and its wrapper stand, at the granularity of the
locks: `importing`, `register` (insert into `serving`), `publish` (record and
`Ready`), `serving` (the select loop), `unserve` and `unbind` (the two removals),
`settle` (final status and `Cancelled`), `failed`, `retire` (removal from
`active`). Each action is one critical section with the private work around it.
The channel of a send is its queue `inbox[t]`; it is closed when neither the
registration nor a forwarding task holds a sender (`ChannelOpen`), and then
`recv` returns `None` (`ServeClosed`).

The blob server is external. A connection opens and closes, a request is
intercepted, granted requests complete, abort or are lost. `mailbox` is the
provider-event channel; the consumer handles one message at a time, and `gate`
holds how far it is with a request: it has read `conns` and `serving`
(`HearGet`), it is at the lock on `bound` (`GateBind`), or it is about to route
(`GateRoute`). The code path of a request is therefore interruptible at each
lock, as in `approve_one_to_one`.

`Earlier` are hashes that tickets of an earlier run of the app name; they can be asked
for before, during and after a send of them, and are denied nothing by the gate while no
send is registered, as `approve_one_to_one` returns true then and the store still has
the bytes.

Abstracted: files and import are one step that succeeds or fails; a request is
either `peek` (structure only, what `inspect` asks) or `files`; progress events
are left out as they change no state.

`told`, `shared`, `joined` and `delivered` are history variables.

### OfferSend

Extends the engine with offers. `Pick` reads the newest active record
(`FirstInList`: `created_at` in seconds, a new record dated in the newest one's
second or later, ties broken arbitrarily, since the ids are random); `Bind` is the unconditional insert into `bound`, a separate step
since the peer table and the device name are awaited in between; `Accepted` and
`Refused` are the answer; `Release`, `Leave` and `StopSend` are the clean-up with
its ownership test. `binder` is a history variable. `EngineStep` is a
step of `SendServe` that also dates new records.

### Consent

One connection per offer. `sender`, `link`, `wire` and `handler` are the two ends
and what travels; `waiter` and `pending` are the two maps; `queue` the verdict
channel of the parked handler; `call` the calls of `respond_offer`, each in three
steps (look up, resolve, spend) as in the code. Time passes in ticks and only
while no local step is due: the waits are minutes long and the steps between two
locks are not. `MaxDelay` bounds a frame's travel on a connection that holds.
`shown` and `will` are history variables, and the state of `TwoSidedConsent`.

### Receive

`pc[r]` follows `run_receive`; in two phases (`Awaiting`) it waits for the peer with no
timeout: `sizes`, where the token is not looked at, and `downloading`, whose select has a
cancel branch. `store` is the blob store and `saved` the
destination. `file` is the catalog on disk: every change is followed by `Save`, which
replaces the file (by a rename) or, when it fails, leaves it. `Restart` is a crash
followed by `Core::start`: the tasks are gone, the store and the destination remain,
the catalog is what the file has, with `mark_stale_interrupted` passed over it.
`told` and `lost` are history variables; `lost` names the records a restart found
older than they were.

### Nearby

`op[c]` says how far the holder of engine `c`'s nearby lock has got in `start`
(`starting`, `ensure`, `browse`, `claim`, `subscribe`) or `stop` (`unregister`,
`unsubscribe`, `clear`); a rename is a stop, with `renaming` set, followed by a
start. The steps are those at which another thread can look: the store of the flag
and the registration, the race for `STARTED`, the list of subscribers, the table.
The pump takes an event and a snapshot of the subscribers (`Take`) and folds it
into one table after the other (`ApplyEvent`).

The mdns-sd daemon is external: it resolves each instance once for the newest browse
and reports when one is gone. That is what the comment at `discover.rs:404-410` says
the code relies on. An instance name is a pair of device and number of its name; a
device never returns to a name it had. `leaked` and `missed` are history variables:
instances the daemon refused to unregister, and announcements the pump handled
before a session's table existed.

### OfferDesk

The engine's part is one entry per offer, which stands for the two maps `Consent`
has in detail: `open` until answered or lapsed. `bus` is the pump's part of the
broadcast channel, with `Cap` slots of which the oldest is overwritten, `mail` the
events on their way to the window. The window is one thread; each handler is an
action up to its next await, and `Return` is what follows the await of
`nearby_respond`, acting on the dialog that is up by then, as the code does.
`overlay` is what covers the window besides the dialog: a sheet or the preview, which
Ctrl+, and a code from the tray open over whatever is there (`OpenSheet`, `TypeCode`).
A receive that is done takes the remembered peer and calls `trust_remember`
(`remembering`), the trusted set of the window follows when the call returns
(`RememberReturns`). A step of the machine takes no time; a `Tick` ages
open offers and the dialog on screen. `missed`, `dropped`, `silent` and `received`
are history variables.

Abstracted: the preview loads at once; one sheet stands for settings, drawer, text
and set-up; the notification and the tray are left out.

### Settings

`Update` is the critical section of `Store::update`; `Open` truncates the file, `Write`
fills it, both after the release of the lock; either may fail. A write that finds
another's bytes may leave a mixture, `Torn`, which loads as the defaults, as a
truncated file does. Commands that are not async share one thread (`MainFree`); `set_device_name` renames the engine,
awaits, and then updates (`SetDeviceName`, `StoreName`). A call that has written, or
failed to, has its reply on the way: `Reply` sets the window's copy to the snapshot it
carries, in any order among the calls; `Drop` is the rename of the set-up screens, which
ignore the reply. `Load` is `get_settings`, at start (in `Init` and `Restart`) and whenever
the window asks again. `Restart` is a process that
ends anywhere, and `Store::load` with the start-up code after it. `nearby_on` stands
for all simple preferences. `whole`, `calm` and `named` are history
variables: did the last update write its file, and alone; did the last call start with no
other under way, and was its reply taken; did the last rename succeed, and alone.

## 3. What TLC checks

Passing runs:

| run | question |
|---|---|
| `SendServe_one` | one send, three connections, one without a device id: one recipient, first comer served, refinement of `TicketSession` |
| `SendServe_same` | two sends of the same bytes, named by an older ticket too: live registrations, settled endings, stream and catalog agree, done is final |
| `SendServe_live` | under fairness cancelled sends end and requests are answered |
| `OfferSend` | two offers to two neighbors: the latest neighbor holds the gate until it refuses, and a refused offer stops its send |
| `Consent` | two calls, the timer and the link race over one offer: one answer, nothing left in the maps, the receiver decides first, refinement of `TwoSidedConsent`; both ends conclude |
| `Receive` | a full and a selective receive, previews, failed saves, restarts: done means saved, catalog, stream and tasks agree, verdicts are final; receives end, except where the peer stays connected and never says a size |
| `Nearby` | a session and another device that start, stop and rename themselves: sessions are whole, advertised as named, list those who are there; who departed is forgotten |
| `Settings` | preferences, trusted devices, two overlapping renames, replies in any order, failed and cut writes, restarts: the file keeps the settings, the copies agree |
| `OfferDesk` | two offers, two answers under way, a broadcast of one slot, timers, queue, preview, sheets: none forgotten, none opened without consent, a fresh dialog can be accepted; dialogs close |

Runs that end in a violation, each a place where the code does something else
than its comments or documents say (`findings` in `PROJECT.json` quotes them):

| run | what happens |
|---|---|
| `SendServe_rivals` | with two sends of the same content, the teardown of one frees the gate of the other |
| `SendServe_peek` | a preview is recorded as a delivery |
| `OfferDesk_peer` | the device of an accepted offer is remembered for the receive of a typed code |

Further divergences the models contain, with no run of their own. Their exceptions are
visible in the properties and history variables named in brackets.

* Sending the same content again ends the first send (`send.rs:171`).
* A second offer to the same neighbor loses its gate to the first one's refusal
  (`offer.rs:343`; `NeighborHoldsGate` is checked with one offer per neighbor), and a
  refused second offer cancels a send another neighbor accepted (`offer.rs:346`).
* An accept between the elapsed wait and `expire_offer` returns Ok while the sender
  hears a decline (`control.rs:95`); an answer on a connection that broke returns Ok
  too (`offer.rs:185`).
* Clearing the list forgets a send that has delivered and still serves
  (`catalog.rs:115`); an offer may be about the older of two sends of one second
  (`catalog.rs:108`); an offer rebinds a gate that is in use (`offer.rs:320`).
* A device that holds a ticket of an earlier run and asks for a content just before it is
  sent again is looked up as not served (`send.rs:319-322`), admitted with no binding and, if
  the registration comes in between, routed to the new send (`send.rs:262`), which can then
  serve a second device. `FirstTickets`, that no such ticket is out, is a hypothesis of the
  theorems about one recipient; TLC refutes `OneRecipient` in `SendServe_one` with
  `Earlier = {h1}`.
* A receive cancelled outside its download loop runs on to done (`receive.rs:293`).
* A peer that stays connected and silent before it has sent the sizes keeps a receive for
  ever, cancelled or not (`receive.rs:238`; the exception in `ReceiveEnds`). One that falls
  silent in the download keeps it until the user cancels (`receive.rs:298`).
* A session that restarts does not list the devices that were there before, until
  they change (`discover.rs:358`; `missed`). A pump event in hand may be folded into
  a table that a stop has just cleared (`discover.rs:174`); two engines of one
  process that start at once may leave the pump on a browse that is no longer
  served (`discover.rs:154-162`; `Quiet`).
* A refused unregistration is ignored and the old instance stays on the network
  (`discover.rs:393-399`; `leaked`).
* An offer reaches nobody when it arrives between the flag and the pump's
  subscription (`src-tauri/src/lib.rs:205`; `missed`). Offers queued while a sheet is
  open stay queued when it closes (`ui/app.js:1161`; `silent`). The handlers of
  accept and decline close whichever dialog is up after their await
  (`ui/app.js:1232`, `1240`; `dropped`). A queued offer that is shown late can be
  clicked after the engine let it go (`ui/app.js:1138`; the age in `FreshCanBeAccepted`).
* Two settings updates may reach the file in either order or mixed, and a write that
  is cut short loses all settings, not the one changed (`settings.rs:101-118`, against `settings.rs:8-11`; `whole`).
  A failed rename leaves the engine with a name nobody stored (`src-tauri/src/lib.rs:67-71`; `named`).
* Replies of settings calls may overtake one another although the writes did not overlap,
  and the window keeps the older settings (`ui/app.js:99`, `183`; `calm`). The set-up screens
  do not look at the reply to their rename (`ui/app.js:1289`; `calm`).

### Bounds

* Transfers: one where the question is about one send, two of the same content
  where it is about sharing. Sends of different content share no map entry,
  which the theorems of section 5 use.
* `Earlier` is the one hash in `SendServe_same`, `SendServe_live` and `OfferSend`, so that
  requests come before the first registration; it is empty in the three other runs of the
  engine, which ask who is served.
* Two devices are enough for "another device"; the third connection is one
  without an endpoint id, which the gate lets through.
* `MailCap` is 2, or 1 with offers (64 in the code): the channel is a queue between
  the server and one consumer, and 1 and 2 already show it empty, filling and full.
* `InboxCap` is 1; the channel is unbounded in the code. A full inbox delays the
  forwarding task and the consumer, never drops an event. It is a bound of the
  instance alone; the proofs hold for every `InboxCap`.
* `Consent`: one offer, since offers share no entry of either map, and two calls,
  the least that can race; no malformed ticket, which takes the same branch as a
  hidden device. Waits of 2 and 5 ticks and a travel of at most 1 keep the order of
  115 s, 120 s and a frame's time with slack of one tick; the proof covers all values.
* `Receive`: two calls of one ticket and two files are the smallest with a
  selective choice that leaves a file out. Restarts are not bounded: each task
  runs once, so the state space is finite.
* `OfferSend`: one send, two offers, one connection of the second neighbor.
* `Nearby`: one engine, as the app has, and one other device, each with two names;
  two events wait at most (`MaxPending`), so that a departure and an arrival can
  stand in line together. The theorems cover any number of engines, devices whose
  announcements carry no id, and any bounds.
* `Settings`: one command and two renames, all of which may overlap, so that any reply can
  overtake another; two names besides the host's, one trusted device and counters to 1,
  enough to reach and pass the limit. Renames and names are
  symmetric; restarts are unbounded.
* `OfferDesk`: two offers of two devices, one remembered at first, so one may take
  the short way past the dialog; two calls, so that one answer can overtake another;
  a broadcast of one slot, so that it overflows; waits of 2 and 1 ticks for 115 s and 112 s.
  Offers come once; the sheet and the preview open any number of times.

`CHECK_DEADLOCK FALSE` in every configuration: each task and call runs once and
connections are not reused, so an instance comes to rest when all is done.

### Fairness

* Tasks (`Advance`, `ServeEvent`): tokio polls a task that was woken; the steps
  only wait for locks, none of which is held across a wait for something else.
* `ServeCancelled`, `DownloadCancelled`: `select!` polls its branches in random
  order, so a branch that stays ready is taken.
* The consumer: one task that never waits for a receiver.
* `Receive`: a task outside `Awaiting` runs on, as `connect` has a timeout (`receive.rs:200`)
  and the other awaits are local; in the download the cancel branch of the select is not
  starved. Nothing is assumed of the two awaits on the peer: `Fail` and the arrival of data
  are possible there, never owed.
* `Consent`: both ends, the two later steps of a call, and time. The user, the
  network and the switch are not fair.
* `Nearby`: the holder of a nearby lock and the pump thread run on, and the daemon goes on
  announcing and expiring, per instance. Nothing is assumed of users and other devices.
* `OfferDesk`: the tasks of the machine, the answers of the engine, the timers and time
  itself. The user is not fair: `DialogCloses` holds with nobody there.
* `OfferSend`: the engine's steps as in `SendServe`; the clean-up of a refused
  offer. The answer is not fair.
* Never assumed: that a peer connects, asks, answers or stays, or that a user acts.

## 4. Mutants

Each property of a passing run is paired with a mutated definition (`mutants` in
`PROJECT.json`) that stands for a plausible slip: an entry not removed, a test
inverted, a guard dropped, a wait too long. TLC finds the property violated with it.
The mutated operators stand beside the originals, marked "Mutant:".

## 5. What is proved

`SendServe_proofs`

* `TypeCorrect`. `TypeOK` alone is not inductive: `GateRoute` writes a request's
  hash back and `GateBind` uses it as an index, so one must know that a request
  at the gate, or announced in the mailbox, is pending for a shared hash
  (`RequestsTracked`).
* `RegistrationsLive`: only `Register` adds an entry, and its task passes
  `Unserve` before it leaves the registered phases. No assumption on contents.
* `OneRecipientHolds`, `FirstComerHolds`, `SessionRefinement`, under
  `DistinctContent` (no two sends have the same bytes; without it the run
  `SendServe_rivals` refutes the first) and `FirstTickets` (no ticket of an earlier run
  names what is sent, see section 3). The invariant `SessionInv` adds: a send
  in a registered phase is the one in `serving`; before it is registered
  nothing has been shared, asked for or bound; a device at the routing step of the
  gate holds the binding or is unnamed; the users of a send hold its binding
  while it is registered; it leaves its loop only when its token
  is cancelled. The last part needs that the channel of a registered send is open,
  which is what `DistinctContent` gives.
* `EndedSendsSettled`, `StreamFollowsCatalog`, `DeliveredStaysDone`, for any sends. The
  invariant `Ledger` follows the record, the flag `completed`, the last word and
  the entry in `active` through the phases of a task, and reads neither map nor
  gate: that is why sends of the same bytes cannot disturb it. Its clauses say when a token can be
  reached (`Listed`), before which phase there is no record (`Unlisted`), after which
  one record and stream are final (`Parted`), and that record, flag and stream agree
  in between (`Recorded`).
* `LastWordStands`: no event follows `Cancelled` or an error on a stream. No run checks it.
* `OnlyRivalsShare`: what is left of `OneRecipient` with `FirstTickets` alone. A send
  serves a second device only after another send of its bytes has left its
  registration or failed, the event that `SendServe_rivals` shows to be enough. While no send of a
  hash has come that far, a hash that is shared is served, so nobody passes the gate
  unbound, and all its users are the bound one (`Guarded`).

`OfferSend_proofs`, on top of the former

* `OfferTypeCorrect`. It needs that some record is the newest (`Dated`) and that an
  offer is about a send whose record was written (`AskedFor`).
* `EngineOutlivesOffers`: offers bind the gate and cancel tokens from outside, and
  `RegistrationIsLive`, `EndedIsSettled` and `ToldIsRecorded` hold all the same.
* `GateIsAccountedFor`, for any sends and offers: between its binding and the clean-up
  after a refusal the latest offer's neighbor holds the gate of the registered send, or
  one of two things that share its key opened it: another offer to that neighbor
  gave the gate back (`GivenBack`), or another send of the bytes was torn down (`TornDown`).
* `NeighborKeepsGate`: `NeighborHoldsGate` follows where neither can be, which is the
  hypothesis: `DistinctContent`, and no neighbor offered twice, as in the run. The
  divergences of section 3 show that each is needed: TLC refutes `NeighborHoldsGate`
  on two offers to one neighbor, and on two sends of the same bytes.
* `RefusedAreStopped`: after its clean-up a refused offer whose binding is the latest has
  cancelled its send, with the same exceptions. It is the safety half of `RefusedStops`.

`Consent_proofs`

* `TypeCorrect`, with `CallNamed`: a call under way names an offer that was shown.
* `Ordered`: what handler, maps, channel and sender may look like together at
  each point of the handshake. It is the base of all the others.
* `OneAnswerHolds`, with `OkSpent`: a call that returns Ok has taken the only waiter.
* `NothingLeaksHolds`, with `ListedHeld`.
* `ConsentRefinement`: the handshake implements `TwoSidedConsent`.
* `ReceiverFirst`, with `OnTime`, under `TimingAssumption`
  (`ANSWER_WAIT + 2 * MaxDelay < ANSWER_TIMEOUT`): the sender's clock is ahead
  of the handler's by no more than the frame's travel.

`Receive_proofs`

* `TypeCorrect`, and with `Ledger` (what the catalog says in each phase)
  `ActiveRuns`, `VerdictsFinal` and, with `Concluded`, `StoriesMatch`; `DoneSaved`.
  As the file may lag behind, each has a counterpart about the file (`Filed`,
  `FileSaved`, `FileAgrees`): a restart makes the file the catalog.

`Nearby_proofs`

* `TypeCorrect`; `WholeSessions` and `NamesInForce` from invariants that say what
  flag, registration, subscription and network look like at each step
  of a start and a stop, so that the claim between operations follows.
* `NoGhostDevices`: what a table lists is still announced, or its departure is on
  the way to the pump, or in its hand with the table among those still to do. The
  invariant needs the order of the channel: an instance is resolved before it is removed.
* `NoDeviceLeftOut`, the converse. `Kept` follows the announcement of the name a device
  is or will next be advertised under (`Top`): it waits in the channel with nothing
  after it that undoes it, is being applied, or is in the table (`Arrives`). It
  stands on `Bounded`, that nothing of a later name is under way, and holds of
  devices without a leaked older instance (`Clean`), since the pump cannot tell which of two is new.

`Settings_proofs`

* `TypeCorrect`; `SettingsSurvive` and `OneTruth`, with what a snapshot and the file
  are while the only write under way is at each stage, and with what the reply of the last
  call carries from its update until the window takes it: while `calm` holds, that call
  is the only one under way, so its reply is the last to arrive.

`OfferDesk_proofs`

* `TypeCorrect`; `ConsentedPreviews`: a call that came back with Ok for an accept
  or a skip belongs to an offer whose entry is accepted, and an
  accepted entry stays so, whatever the window did during the await.
* `NoOfferForgotten`, `FreshOffersStand`. An offer is in one place at a time (`OnePlace`):
  in the broadcast, the mail or the queue, on screen, or being answered. What is shown or
  answered has arrived (`Known`); what is in line has not been answered, so an entry
  that is not open there has lapsed (`Fresh`); an open one is in some place or a named
  loss (`Placed`); the queue waits behind something (`Waiting`). `Fresh` needs
  `OnePlace`: an offer twice in line could be answered at one place and shown at the other.

The invariants were checked with TLC on small instances before they were proved
(`RequestsTracked`, which quantifies over all positions, with a bound on them). The other
assumptions are the named ones on the constants in each module; TLC evaluates
them in every run.

Only model-checked: the liveness properties `CancelEnds`, `RequestsAnswered`,
`RefusedStops`, `OfferConcludes`, `ParkedEnds`, `ReceiveEnds`, `DepartedIsForgotten`
and `DialogCloses`, since fairness is out of the prover's reach. Every invariant and every other
action property or refinement of a passing run is stated by a theorem.

## 6. Not modelled, and the plan

In order:

1. A theorem about successive sends of one content: whom a binding that is left behind
   after a teardown (`send.rs:328`) may turn away.
2. `LiveCards`: messages of a transfer against the call that returns its id
   (`ui/app.js`, the commands of the shell that pump a stream).
3. `Fingerprint` and `sanitize_rel`: pure operators against a reference definition.
4. A composition of sender, gate and receiver over one ticket, so that a
   receive's `Done` and a send's `Done` can be related; and of `OfferDesk` with
   `Consent`, whose receiving side it abstracts.

Left out for good: identity, endpoint, configuration and store construction
(sequential start-up code around libraries), presence and chat frames (stateless
echo), the tray and all drawing, byte counts and progress throttling.
