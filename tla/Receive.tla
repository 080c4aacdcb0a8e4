------------------------------ MODULE Receive ------------------------------
(***************************************************************************)
(* The receiver's engine (core/src/receive.rs): the tasks of Core::receive *)
(* and receive_selected, the blob store they resume from, the catalog and  *)
(* its file (core/src/catalog.rs), and restarts of the process, which keep *)
(* only the store and the file.  All receives here are of one ticket.      *)
(***************************************************************************)
EXTENDS FiniteSets

CONSTANTS
    Receives,   \* transfer ids, one per call
    Files,      \* the files of the transfer
    Meta,       \* the structure of the collection: its root and names
    Full,       \* the calls of receive; the others are of receive_selected
    Chosen      \* the files each of those selected

ASSUME MetaAssumption   == Meta \notin Files
ASSUME ChosenAssumption == Full \subseteq Receives /\ Chosen \in [Receives -> SUBSET Files]

VARIABLES
    pc,       \* where the task of each receive stands
    token,    \* is its CancellationToken cancelled?
    active,   \* Inner.active
    want,     \* blobs its GetRequest still has to bring
    store,    \* blobs held by the local store, kept across restarts
    saved,    \* files exported to the destination of each receive
    catalog,  \* status of each record
    file,     \* the catalog as it is on disk, kept across restarts
    told,     \* history: last word on the progress stream
    lost      \* history: records a restart found older than they were

vars == <<pc, token, active, want, store, saved, catalog, file, told, lost>>

Phases   == {"none", "connecting", "sizes", "record", "plan", "downloading",
             "exporting", "failed", "retire", "ended", "dead"}
Statuses == {"absent", "active", "done", "cancelled", "error", "interrupted"}
Running  == Phases \ {"none", "ended", "dead"}
\* Where only the peer can bring the task on: these two awaits have no timeout.
Awaiting == {"sizes", "downloading"}

Wanted(r) == IF r \in Full THEN Files ELSE Chosen[r]

Init ==
    /\ pc      = [r \in Receives |-> "none"]
    /\ token   = [r \in Receives |-> FALSE]
    /\ active  = {}
    /\ want    = [r \in Receives |-> {}]
    /\ store   = {}
    /\ saved   = [r \in Receives |-> {}]
    /\ catalog = [r \in Receives |-> "absent"]
    /\ file    = catalog
    /\ told    = [r \in Receives |-> "nothing"]
    /\ lost    = {}

Goto(r, from, to)  == pc[r] = from /\ pc' = [pc EXCEPT ![r] = to]

\* A save replaces the file or, when it fails, leaves it as it was.
Save == file' \in {file, catalog'}

SetStatus(r, status) ==
    /\ catalog' = [catalog EXCEPT ![r] = IF @ = "absent" THEN @ ELSE status]
    /\ Save
Tell(r, msg) == told' = [told EXCEPT ![r] = msg]

-----------------------------------------------------------------------------
(* run_receive.                                                            *)

Start(r) ==
    /\ Goto(r, "none", "connecting")
    /\ active' = active \cup {r}
    /\ UNCHANGED <<token, want, store, saved, catalog, file, told, lost>>

Connected(r) ==
    /\ Goto(r, "connecting", "sizes")
    /\ UNCHANGED <<token, active, want, store, saved, catalog, file, told, lost>>

\* The peer has sent the sizes of the files.
SizesRead(r) ==
    /\ Goto(r, "sizes", "record")
    /\ UNCHANGED <<token, active, want, store, saved, catalog, file, told, lost>>

Record(r) ==
    /\ Goto(r, "record", "plan")
    /\ catalog' = [catalog EXCEPT ![r] = "active"]
    /\ Save
    /\ UNCHANGED <<token, active, want, store, saved, told, lost>>

\* A full receive asks for what the store lacks, and for nothing when it lacks
\* nothing; a selective one asks for its choice whatever the store has.
Plan(r) ==
    LET missing == (Files \cup {Meta}) \ store IN
    /\ Goto(r, "plan",
            IF r \in Full /\ missing = {} THEN "exporting" ELSE "downloading")
    /\ want' = [want EXCEPT ![r] =
                   IF r \in Full THEN missing ELSE Chosen[r] \cup {Meta}]
    /\ UNCHANGED <<token, active, store, saved, catalog, file, told, lost>>

\* External: the blob server sends, the store keeps what is verified.
Fetch(r, b) ==
    /\ pc[r] = "downloading"
    /\ b \in want[r]
    /\ want' = [want EXCEPT ![r] = @ \ {b}]
    /\ store' = store \cup {b}
    /\ UNCHANGED <<pc, token, active, saved, catalog, file, told, lost>>

DownloadDone(r) ==
    /\ Goto(r, "downloading", "exporting")
    /\ want[r] = {}
    /\ UNCHANGED <<token, active, want, store, saved, catalog, file, told, lost>>

\* The item stream ends without Done: the loop breaks all the same.
StreamEnds(r) ==
    /\ Goto(r, "downloading", "exporting")
    /\ want' = [want EXCEPT ![r] = {}]
    /\ UNCHANGED <<token, active, store, saved, catalog, file, told, lost>>

DownloadCancelled(r) ==
    /\ Goto(r, "downloading", "retire")
    /\ token[r]
    /\ SetStatus(r, "cancelled")
    /\ Tell(r, "cancelled")
    /\ UNCHANGED <<active, token, want, store, saved, lost>>

\* Collection::load needs the structure, an export the blob.
Export(r, f) ==
    /\ pc[r] = "exporting"
    /\ {f, Meta} \subseteq store
    /\ f \in Wanted(r) \ saved[r]
    /\ saved' = [saved EXCEPT ![r] = @ \cup {f}]
    /\ UNCHANGED <<pc, token, active, want, store, catalog, file, told, lost>>

\* Mutant: one exported file is enough.
ExportedSome(r) == saved[r] # {}
Exported(r)     == Wanted(r) \subseteq saved[r]

Finish(r) ==
    /\ Goto(r, "exporting", "retire")
    /\ Meta \in store
    /\ Exported(r)
    /\ SetStatus(r, "done")
    /\ Tell(r, "done")
    /\ UNCHANGED <<token, active, want, store, saved, lost>>

\* Mutant: an export that cannot be made is waited for.
FallibleInTransfer == {"connecting", "sizes", "plan", "downloading"}
Fallible           == {"connecting", "sizes", "plan", "downloading", "exporting"}

\* Unreachable in time, denied, cut off, a full disk: any `?` of run_receive.
Fail(r) ==
    /\ pc[r] \in Fallible
    /\ pc' = [pc EXCEPT ![r] = "failed"]
    /\ Tell(r, "error")
    /\ UNCHANGED <<token, active, want, store, saved, catalog, file, lost>>

\* Only after the stream has been told.
RecordError(r) ==
    /\ Goto(r, "failed", "retire")
    /\ SetStatus(r, "error")
    /\ UNCHANGED <<token, active, want, store, saved, told, lost>>

Retire(r) ==
    /\ Goto(r, "retire", "ended")
    /\ active' = active \ {r}
    /\ UNCHANGED <<token, want, store, saved, catalog, file, told, lost>>

-----------------------------------------------------------------------------
(* The user, and the process.                                              *)

\* A preview brings the structure of the collection into the store and no file;
\* one that fails on the way changes nothing.
Inspect ==
    /\ store' = store \cup {Meta}
    /\ UNCHANGED <<pc, token, active, want, saved, catalog, file, told, lost>>

Cancel(r) ==
    /\ r \in active
    /\ token' = [token EXCEPT ![r] = TRUE]
    /\ UNCHANGED <<pc, active, want, store, saved, catalog, file, told, lost>>

ClearFinished ==
    /\ catalog' = [r \in Receives |->
                      IF catalog[r] = "active" THEN "active" ELSE "absent"]
    /\ Save
    /\ UNCHANGED <<pc, token, active, want, store, saved, told, lost>>

\* Mutants: the records of the last run are left as they are, all rewritten,
\* or given a status the interface does not know.
SweptNot(r)   == file[r]
SweptAll(r)   == "interrupted"
SweptStale(r) == IF file[r] = "active" THEN "stale" ELSE file[r]
Swept(r)      == IF file[r] = "active" THEN "interrupted" ELSE file[r]

\* The process dies and Core::start runs: the tasks are gone, the file is read,
\* and mark_stale_interrupted passes over the records it has as active.
Restart ==
    /\ pc' = [r \in Receives |-> IF pc[r] \in Running THEN "dead" ELSE pc[r]]
    /\ active' = {}
    /\ want' = [r \in Receives |-> {}]
    /\ catalog' = [r \in Receives |-> Swept(r)]
    /\ Save
    /\ lost' = lost \cup {r \in Receives : file[r] # catalog[r]}
    /\ UNCHANGED <<token, store, saved, told>>

-----------------------------------------------------------------------------
Advance(r) ==
    \/ Connected(r) \/ SizesRead(r) \/ Record(r) \/ Plan(r) \/ DownloadDone(r)
    \/ StreamEnds(r) \/ Finish(r) \/ Fail(r) \/ RecordError(r) \/ Retire(r)
    \/ \E f \in Files : Export(r, f)

Next ==
    \/ \E r \in Receives :
           \/ Start(r) \/ Advance(r) \/ DownloadCancelled(r) \/ Cancel(r)
           \/ \E b \in Files \cup {Meta} : Fetch(r, b)
    \/ Inspect
    \/ ClearFinished
    \/ Restart

Spec == Init /\ [][Next]_vars

\* Connecting comes back in time, with a connection or an error, and so do the
\* awaits on the local store and disk; select! does not pass over a cancelled
\* token for ever.  The peer owes nothing, not even the loss of its connection.
Fairness == \A r \in Receives :
    /\ WF_vars(pc[r] \notin Awaiting /\ Advance(r))
    /\ WF_vars(DownloadCancelled(r))

FairSpec == Spec /\ Fairness

-----------------------------------------------------------------------------
(* Properties.                                                             *)

\* Every variable stays in its domain.
TypeOK ==
    /\ pc      \in [Receives -> Phases]
    /\ token   \in [Receives -> BOOLEAN]
    /\ active  \subseteq Receives
    /\ want    \in [Receives -> SUBSET (Files \cup {Meta})]
    /\ store   \subseteq Files \cup {Meta}
    /\ saved   \in [Receives -> SUBSET Files]
    /\ catalog \in [Receives -> Statuses]
    /\ file    \in [Receives -> Statuses]
    /\ lost    \subseteq Receives
    /\ told    \in [Receives -> {"nothing", "done", "cancelled", "error"}]

\* A record says done only when every wanted file is at the destination, also
\* when the download was skipped, resumed after a restart, or ended early.
DoneMeansSaved ==
    \A r \in Receives : catalog[r] = "done" => Wanted(r) \subseteq saved[r]

\* A record is active exactly while a task is behind it: neither a restart nor
\* an error nor a cleared list leaves a transfer that looks alive, and none
\* that runs is forgotten.
ActiveIsRunning ==
    \A r \in Receives :
        /\ catalog[r] = "active" => pc[r] \in Running
        /\ pc[r] \in {"plan", "downloading", "exporting"} => catalog[r] = "active"

\* A verdict in the catalog is final: a later step of the task, or a restart,
\* never rewrites it; a restart that finds an older file knows it no more, or
\* calls the transfer interrupted, and never takes one verdict for another.
VerdictIsFinal ==
    [][\A r \in Receives :
          catalog[r] \in {"done", "cancelled", "error", "interrupted"}
          => \/ catalog'[r] \in {catalog[r], "absent"}
             \/ catalog'[r] = "interrupted" /\ r \in lost']_vars

\* The stream and the catalog tell one story, though an error is announced
\* before it is recorded and the process may die in between, and the file may
\* miss a save: what was announced as done or cancelled is on record as that, or
\* as interrupted when the file was behind, and an error as neither.
StoriesAgree ==
    \A r \in Receives :
        /\ told[r] \in {"done", "cancelled"} =>
              \/ catalog[r] \in {told[r], "absent"}
              \/ catalog[r] = "interrupted" /\ r \in lost
        /\ told[r] = "error" => catalog[r] \notin {"done", "cancelled"}

\* A receive that started ends unless a peer stays connected and silent for
\* ever, and then only in two places: before the sizes are read, or in a download
\* nobody cancels.  A cancelled download, a full disk, an incomplete store, a
\* failed save: every other receive comes to its end.
ReceiveEnds ==
    \A r \in Receives :
        pc[r] = "connecting" ~> \/ pc[r] \in {"ended", "dead"}
                                \/ [](pc[r] = "sizes")
                                \/ [](pc[r] = "downloading" /\ ~token[r])

=============================================================================
