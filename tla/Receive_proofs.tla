--------------------------- MODULE Receive_proofs ---------------------------
(***************************************************************************)
(* What TLAPS proves about Receive, for any set of calls, any files and any *)
(* number of restarts.                                                     *)
(***************************************************************************)
EXTENDS Receive, TLAPS

USE MetaAssumption, ChosenAssumption

\* What the record of a receive says at each point of its task: nothing before
\* the task has written it, active while it works, and a verdict, or nothing,
\* once it is over.  A task that failed may have failed before it had a record.
Ledger ==
    \A r \in Receives :
        /\ pc[r] \in {"none", "connecting", "sizes", "record"} => catalog[r] = "absent"
        /\ pc[r] \in {"plan", "downloading", "exporting"} => catalog[r] = "active"
        /\ pc[r] = "failed" => catalog[r] \in {"absent", "active"}
        /\ pc[r] \in {"retire", "ended", "dead"} => catalog[r] # "active"

\* What the file says of a receive: nothing before it has a record, and later no
\* more than the catalog, or less; never another verdict.
Filed ==
    \A r \in Receives :
        /\ pc[r] \in {"none", "connecting", "sizes", "record"} => file[r] = "absent"
        /\ catalog[r] # "absent" => file[r] \in {"absent", "active", catalog[r]}

\* The first state is well typed.
LEMMA InitType == Init => TypeOK
  BY DEF Init, TypeOK, Phases, Statuses

\* Every step is well typed.
LEMMA NextType ==
  ASSUME TypeOK, [Next]_vars
  PROVE  TypeOK'
<1>1. ASSUME NEW r \in Receives, Start(r) \/ Connected(r) \/ SizesRead(r)
                                 \/ Record(r) \/ Retire(r)
      PROVE  TypeOK'
  BY <1>1 DEF TypeOK, Start, Connected, SizesRead, Record, Retire, Save, Goto, Phases, Statuses
<1>2. ASSUME NEW r \in Receives, Plan(r)
      PROVE  TypeOK'
  BY <1>2 DEF TypeOK, Plan, Goto, Phases
<1>3. ASSUME NEW r \in Receives, NEW b \in Files \cup {Meta}, Fetch(r, b)
      PROVE  TypeOK'
  BY <1>3 DEF TypeOK, Fetch
<1>4. ASSUME NEW r \in Receives, DownloadDone(r) \/ StreamEnds(r)
      PROVE  TypeOK'
  BY <1>4 DEF TypeOK, DownloadDone, StreamEnds, Goto, Phases
<1>5. ASSUME NEW r \in Receives, DownloadCancelled(r) \/ Finish(r)
      PROVE  TypeOK'
  BY <1>5 DEF TypeOK, DownloadCancelled, Finish, SetStatus, Save, Tell, Goto, Phases, Statuses
<1>6. ASSUME NEW r \in Receives, NEW f \in Files, Export(r, f)
      PROVE  TypeOK'
  BY <1>6 DEF TypeOK, Export
<1>7. ASSUME NEW r \in Receives, Fail(r) \/ RecordError(r)
      PROVE  TypeOK'
  BY <1>7 DEF TypeOK, Fail, RecordError, SetStatus, Save, Tell, Goto, Phases, Statuses
<1>8. ASSUME NEW r \in Receives, Cancel(r)
      PROVE  TypeOK'
  BY <1>8 DEF TypeOK, Cancel
<1>9. CASE ClearFinished
  BY <1>9 DEF TypeOK, ClearFinished, Save, Statuses
<1>10. CASE Restart
  BY <1>10 DEF TypeOK, Restart, Swept, Save, Phases, Statuses
<1>11. CASE Inspect
  BY <1>11 DEF TypeOK, Inspect
<1>12. CASE UNCHANGED vars
  BY <1>12 DEF TypeOK, vars
<1> QED
  BY <1>1, <1>2, <1>3, <1>4, <1>5, <1>6, <1>7, <1>8, <1>9, <1>10, <1>11, <1>12
     DEF Next, Advance

\* Type correctness: whatever tasks, user and restarts do, in any order.
THEOREM TypeCorrect == Spec => []TypeOK
  BY InitType, NextType, PTL DEF Spec

\* Every step keeps the catalog and the tasks in agreement.
LEMMA NextLedger ==
  ASSUME TypeOK, Ledger, Filed, [Next]_vars
  PROVE  Ledger'
<1>0. /\ pc \in [Receives -> Phases]
      /\ catalog \in [Receives -> Statuses] /\ file \in [Receives -> Statuses]
  BY DEF TypeOK
<1>1. ASSUME NEW r \in Receives, Start(r) \/ Connected(r) \/ SizesRead(r) \/ Plan(r)
                                 \/ Retire(r) \/ DownloadDone(r) \/ StreamEnds(r) \/ Fail(r)
      PROVE  Ledger'
  <2>1. catalog' = catalog
    BY <1>1 DEF Start, Connected, SizesRead, Plan, Retire, DownloadDone, StreamEnds, Fail
  <2>2. \E to \in Phases :
           /\ pc' = [pc EXCEPT ![r] = to]
           /\ \/ pc[r] = "none" /\ to = "connecting"
              \/ pc[r] = "connecting" /\ to = "sizes"
              \/ pc[r] = "sizes" /\ to = "record"
              \/ pc[r] \in {"plan", "downloading"} /\ to \in {"downloading", "exporting"}
              \/ pc[r] = "retire" /\ to = "ended"
              \/ /\ pc[r] \in {"connecting", "sizes", "plan", "downloading", "exporting"}
                 /\ to = "failed"
    BY <1>1 DEF Start, Connected, SizesRead, Plan, Retire, DownloadDone, StreamEnds, Fail,
       Fallible, Goto, Phases
  <2> QED
    BY <1>0, <2>1, <2>2 DEF Ledger
<1>2. ASSUME NEW r \in Receives, Record(r)
      PROVE  Ledger'
  BY <1>0, <1>2 DEF Ledger, Record, Goto
<1>3. ASSUME NEW r \in Receives, DownloadCancelled(r) \/ Finish(r) \/ RecordError(r)
      PROVE  Ledger'
  <2>1. /\ pc' = [pc EXCEPT ![r] = "retire"]
        /\ \E status \in {"done", "cancelled", "error"} : SetStatus(r, status)
    BY <1>3 DEF DownloadCancelled, Finish, RecordError, Goto
  <2> QED
    BY <1>0, <2>1 DEF Ledger, SetStatus
<1>4. CASE ClearFinished
  BY <1>0, <1>4 DEF Ledger, ClearFinished
<1>5. CASE Restart
  BY <1>0, <1>5 DEF Ledger, Filed, Restart, Swept, Running, Phases
<1>6. CASE UNCHANGED <<pc, catalog>>
  BY <1>6 DEF Ledger
<1> QED
  BY <1>1, <1>2, <1>3, <1>4, <1>5, <1>6
     DEF Next, Advance, Fetch, Export, Cancel, Inspect, vars

\* A save brings the file up to the catalog or leaves it where it was.
LEMMA NextFiled ==
  ASSUME TypeOK, Ledger, Filed, [Next]_vars
  PROVE  Filed'
<1>0. /\ pc \in [Receives -> Phases]
      /\ catalog \in [Receives -> Statuses] /\ file \in [Receives -> Statuses]
  BY DEF TypeOK
<1>1. ASSUME NEW r \in Receives, Start(r) \/ Connected(r) \/ SizesRead(r) \/ Plan(r)
                                 \/ Retire(r) \/ DownloadDone(r) \/ StreamEnds(r) \/ Fail(r)
      PROVE  Filed'
  <2>1. UNCHANGED <<catalog, file>>
    BY <1>1 DEF Start, Connected, SizesRead, Plan, Retire, DownloadDone, StreamEnds, Fail
  <2>2. \E to \in Phases :
           /\ pc' = [pc EXCEPT ![r] = to]
           /\ to \in {"none", "connecting", "sizes", "record"}
              => pc[r] \in {"none", "connecting", "sizes", "record"}
    BY <1>1 DEF Start, Connected, SizesRead, Plan, Retire, DownloadDone, StreamEnds,
       Fail, Goto, Phases
  <2> QED
    BY <1>0, <2>1, <2>2 DEF Filed
<1>2. ASSUME NEW r \in Receives,
             Record(r) \/ DownloadCancelled(r) \/ Finish(r) \/ RecordError(r)
      PROVE  Filed'
  <2>1. \E status \in Statuses :
           /\ catalog' = [catalog EXCEPT ![r] = status]
           /\ catalog[r] \in {"absent", "active"}
           /\ catalog[r] = "absent" => status = "absent" \/ file[r] = "absent"
    BY <1>0, <1>2 DEF Record, DownloadCancelled, Finish, RecordError, SetStatus, Goto,
       Ledger, Filed, Statuses
  <2>2. /\ pc' = [pc EXCEPT ![r] = IF Record(r) THEN "plan" ELSE "retire"]
        /\ pc[r] \in {"record", "downloading", "exporting", "failed"}
        /\ Save
    BY <1>0, <1>2 DEF Record, DownloadCancelled, Finish, RecordError, SetStatus, Goto
  <2>3. \A q \in Receives : pc'[q] \in {"none", "connecting", "sizes", "record"} =>
            q # r /\ pc[q] \in {"none", "connecting", "sizes", "record"}
    BY <1>0, <2>2
  <2>4. \A q \in Receives : pc'[q] \in {"none", "connecting", "sizes", "record"} =>
            catalog'[q] = "absent" /\ file'[q] = "absent"
    BY <1>0, <2>1, <2>2, <2>3 DEF Save, Filed, Ledger
  <2>5. ASSUME NEW q \in Receives, catalog'[q] # "absent"
        PROVE  file'[q] \in {"absent", "active", catalog'[q]}
    BY <1>0, <2>1, <2>2, <2>5 DEF Save, Filed
  <2> QED
    BY <2>4, <2>5 DEF Filed
<1>3. CASE ClearFinished
  BY <1>0, <1>3 DEF Filed, Ledger, ClearFinished, Save
<1>4. CASE Restart
  BY <1>0, <1>4 DEF Filed, Restart, Swept, Save, Running, Phases
<1>5. CASE UNCHANGED <<pc, catalog, file>>
  BY <1>5 DEF Filed
<1> QED
  BY <1>1, <1>2, <1>3, <1>4, <1>5
     DEF Next, Advance, Fetch, Export, Cancel, Inspect, vars

\* They agree in every reachable state.
LEMMA LedgerInvariant == Spec => [](TypeOK /\ Ledger /\ Filed)
<1>1. Init => Ledger /\ Filed
  BY DEF Init, Ledger, Filed
<1> QED
  BY <1>1, TypeCorrect, NextLedger, NextFiled, PTL DEF Spec

\* The catalog and the tasks agree across cancels, failures, cleared lists and
\* restarts: what looks active is running, and what runs looks active.
THEOREM ActiveRuns == Spec => []ActiveIsRunning
<1>1. TypeOK /\ Ledger => ActiveIsRunning
  BY DEF TypeOK, Ledger, ActiveIsRunning, Running, Phases
<1> QED
  BY <1>1, LedgerInvariant, PTL

\* No step of a task rewrites a verdict, and a restart only where the file was
\* behind, and then never by another.
THEOREM VerdictsFinal == Spec => VerdictIsFinal
<1> DEFINE Kept ==
      \A r \in Receives :
          catalog[r] \in {"done", "cancelled", "error", "interrupted"}
          => \/ catalog'[r] \in {catalog[r], "absent"}
             \/ catalog'[r] = "interrupted" /\ r \in lost'
<1>1. TypeOK /\ Ledger /\ Filed /\ [Next]_vars => [Kept]_vars
  <2> SUFFICES ASSUME TypeOK, Ledger, Filed, Next,
                      NEW r \in Receives,
                      catalog[r] \in {"done", "cancelled", "error", "interrupted"}
               PROVE  \/ catalog'[r] \in {catalog[r], "absent"}
                      \/ catalog'[r] = "interrupted" /\ r \in lost'
    OBVIOUS
  <2>0. /\ catalog \in [Receives -> Statuses]
        /\ pc[r] \in {"retire", "ended", "dead"}
    BY DEF TypeOK, Ledger, Phases
  <2>1. ASSUME NEW q \in Receives,
               Record(q) \/ DownloadCancelled(q) \/ Finish(q) \/ RecordError(q)
        PROVE  catalog'[r] = catalog[r]
    <3>1. q # r
      BY <2>0, <2>1 DEF Record, DownloadCancelled, Finish, RecordError, Goto
    <3>2. \E status : catalog' = [catalog EXCEPT ![q] = status]
      BY <2>1 DEF Record, DownloadCancelled, Finish, RecordError, SetStatus
    <3> QED
      BY <2>0, <3>1, <3>2
  <2>2. CASE ClearFinished
    BY <2>2 DEF ClearFinished
  <2>3. CASE Restart
    BY <2>0, <2>3 DEF Filed, Restart, Swept
  <2>4. CASE UNCHANGED catalog
    BY <2>4
  <2> QED
    BY <2>1, <2>2, <2>3, <2>4 DEF Next, Start, Advance, Connected, SizesRead, Plan,
       DownloadDone, StreamEnds, Fail, Retire, Export, Fetch, Cancel, Inspect
<1> QED
  BY <1>1, LedgerInvariant, PTL DEF Spec, VerdictIsFinal

\* The file says done of no receive whose files are not at the destination.
FileSaved == \A r \in Receives : file[r] = "done" => Wanted(r) \subseteq saved[r]

\* Files at the destination stay, and Finish needs them all.
LEMMA NextSaved ==
  ASSUME TypeOK, DoneMeansSaved, FileSaved, [Next]_vars
  PROVE  DoneMeansSaved' /\ FileSaved'
<1>0. catalog \in [Receives -> Statuses] /\ saved \in [Receives -> SUBSET Files]
  BY DEF TypeOK
<1>1. \A r \in Receives : saved[r] \subseteq saved'[r]
  BY <1>0 DEF Next, Start, Advance, Connected, SizesRead, Record, Plan, DownloadDone,
     StreamEnds, DownloadCancelled, Finish, Fail, RecordError, Retire, Export, Fetch, Cancel,
     Inspect, ClearFinished, Restart, vars
<1>2. ASSUME NEW r \in Receives, catalog'[r] = "done", catalog[r] # "done"
      PROVE  Wanted(r) \subseteq saved[r]
  <2>1. CASE Restart
    BY <1>2, <2>1 DEF Restart, Swept, FileSaved
  <2>2. CASE ~Restart
    <3>1. ~ClearFinished /\ ~UNCHANGED catalog
      BY <1>2 DEF ClearFinished
    <3>2. PICK q \in Receives :
              Record(q) \/ DownloadCancelled(q) \/ Finish(q) \/ RecordError(q)
      BY <2>2, <3>1 DEF Next, Start, Advance, Connected, SizesRead, Plan,
         DownloadDone, StreamEnds, Fail, Retire, Export, Fetch, Cancel, Inspect, vars
    <3>3. q = r /\ Finish(q)
      BY <1>0, <1>2, <3>2 DEF Record, DownloadCancelled, Finish, RecordError, SetStatus
    <3> QED
      BY <3>3 DEF Finish, Exported
  <2> QED
    BY <2>1, <2>2
<1>3. DoneMeansSaved'
  BY <1>1, <1>2 DEF DoneMeansSaved, Wanted
<1>4. file' = file \/ file' = catalog'
  BY DEF Next, Start, Advance, Connected, SizesRead, Record, Plan, DownloadDone,
     StreamEnds, DownloadCancelled, Finish, Fail, RecordError, Retire, Export, Fetch, Cancel,
     Inspect, ClearFinished, Restart, SetStatus, Save, vars
<1> QED
  BY <1>1, <1>3, <1>4 DEF DoneMeansSaved, FileSaved, Wanted

\* A record that says done has every wanted file behind it, also after downloads
\* that were skipped, cut short, or resumed from an earlier run's store, and
\* when it was read back from a file that had missed saves.
THEOREM DoneSaved == Spec => []DoneMeansSaved
<1>1. Init => DoneMeansSaved /\ FileSaved
  BY DEF Init, DoneMeansSaved, FileSaved
<1> QED
  BY <1>1, TypeCorrect, NextSaved, PTL DEF Spec

\* A stream that has had its last word belongs to a task past its work.
Concluded ==
    \A r \in Receives :
        /\ told[r] # "nothing" => pc[r] \in {"failed", "retire", "ended", "dead"}
        /\ pc[r] = "failed" => told[r] = "error"

\* The file follows the stream too, or is behind it.
FileAgrees ==
    \A r \in Receives :
        /\ told[r] \in {"done", "cancelled"} =>
              \/ file[r] \in {told[r], "absent", "active"}
              \/ file[r] = "interrupted" /\ r \in lost
        /\ told[r] = "error" => file[r] \notin {"done", "cancelled"}

\* Only the steps that end a task speak last or write its verdict.
LEMMA NextStories ==
  ASSUME TypeOK, Ledger, Filed, Concluded, FileAgrees, StoriesAgree, [Next]_vars
  PROVE  Concluded' /\ FileAgrees' /\ StoriesAgree'
<1>0. /\ pc \in [Receives -> Phases]
      /\ catalog \in [Receives -> Statuses] /\ file \in [Receives -> Statuses]
      /\ told \in [Receives -> {"nothing", "done", "cancelled", "error"}]
  BY DEF TypeOK
<1>1. ASSUME NEW r \in Receives, Start(r) \/ Connected(r) \/ SizesRead(r) \/ Plan(r)
                                 \/ Retire(r) \/ DownloadDone(r) \/ StreamEnds(r)
      PROVE  Concluded' /\ FileAgrees' /\ StoriesAgree'
  <2>1. UNCHANGED <<catalog, file, told, lost>>
    BY <1>1 DEF Start, Connected, SizesRead, Plan, Retire, DownloadDone, StreamEnds
  <2>2. \E to \in Phases \ {"failed"} :
           /\ pc' = [pc EXCEPT ![r] = to]
           /\ pc[r] # "failed"
           /\ pc[r] = "retire" => to = "ended"
           /\ pc[r] \notin {"ended", "dead"}
    BY <1>1 DEF Start, Connected, SizesRead, Plan, Retire, DownloadDone, StreamEnds,
       Goto, Phases
  <2> QED
    BY <1>0, <2>1, <2>2 DEF Concluded, FileAgrees, StoriesAgree
<1>2. ASSUME NEW r \in Receives, Record(r)
      PROVE  Concluded' /\ FileAgrees' /\ StoriesAgree'
  <2>1. told[r] = "nothing" /\ pc' = [pc EXCEPT ![r] = "plan"] /\ UNCHANGED <<told, lost>>
    BY <1>0, <1>2 DEF Record, Goto, Concluded
  <2>2. Concluded'
    BY <1>0, <2>1 DEF Concluded
  <2>3. catalog' = [catalog EXCEPT ![r] = "active"] /\ file' \in {file, catalog'}
    BY <1>2 DEF Record, Save
  <2>4. StoriesAgree'
    BY <1>0, <2>1, <2>3 DEF StoriesAgree
  <2>5. FileAgrees'
    BY <1>0, <2>1, <2>3, <2>4 DEF FileAgrees, StoriesAgree
  <2> QED
    BY <2>2, <2>4, <2>5
<1>3. ASSUME NEW r \in Receives, DownloadCancelled(r) \/ Finish(r)
      PROVE  Concluded' /\ FileAgrees' /\ StoriesAgree'
  <2>1. PICK verdict \in {"done", "cancelled"} :
           /\ SetStatus(r, verdict)
           /\ Tell(r, verdict)
           /\ pc' = [pc EXCEPT ![r] = "retire"]
    BY <1>3 DEF DownloadCancelled, Finish, Goto
  <2>2. catalog[r] = "active" /\ file[r] \in {"absent", "active"} /\ lost' = lost
    BY <1>3 DEF DownloadCancelled, Finish, Goto, Ledger, Filed
  <2>3. Concluded'
    BY <1>0, <2>1 DEF Concluded, Tell
  <2>4. catalog' = [catalog EXCEPT ![r] = verdict] /\ told' = [told EXCEPT ![r] = verdict]
    BY <1>0, <2>1, <2>2 DEF SetStatus, Tell
  <2>5. StoriesAgree'
    BY <1>0, <2>2, <2>4 DEF StoriesAgree
  <2>6. ASSUME file' = file
        PROVE  FileAgrees'
    BY <1>0, <2>2, <2>4, <2>6 DEF FileAgrees
  <2>7. ASSUME file' = catalog'
        PROVE  FileAgrees'
    BY <2>5, <2>7 DEF FileAgrees, StoriesAgree
  <2> QED
    BY <2>1, <2>3, <2>5, <2>6, <2>7 DEF SetStatus, Save
<1>4. ASSUME NEW r \in Receives, Fail(r)
      PROVE  Concluded' /\ FileAgrees' /\ StoriesAgree'
  <2>1. catalog[r] \in {"absent", "active"} /\ file[r] \in {"absent", "active"}
    BY <1>4 DEF Ledger, Filed, Fail, Fallible
  <2>2. /\ told' = [told EXCEPT ![r] = "error"] /\ pc' = [pc EXCEPT ![r] = "failed"]
        /\ UNCHANGED <<catalog, file, lost>>
    BY <1>4 DEF Fail, Tell
  <2> QED
    BY <1>0, <2>1, <2>2 DEF Concluded, FileAgrees, StoriesAgree
<1>5. ASSUME NEW r \in Receives, RecordError(r)
      PROVE  Concluded' /\ FileAgrees' /\ StoriesAgree'
  <2>1. /\ pc' = [pc EXCEPT ![r] = "retire"] /\ told[r] = "error" /\ UNCHANGED <<told, lost>>
        /\ SetStatus(r, "error")
    BY <1>5 DEF RecordError, Goto, Concluded
  <2>2. Concluded'
    BY <1>0, <2>1 DEF Concluded
  <2>3. StoriesAgree'
    BY <1>0, <2>1 DEF StoriesAgree, SetStatus
  <2>4. ASSUME file' = file
        PROVE  FileAgrees'
    BY <2>1, <2>4 DEF FileAgrees
  <2>5. ASSUME file' = catalog'
        PROVE  FileAgrees'
    BY <2>3, <2>5 DEF FileAgrees, StoriesAgree
  <2> QED
    BY <2>1, <2>2, <2>3, <2>4, <2>5 DEF SetStatus, Save
<1>6. CASE ClearFinished
  <2>1. UNCHANGED <<pc, told, lost>> /\ file' \in {file, catalog'}
    BY <1>6 DEF ClearFinished, Save
  <2>2. StoriesAgree'
    BY <1>0, <1>6, <2>1 DEF StoriesAgree, ClearFinished
  <2>3. FileAgrees'
    BY <2>1, <2>2 DEF FileAgrees, StoriesAgree
  <2> QED
    BY <2>1, <2>2, <2>3 DEF Concluded
<1>7. CASE Restart
  <2>1. /\ UNCHANGED told /\ file' \in {file, catalog'} /\ lost \subseteq lost'
        /\ \A r \in Receives : file[r] # catalog[r] => r \in lost'
        /\ catalog' = [r \in Receives |->
                          IF file[r] = "active" THEN "interrupted" ELSE file[r]]
    BY <1>7 DEF Restart, Save, Swept
  <2>2. Concluded'
    BY <1>0, <1>7 DEF Concluded, Restart, Running, Phases
  <2>3. ASSUME NEW r \in Receives, told[r] \in {"done", "cancelled"}
        PROVE  \/ catalog'[r] \in {told[r], "absent"}
               \/ catalog'[r] = "interrupted" /\ r \in lost'
    <3>1. file[r] = "active" => r \in lost'
      BY <2>1, <2>3 DEF StoriesAgree
    <3> QED
      BY <2>1, <2>3, <3>1 DEF FileAgrees
  <2>4. \A r \in Receives : told[r] = "error" => catalog'[r] \notin {"done", "cancelled"}
    BY <2>1 DEF FileAgrees
  <2>5. StoriesAgree'
    BY <2>1, <2>3, <2>4 DEF StoriesAgree
  <2>6. ASSUME file' = file
        PROVE  FileAgrees'
    BY <2>1, <2>6 DEF FileAgrees
  <2>7. ASSUME file' = catalog'
        PROVE  FileAgrees'
    BY <2>5, <2>7 DEF FileAgrees, StoriesAgree
  <2> QED
    BY <2>1, <2>2, <2>5, <2>6, <2>7
<1>8. CASE UNCHANGED <<pc, catalog, file, told, lost>>
  BY <1>8 DEF Concluded, FileAgrees, StoriesAgree
<1> QED
  BY <1>1, <1>2, <1>3, <1>4, <1>5, <1>6, <1>7, <1>8
     DEF Next, Advance, Fetch, Export, Cancel, Inspect, vars

\* The last word on a receive's stream and its record never contradict each
\* other, whenever the process dies and whatever the user clears.
THEOREM StoriesMatch == Spec => []StoriesAgree
<1>1. Init => Concluded /\ FileAgrees /\ StoriesAgree
  BY DEF Init, Concluded, FileAgrees, StoriesAgree
<1>2. TypeOK /\ Ledger /\ Filed /\ Concluded /\ FileAgrees /\ StoriesAgree /\ [Next]_vars
      => (Concluded /\ FileAgrees /\ StoriesAgree)'
  BY NextStories
<1> QED
  BY <1>1, <1>2, LedgerInvariant, PTL DEF Spec

=============================================================================
