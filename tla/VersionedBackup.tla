-------------------------- MODULE VersionedBackup --------------------------
(***************************************************************************)
(* The life of ONE file of a folder source in the backup worker: the local *)
(* file and its watcher notification, the three remote copies LabSuite     *)
(* keeps of it (active, staging, history), the manifest entry, and the     *)
(* worker that plans the file and carries the plan out one rclone call at  *)
(* a time (main/backupPlanner.js, main/backupManifest.js and the transfer  *)
(* part of main/backupWorker.js).                                          *)
(*                                                                         *)
(* A content of the file is a number: the file's n-th content is n, None   *)
(* is "no such file".  The manifest recognises a content by size and       *)
(* modification time; here by its number ("sig").  A run id names the      *)
(* staging and the history directory an upload or a delete makes for       *)
(* itself.  Every rclone call is two steps, the effect on the remote and   *)
(* the return to the worker, so that an error, a pause or a crash can fall *)
(* before the effect or between the effect and its record.                 *)
(***************************************************************************)
EXTENDS Naturals, FiniteSets

CONSTANTS MaxContent,   \* bound: contents the user gives the file
          MaxRun,       \* bound: staging / history directories made
          Plans,        \* kinds of backup pass that happen
          Faults        \* kinds of fault that happen

ASSUME BoundsAssumption == MaxContent \in Nat /\ MaxRun \in Nat
ASSUME PlansAssumption  == Plans \subseteq {"dirty", "full"}
ASSUME FaultsAssumption == Faults \subseteq {"error", "stop"}

None     == 0
Contents == 0 .. MaxContent
Runs     == 0 .. MaxRun

VARIABLES local,     \* content of the local file
          newest,    \* last content the user wrote
          notified,  \* a watcher notification of the file is pending
          active,    \* content of the active remote copy
          staging,   \* content staged by each run
          history,   \* content preserved in history by each run
          entry,     \* the file's manifest entry
          plan,      \* what the current pass still has to do with the file
          call,      \* the rclone call in flight
          lastRun,   \* last run id handed out
          kept       \* (ghost) contents recorded as backed up so far

remote == <<active, staging, history>>
worker == <<plan, call, lastRun>>
vars   == <<local, newest, notified, remote, entry, worker, kept>>

Statuses == {"none", "backed_up", "dirty", "failed", "deleted",
             "deleted_pending_history", "active_repair_needed"}

Uploads == {"syncNew", "stageOne"}      \* single-file calls: need the local file
Calls   == {"copyNew", "stageBatch", "historyBatch", "historyOne",
            "promoteBatch", "promoteOne", "reconcile", "repairMove",
            "repairReconcile", "deleteBatch", "deleteOne"} \cup Uploads

NoEntry == [status |-> "none", remote |-> FALSE, missing |-> FALSE, sig |-> None,
            versions |-> {}, stagingRun |-> 0, historyRun |-> 0]
NoPlan  == [repair |-> FALSE, upload |-> "no", delete |-> FALSE, sig |-> None]
Idle    == [op |-> "idle", run |-> 0, done |-> FALSE, skipped |-> FALSE]
Between == [Idle EXCEPT !.op = "next"]  \* between two items of the plan

Init ==
  /\ local = None /\ newest = None /\ notified = FALSE
  /\ active = None /\ staging = [r \in Runs |-> None] /\ history = [r \in Runs |-> None]
  /\ entry = NoEntry /\ plan = NoPlan /\ call = Idle /\ lastRun = 0
  /\ kept = {}

-----------------------------------------------------------------------------
(* What main/backupManifest.js and main/database.js write into an entry.   *)

BackedUp(e, sig) ==
  [e EXCEPT !.status = "backed_up", !.remote = TRUE, !.missing = FALSE,
            !.sig = sig, !.stagingRun = 0, !.historyRun = 0]

WithVersion(e, r) == [e EXCEPT !.versions = @ \cup {r}]

Deleted(e, r) == [IF r = 0 THEN e ELSE WithVersion(e, r) EXCEPT !.status = "deleted"]

Failed(e) == [e EXCEPT !.status = "failed"]

RepairNeeded(e, r, sig) ==
  [WithVersion(e, r) EXCEPT !.status = "active_repair_needed", !.remote = TRUE,
     !.missing = FALSE, !.sig = sig, !.stagingRun = r, !.historyRun = r]

\* Mutant: the reason is written where the state belongs.
RemoteMissingAsStatus(e) == [e EXCEPT !.status = "remote_missing"]

RemoteMissing(e) == [e EXCEPT !.status = "dirty", !.missing = TRUE]

MarkedDirty(e) == [e EXCEPT !.status = "dirty", !.missing = FALSE]

MarkedDeleted(e) ==
  [e EXCEPT !.status =
     IF e.status \in {"backed_up", "active_repair_needed"} \/ e.remote \/ e.versions # {}
     THEN "deleted_pending_history" ELSE "deleted"]

-----------------------------------------------------------------------------
(* The user and the watcher.                                               *)

\* A change made while LabSuite is not watching (paused, not running) is
\* never notified.
Noticed == IF "stop" \in Faults THEN BOOLEAN ELSE {TRUE}

Write ==
  /\ newest < MaxContent
  /\ newest' = newest + 1
  /\ local' = newest'
  /\ \E n \in Noticed : notified' = (notified \/ n)
  /\ UNCHANGED <<remote, entry, worker, kept>>

Remove ==
  /\ local # None
  /\ local' = None
  /\ \E n \in Noticed : notified' = (notified \/ n)
  /\ UNCHANGED <<newest, remote, entry, worker, kept>>

\* The debounced watcher event looks at the file when its timer fires; a
\* deletion is only marked for a file the manifest knows.
Notify ==
  /\ notified
  /\ notified' = FALSE
  /\ entry' = IF local # None THEN MarkedDirty(entry)
              ELSE IF entry # NoEntry THEN MarkedDeleted(entry) ELSE entry
  /\ UNCHANGED <<local, newest, remote, worker, kept>>

-----------------------------------------------------------------------------
(* Planning a pass (main/backupPlanner.js).                                *)

HasChanged(e, content) ==
  /\ e.status # "active_repair_needed"
  /\ e.status = "backed_up" => e.sig # content

\* Mutant: a file waiting for its backup counts as never backed up.
HasCurrentRemoteCopy(e) == e.remote /\ e.status = "backed_up"

HasPreviousRemoteCopy(e) == e.remote /\ ~e.missing

Planned(e, upload, delete) ==
  [repair |-> e.status = "active_repair_needed", upload |-> upload,
   delete |-> delete \/ e.status = "deleted_pending_history",
   sig |-> IF upload = "no" THEN e.sig ELSE local]

\* The watcher's marks are all a quick pass looks at.
PlanDirty ==
  /\ call = Idle /\ "dirty" \in Plans
  /\ LET marked == entry.status \in {"dirty", "failed"}
         previous == HasPreviousRemoteCopy(entry)
     IN  /\ plan' = Planned(entry,
                      IF ~marked \/ local = None THEN "no"
                      ELSE IF previous THEN "modified" ELSE "new",
                      marked /\ local = None /\ previous)
         /\ entry' = IF marked /\ local = None /\ ~previous THEN NoEntry ELSE entry
  /\ call' = Between
  /\ UNCHANGED <<local, newest, notified, remote, lastRun, kept>>

\* The remote integrity check finds that the active copy disappeared.
MarkMissingActiveCopy(e) ==
  IF e.status = "backed_up" /\ active = None THEN RemoteMissing(e) ELSE e

UploadIfNeeded(e) ==
  IF local = None \/ ~HasChanged(e, local) THEN "no"
  ELSE IF e.status = "backed_up" /\ e.remote THEN "modified" ELSE "new"

\* A full pass checks the remote first, when that is due, then compares
\* every local file it finds.
PlanFull ==
  /\ call = Idle /\ "full" \in Plans
  /\ \E checked \in {entry, MarkMissingActiveCopy(entry)} :
       /\ entry' = checked
       /\ plan' = Planned(checked, UploadIfNeeded(checked), FALSE)
  /\ call' = Between
  /\ UNCHANGED <<local, newest, notified, remote, lastRun, kept>>

-----------------------------------------------------------------------------
(* Carrying the plan out: repairs, new files, modified files, deletions.   *)

Start(op, run) == call' = [Idle EXCEPT !.op = op, !.run = run]

\* Mutant: all runs share one directory.
StartShared(op) == lastRun' = 1 /\ Start(op, 1)

StartFresh(op) == lastRun < MaxRun /\ lastRun' = lastRun + 1 /\ Start(op, lastRun + 1)

StartRepair ==
  /\ call = Between /\ plan.repair
  /\ plan' = [plan EXCEPT !.repair = FALSE]
  /\ Start("repairMove", entry.stagingRun)
  /\ UNCHANGED <<local, newest, notified, remote, entry, lastRun, kept>>

StartUpload ==
  /\ call = Between /\ ~plan.repair /\ plan.upload # "no"
  /\ plan' = [plan EXCEPT !.upload = "no"]
  /\ \/ plan.upload = "new" /\ Start("copyNew", 0) /\ lastRun' = lastRun
     \/ plan.upload = "modified" /\ StartFresh("stageBatch")
  /\ UNCHANGED <<local, newest, notified, remote, entry, kept>>

StartDelete ==
  /\ call = Between /\ ~plan.repair /\ plan.upload = "no" /\ plan.delete
  /\ plan' = [plan EXCEPT !.delete = FALSE]
  /\ StartFresh("deleteBatch")
  /\ UNCHANGED <<local, newest, notified, remote, entry, kept>>

Finish ==
  /\ call = Between /\ ~plan.repair /\ plan.upload = "no" /\ ~plan.delete
  /\ plan' = NoPlan /\ call' = Idle
  /\ UNCHANGED <<local, newest, notified, remote, entry, lastRun, kept>>

-----------------------------------------------------------------------------
(* What rclone does on the remote.  A --files-from transfer and a          *)
(* moveRemoteFile of a missing source change nothing and succeed; a single *)
(* upload of a missing local file fails (see SourceGone).                  *)

Upload(r) ==
  \/ /\ call.op \in {"copyNew", "syncNew"} /\ local # None
     /\ active' = local /\ UNCHANGED <<staging, history>>
  \/ /\ call.op \in {"stageBatch", "stageOne"} /\ local # None
     /\ staging' = [staging EXCEPT ![r] = local] /\ UNCHANGED <<active, history>>
  \/ /\ call.op \in {"copyNew", "stageBatch"} /\ local = None
     /\ UNCHANGED remote

\* Mutant: the previous copy is copied, not moved.
CopyToHistory(r) ==
  /\ call.op \in {"historyBatch", "historyOne", "deleteBatch", "deleteOne"}
  /\ history' = IF active = None THEN history ELSE [history EXCEPT ![r] = active]
  /\ UNCHANGED <<active, staging>>

ToHistory(r) ==
  /\ call.op \in {"historyBatch", "historyOne", "deleteBatch", "deleteOne"}
  /\ history' = IF active = None THEN history ELSE [history EXCEPT ![r] = active]
  /\ active' = None
  /\ UNCHANGED staging

\* Mutant: promotion mirrors the staging directory, also when it is empty.
PromoteMirror(r) ==
  /\ call.op \in {"promoteBatch", "promoteOne", "repairMove"}
  /\ active' = staging[r] /\ staging' = [staging EXCEPT ![r] = None]
  /\ UNCHANGED history

Promote(r) ==
  /\ call.op \in {"promoteBatch", "promoteOne", "repairMove"}
  /\ active' = IF staging[r] = None THEN active ELSE staging[r]
  /\ staging' = [staging EXCEPT ![r] = None]
  /\ UNCHANGED history

Effect ==
  /\ call.op \in Calls /\ ~call.done
  /\ \/ Upload(call.run)
     \/ ToHistory(call.run)
     \/ Promote(call.run)
     \/ call.op \in {"reconcile", "repairReconcile"} /\ UNCHANGED remote
  /\ call' = [call EXCEPT !.done = TRUE, !.skipped = (active = None)]
  /\ UNCHANGED <<local, newest, notified, entry, plan, lastRun, kept>>

-----------------------------------------------------------------------------
(* The worker when the call succeeds.                                      *)

\* Mutant: the record describes the file as it is after the upload.
RecordAsFound(e) ==
  /\ entry' = BackedUp(e, local)
  /\ kept' = kept \cup ({active} \ {None})
  /\ call' = Between

RecordBackedUp(e) ==
  /\ entry' = BackedUp(e, plan.sig)
  /\ kept' = kept \cup ({active} \ {None})
  /\ call' = Between

ReturnOk ==
  /\ call.op \in Calls /\ call.done
  /\ \/ /\ call.op \in {"copyNew", "syncNew", "promoteBatch", "promoteOne"}
        /\ RecordBackedUp(entry)
     \/ /\ call.op = "repairMove"
        /\ RecordBackedUp(WithVersion(entry, call.run))
     \/ /\ call.op \in {"stageBatch", "stageOne"}
        /\ Start(IF call.op = "stageBatch" THEN "historyBatch" ELSE "historyOne", call.run)
        /\ UNCHANGED <<entry, kept>>
     \/ /\ call.op = "historyBatch"
        /\ entry' = WithVersion(entry, call.run)
        /\ Start("promoteBatch", call.run)
        /\ UNCHANGED kept
     \/ /\ call.op = "historyOne"
        /\ entry' = IF call.skipped THEN entry ELSE WithVersion(entry, call.run)
        /\ Start("promoteOne", call.run)
        /\ UNCHANGED kept
     \/ /\ call.op = "deleteBatch"
        /\ entry' = Deleted(entry, call.run) /\ call' = Between /\ UNCHANGED kept
     \/ /\ call.op = "deleteOne"
        /\ entry' = Deleted(entry, IF call.skipped THEN 0 ELSE call.run)
        /\ call' = Between /\ UNCHANGED kept
     \/ /\ call.op \in {"reconcile", "repairReconcile"} /\ active # None
        /\ RecordBackedUp(entry)
     \/ /\ call.op = "reconcile" /\ active = None
        /\ entry' = RepairNeeded(entry, call.run, plan.sig)
        /\ call' = Between /\ UNCHANGED kept
     \/ /\ call.op = "repairReconcile" /\ active = None
        /\ call' = Between /\ UNCHANGED <<entry, kept>>
  /\ UNCHANGED <<local, newest, notified, remote, plan, lastRun>>

-----------------------------------------------------------------------------
(* The worker when the call fails, with or without its effect.             *)

SourceGone == call.op \in Uploads /\ ~call.done /\ local = None

GiveUp(e) == entry' = e /\ call' = Between /\ lastRun' = lastRun

\* handleDisappearedLocalItem: the local file vanished before its upload.
Disappeared ==
  \/ entry.remote /\ StartFresh("deleteOne") /\ UNCHANGED entry
  \/ ~entry.remote /\ GiveUp(NoEntry)

ReturnError ==
  /\ call.op \in Calls
  /\ "error" \in Faults \/ SourceGone
  /\ \/ call.op = "copyNew" /\ Start("syncNew", 0) /\ UNCHANGED <<entry, lastRun>>
     \/ call.op \in Uploads /\ local = None /\ Disappeared
     \/ call.op \in Uploads /\ local # None /\ GiveUp(Failed(entry))
     \/ call.op = "stageBatch" /\ StartFresh("stageOne") /\ UNCHANGED entry
     \/ /\ call.op = "historyBatch" /\ Start("historyOne", call.run)
        /\ UNCHANGED <<entry, lastRun>>
     \/ /\ call.op \in {"historyOne", "promoteOne"}
        /\ GiveUp(RepairNeeded(entry, call.run, plan.sig))
     \/ call.op = "promoteOne" /\ GiveUp(Failed(entry))  \* the message names the staging path
     \/ /\ call.op = "promoteBatch" /\ Start("reconcile", call.run)
        /\ UNCHANGED <<entry, lastRun>>
     \/ call.op = "reconcile" /\ GiveUp(RepairNeeded(entry, call.run, plan.sig))
     \/ /\ call.op = "repairMove" /\ Start("repairReconcile", call.run)
        /\ UNCHANGED <<entry, lastRun>>
     \/ call.op = "repairReconcile" /\ GiveUp([entry EXCEPT !.status = "active_repair_needed"])
     \/ call.op = "deleteBatch" /\ StartFresh("deleteOne") /\ UNCHANGED entry
     \/ call.op = "deleteOne" /\ GiveUp(Failed(entry))
  /\ UNCHANGED <<local, newest, notified, remote, plan, kept>>

\* An error that concerns the whole batch ends the run: nothing is recorded.
AbortRun ==
  /\ call.op = "copyNew" /\ "error" \in Faults
  /\ plan' = NoPlan /\ call' = Idle
  /\ UNCHANGED <<local, newest, notified, remote, entry, lastRun, kept>>

\* A pause, a quit or a crash: the worker forgets the pass, the watcher the
\* notification it still held.
Stop ==
  /\ "stop" \in Faults /\ (call # Idle \/ notified)
  /\ plan' = NoPlan /\ call' = Idle /\ notified' = FALSE
  /\ UNCHANGED <<local, newest, remote, entry, lastRun, kept>>

-----------------------------------------------------------------------------
Next ==
  \/ Write \/ Remove \/ Notify
  \/ PlanDirty \/ PlanFull
  \/ StartRepair \/ StartUpload \/ StartDelete \/ Finish
  \/ Effect \/ ReturnOk \/ ReturnError \/ AbortRun \/ Stop

Spec == Init /\ [][Next]_vars
-----------------------------------------------------------------------------
(* Properties.                                                             *)

\* Every variable keeps the shape the code gives it.
TypeOK ==
  /\ local \in Contents /\ newest \in Contents /\ notified \in BOOLEAN
  /\ active \in Contents
  /\ staging \in [Runs -> Contents] /\ history \in [Runs -> Contents]
  /\ entry \in [status : Statuses, remote : BOOLEAN, missing : BOOLEAN, sig : Contents,
                versions : SUBSET Runs, stagingRun : Runs, historyRun : Runs]
  /\ plan \in [repair : BOOLEAN, upload : {"no", "new", "modified"},
               delete : BOOLEAN, sig : Contents]
  /\ call \in [op : Calls \cup {"idle", "next"}, run : Runs,
               done : BOOLEAN, skipped : BOOLEAN]
  /\ lastRun \in Runs
  /\ kept \in SUBSET Contents

RemoteCopies == {active} \cup {staging[r] : r \in Runs} \cup {history[r] : r \in Runs}

\* The remote never falls behind what the manifest once called backed up:
\* that content or a newer one is in the active, the staging or the history
\* area, whatever call fails, is cut short or is repeated.
NewestKept == \A c \in kept : \E d \in RemoteCopies : d >= c

\* A copy that reached the history area is never changed or taken away by
\* a later backup of the file (retention is another component).
HistoryImmutable ==
  [][\A r \in Runs : history[r] # None => history'[r] = history[r]]_vars

\* Promoting a staged copy never lands on top of an active copy: the
\* previous one is in history by then, also when the batch move failed and
\* the files are isolated one by one.
PromotionFindsNoActiveCopy ==
  [][call.op \in {"promoteBatch", "promoteOne"} /\ active # None => active' = active]_vars

\* README.md:39: overwritten and deleted files are preserved.  Every content
\* that was once the recorded backup is still the active copy or in history.
OverwrittenKept ==
  \A c \in kept : active = c \/ \E r \in Runs : history[r] = c

\* A local file whose active copy differs is never hidden behind a
\* backed_up entry: the next full pass uploads or repairs it.
FullScanFindsChanges ==
  call = Idle /\ local # None /\ active # local =>
    HasChanged(entry, local) \/ entry.status = "active_repair_needed"
=============================================================================
