----------------------------- MODULE RestoreJobs -----------------------------
(***************************************************************************)
(* Restores that run: folder restores with their records that survive a    *)
(* restart, point-in-time restores and single packed files (main/ipc.js),  *)
(* the rclone calls they make (main/rclone.js) and the extraction of       *)
(* packed files (main/packStore.js).                                       *)
(*                                                                         *)
(* A target is a remote folder with the local destination it is restored   *)
(* to.  A slot is a name: the file's own, or "name (Restored)".  Progress  *)
(* numbers and activity rows are left out.                                 *)
(***************************************************************************)
EXTENDS Naturals, FiniteSets, FiniteSetsExt, TLC

CONSTANTS Targets, FileCount,
          Ids,        \* job ids
          MaxRuns,    \* bound: runs of folder restores
          Slots,      \* bound: names tried for a file
          Restarts    \* whether the program may be restarted

JobsAssumption ==
  /\ "none" \notin Targets
  /\ Ids \subseteq Nat \ {0} /\ IsFiniteSet(Ids) /\ MaxRuns \in Nat
  /\ FileCount \in Nat \ {0} /\ Slots \in Nat \ {0} /\ Restarts \in BOOLEAN

VARIABLES
  record,    \* active_restores: per target, id and status; id 0 for no record
  running,   \* runningRestoreJobs
  job,       \* per id, its target and its rclone process
  runs,      \* runs so far
  restored,  \* targets whose restore was reported complete after its last start
  pit,       \* the point-in-time restore, if one runs
  packed,    \* the restore of a packed file: its run and its record
  disk       \* per target, file and slot, what is on the local disk

jobVars == <<record, running, job, runs, restored>>
vars    == <<jobVars, pit, packed, disk>>

FileIds    == 1 .. FileCount
Names    == FileIds \X (1 .. Slots)
Own(f)   == <<f, 1>>
NoRecord == [id |-> 0, status |-> "none"]
NoPit    == [phase |-> "none", file |-> 1, slot |-> 1]

TypeOK ==
  /\ \A d \in Targets :
       /\ record[d].id \in Ids \cup {0} /\ record[d].status \in {"none", "restoring", "failed"}
       /\ (record[d].id = 0) <=> (record[d].status = "none")
  /\ running \subseteq Ids /\ runs \in 0 .. MaxRuns
  /\ \A i \in Ids : job[i].todo \subseteq FileIds /\ job[i].open \subseteq job[i].todo
  /\ \A i \in running : job[i].target \in Targets
  /\ restored \subseteq Targets
  /\ pit.phase \in {"none", "choose", "copy"} /\ pit.file \in FileIds /\ pit.slot \in 1 .. Slots
  /\ packed.running \in BOOLEAN /\ packed.recorded \in BOOLEAN
  /\ packed.running => packed.recorded
  /\ disk \in [Targets -> [Names -> {"none", "user", "partial", "whole"}]]

NoJob == [target |-> "none", listed |-> FALSE, todo |-> {}, open |-> {}]

Init ==
  /\ record = [d \in Targets |-> NoRecord]
  /\ running = {} /\ job = [i \in Ids |-> NoJob] /\ runs = 0 /\ restored = {}
  /\ pit = NoPit /\ packed = [running |-> FALSE, recorded |-> FALSE]
  /\ disk \in [Targets -> [Names -> {"none", "user"}]]
  /\ \A d \in Targets, n \in Names : n # Own(1) => disk[d][n] = "none"

-----------------------------------------------------------------------------
(* Folder restores. *)

\* A target has one record, found by its id or by the target.
UpsertActiveRestore(d, id, s) == record' = [record EXCEPT ![d] = [id |-> id, status |-> s]]

RunRestoreJob(d, id) ==
  /\ id \notin running /\ runs < MaxRuns
  /\ UpsertActiveRestore(d, id, "restoring")
  /\ running' = running \cup {id}
  /\ job' = [job EXCEPT ![id] = [NoJob EXCEPT !.target = d]]
  /\ runs' = runs + 1
  /\ restored' = restored \ {d}
  /\ UNCHANGED <<pit, packed, disk>>

StartRestore(d) ==
  /\ \E id \in Ids : job[id].target = "none"
  /\ RunRestoreJob(d, Min({id \in Ids : job[id].target = "none"}))

\* From a record or from an activity row whose record is gone.
ResumeRestore(d) ==
  \/ record[d].id # 0 /\ RunRestoreJob(d, record[d].id)
  \/ /\ record[d].id = 0
     /\ \E id \in Ids : job[id].target = d /\ RunRestoreJob(d, id)

\* Mutant: a file that is there is taken for done when it is whole only.
MissingOrForeign(d) == {f \in FileIds : disk[d][Own(f)] # "whole"}

\* --ignore-existing: what is there is not looked at any further.
Missing(d) == {f \in FileIds : disk[d][Own(f)] = "none"}

\* rclone lists the destination.
ListDestination(id) ==
  /\ id \in running /\ ~job[id].listed
  /\ job' = [job EXCEPT ![id].listed = TRUE, ![id].todo = Missing(job[id].target)]
  /\ UNCHANGED <<record, running, runs, restored, pit, packed, disk>>

\* --inplace: the file is written under its own name.
OpenFile(id, f) ==
  /\ id \in running /\ f \in job[id].todo \ job[id].open
  /\ job' = [job EXCEPT ![id].open = @ \cup {f}]
  /\ disk' = [disk EXCEPT ![job[id].target][Own(f)] = "partial"]
  /\ UNCHANGED <<record, running, runs, restored, pit, packed>>

FileArrives(id, f) ==
  /\ id \in running /\ f \in job[id].open
  /\ job' = [job EXCEPT ![id].open = @ \ {f}, ![id].todo = @ \ {f}]
  /\ disk' = [disk EXCEPT ![job[id].target][Own(f)] = "whole"]
  /\ UNCHANGED <<record, running, runs, restored, pit, packed>>

CheckpointRestoreProgress(id) ==
  /\ id \in running
  /\ UpsertActiveRestore(job[id].target, id, "restoring")
  /\ UNCHANGED <<running, job, runs, restored, pit, packed, disk>>

\* rclone ends well: the record is written once more, which gives it this id,
\* and removed by the id.
RestoreComplete(id) ==
  /\ id \in running /\ job[id].listed /\ job[id].todo = {}
  /\ record' = [record EXCEPT ![job[id].target] = NoRecord]
  /\ running' = running \ {id}
  /\ restored' = restored \cup {job[id].target}
  /\ UNCHANGED <<job, runs, pit, packed, disk>>

\* Mutant: a restore that failed is no longer active.
FailedIsRemoved(d, id) == record' = [record EXCEPT ![d] = NoRecord]

FailedIsKept(d, id) == UpsertActiveRestore(d, id, "failed")

\* rclone fails; it removes what it was writing if it still can.
RestoreFails(id) ==
  /\ id \in running
  /\ FailedIsKept(job[id].target, id)
  /\ running' = running \ {id}
  /\ job' = [job EXCEPT ![id].todo = {}, ![id].open = {}]
  /\ disk' \in {disk, [disk EXCEPT ![job[id].target] =
                        [n \in Names |-> IF \E f \in job[id].open : n = Own(f) THEN "none" ELSE @[n]]]}
  /\ UNCHANGED <<runs, restored, pit, packed>>

-----------------------------------------------------------------------------
(* Point-in-time restores and packed files. *)

\* getNonOverwritingPath: the first name nothing has.
FreeSlot(d, f) ==
  LET free == {s \in 1 .. Slots : disk[d][<<f, s>>] = "none"} IN IF free = {} THEN {} ELSE {Min(free)}

StartPointInTime ==
  /\ pit.phase = "none"
  /\ \E d \in Targets : pit' = [NoPit EXCEPT !.phase = "choose"] @@ [target |-> d]
  /\ UNCHANGED <<jobVars, packed, disk>>

\* The name is settled before the copy is asked for.
ChoosePath ==
  /\ pit.phase = "choose"
  /\ \E s \in FreeSlot(pit.target, pit.file) : pit' = [pit EXCEPT !.phase = "copy", !.slot = s]
  /\ UNCHANGED <<jobVars, packed, disk>>

NextPit == IF pit.file = FileCount THEN NoPit ELSE [pit EXCEPT !.phase = "choose", !.file = @ + 1]

\* copyto writes to another name and renames it; a name that got taken while
\* rclone started is left alone, and the file is counted all the same.
CopyRemoteToLocal ==
  /\ pit.phase = "copy"
  /\ pit' = NextPit
  /\ disk' = IF disk[pit.target][<<pit.file, pit.slot>>] = "none"
             THEN [disk EXCEPT ![pit.target][<<pit.file, pit.slot>>] = "whole"] ELSE disk
  /\ UNCHANGED <<jobVars, packed>>

PointInTimeFails ==
  /\ pit.phase = "copy"
  /\ pit' = NoPit
  /\ UNCHANGED <<jobVars, packed, disk>>

StartPacked ==
  /\ ~packed.running
  /\ packed' = [running |-> TRUE, recorded |-> TRUE]
  /\ UNCHANGED <<jobVars, pit, disk>>

\* The pack has come and its member is written to a free name, or it failed;
\* the record goes in both cases.  A failed write is only logged.
PackedEnds ==
  /\ packed.running
  /\ packed' = [running |-> FALSE, recorded |-> FALSE]
  /\ \/ UNCHANGED disk
     \/ \E d \in Targets, f \in FileIds : \E s \in FreeSlot(d, f) :
          disk' = [disk EXCEPT ![d][<<f, s>>] = "whole"]
  /\ UNCHANGED <<jobVars, pit>>

\* The program ends and starts again: rclone is gone with it.
Restart ==
  /\ Restarts /\ (running # {} \/ pit.phase # "none" \/ packed.running)
  /\ running' = {}
  /\ job' = [i \in Ids |-> [job[i] EXCEPT !.todo = {}, !.open = {}]]
  /\ pit' = NoPit
  /\ packed' = [packed EXCEPT !.running = FALSE]
  /\ UNCHANGED <<record, runs, restored, disk>>

Next ==
  \/ \E d \in Targets : StartRestore(d) \/ ResumeRestore(d)
  \/ \E id \in Ids :
       \/ ListDestination(id) \/ CheckpointRestoreProgress(id)
       \/ RestoreComplete(id) \/ RestoreFails(id)
       \/ \E f \in FileIds : OpenFile(id, f) \/ FileArrives(id, f)
  \/ StartPointInTime \/ ChoosePath \/ CopyRemoteToLocal \/ PointInTimeFails
  \/ StartPacked \/ PackedEnds
  \/ Restart

Spec == Init /\ [][Next]_vars

-----------------------------------------------------------------------------

\* A restore that was started and has not been reported complete is offered
\* again, as running, interrupted or failed: through restarts, failures and
\* overlapping runs of one target.
OfferedUntilRestored ==
  \A i \in Ids : job[i].target \in Targets \ restored => record[job[i].target].id # 0

\* No restore touches a file that the user had at its target.
ExistingKept ==
  [][\A d \in Targets, n \in Names : disk[d][n] = "user" => disk'[d][n] = "user"]_vars

\* A folder restore that is reported complete has every file: what an earlier,
\* interrupted run had begun is fetched again.
RestoredIsWhole ==
  \A d \in restored : \A f \in FileIds : disk[d][Own(f)] \in {"user", "whole"}
=============================================================================
