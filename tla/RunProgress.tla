----------------------------- MODULE RunProgress -----------------------------
(***************************************************************************)
(* The accounts of a backup run: which items a folder's plan holds, what   *)
(* became of each of them on the way through batches, halves and single    *)
(* files, and the progress that is shown meanwhile                         *)
(* (main/backupWorker.js, main/rclone.js).  Every item has a size of one   *)
(* byte.  Where the copies go is the matter of VersionedBackup and         *)
(* PackedFiles.                                                            *)
(***************************************************************************)
EXTENDS Naturals, Sequences, FiniteSets

CONSTANTS Folders,          \* bound: folders of a run
          Planned,          \* bound: items of a folder
          WorkKinds,        \* kinds of work that a plan may hold
          RunFaults         \* what goes wrong: "plan" the plan of a folder, "scan" one file
                            \* of it, "command" a run of rclone, "file" a single file,
                            \* "gone" files disappear, "back" and come back at once,
                            \* "mark" the watcher sees a change, "verify" the
                            \* verification, "stop"

RunAssumption ==
  /\ Folders \in Nat \ {0} /\ Planned \in Nat \ {0}
  /\ WorkKinds \subseteq {"repair", "pack", "migrate", "new", "modify", "forget", "delete"}
  /\ RunFaults \subseteq {"plan", "scan", "command", "file", "gone", "back", "mark", "verify", "stop"}

VARIABLES
  phase,            \* "idle", "planning", "working", "stopped" or "complete"
  folder,           \* number of the folder at work
  todo,             \* what runFolderBackup has left: sequence of [how, items]
  sent,             \* files the present run of rclone reports as sent; Silent before it
  counters,         \* counters of the folder: [files, bytes]
  outcome,          \* what became of each item of each folder: its last fileActivity;
                    \* "marked" when it failed and was marked dirty since, "dropped"
                    \* when it left the work without an activity
  scanErrors,       \* folders with a file that cannot be read
  ended,            \* how each folder ended
  stats,            \* currentRunStats
  shown             \* the overall progress last emitted

progressVars == <<phase, folder, todo, sent, counters, outcome, scanErrors, ended, stats, shown>>

Items    == 1 .. Planned
Silent   == Planned + 1
Commands == {"send", "copy", "migrate", "stage", "history", "promote", "delete"}
Singles  == {"repair", "single", "promoteEach", "reconcile", "deleteEach"}
Task(how, items) == [how |-> how, items |-> items]
Left(how, items) == IF items = {} THEN <<>> ELSE <<Task(how, items)>>
Settled  == {"completed", "skipped"}
Failed   == {"failed", "marked"}
Unstored == Failed \cup {"dropped"}
Ends     == {"complete", "unchanged", "preserved", "disabled", "partial", "planning", "missing",
             "verification"}

TypeOK ==
  /\ phase \in {"idle", "planning", "working", "stopped", "complete"}
  /\ folder \in 1 .. Folders + 1
  /\ todo \in Seq([how : Commands \cup Singles \cup {"bundle", "forget"}, items : SUBSET Items])
  /\ sent \in 0 .. Silent
  /\ counters.files \in Nat /\ counters.bytes \in 0 .. counters.files
  /\ outcome \in [(1 .. Folders) \X Items -> {"none", "queued", "completed", "skipped"} \cup Unstored]
  /\ scanErrors \subseteq 1 .. Folders
  /\ ended \in [1 .. Folders -> Ends \cup {"none"}]
  /\ DOMAIN stats = {"files", "bytes", "filesDone", "bytesDone", "synced", "failed"}
  /\ DOMAIN shown = {"files", "bytes", "filesDone", "bytesDone"}

Nothing == [files |-> 0, bytes |-> 0]
Init ==
  /\ phase = "idle" /\ folder = 1 /\ todo = <<>> /\ sent = Silent /\ counters = Nothing
  /\ outcome = [i \in (1 .. Folders) \X Items |-> "none"] /\ scanErrors = {}
  /\ ended = [f \in 1 .. Folders |-> "none"]
  /\ stats = [files |-> 0, bytes |-> 0, filesDone |-> 0, bytesDone |-> 0, synced |-> 0, failed |-> 0]
  /\ shown = [files |-> 0, bytes |-> 0, filesDone |-> 0, bytesDone |-> 0]

-----------------------------------------------------------------------------
(* Emissions.  The overall progress adds what the folder reports to what   *)
(* the folders before it left (emitOverallProgress).                       *)

Emitted(run, reported) ==
  shown' = [files |-> run.files, bytes |-> run.bytes,
            filesDone |-> run.filesDone + reported.files,
            bytesDone |-> run.bytesDone + reported.bytes]

\* emitBatchProgress: the command's own progress on top of the counters.
BatchProgress(n) ==
  Emitted(stats, [files |-> counters.files + n, bytes |-> counters.bytes + n])

-----------------------------------------------------------------------------
(* A run and the plan of a folder. *)

StartRun ==
  /\ phase = "idle" /\ phase' = "planning" /\ Emitted(stats, Nothing)
  /\ UNCHANGED <<folder, todo, sent, counters, outcome, scanErrors, ended, stats>>

\* A folder is over: what its plan held counts as done from here on.
FolderEnds(how, run, reported) ==
  /\ ended' = [ended EXCEPT ![folder] = how] /\ Emitted(run, reported)
  /\ stats' = [run EXCEPT !.filesDone = run.files, !.bytesDone = run.bytes]
  /\ folder' = folder + 1 /\ phase' = "planning" /\ todo' = <<>> /\ sent' = Silent
  /\ counters' = Nothing

\* verifyFolderBeforeProtected
Verified(how, run, reported) ==
  \/ FolderEnds(how, run, reported)
  \/ /\ "verify" \in RunFaults
     /\ FolderEnds("verification", [run EXCEPT !.failed = @ + 1], Nothing)

NoPlan ==
  /\ phase = "planning" /\ folder <= Folders /\ "plan" \in RunFaults
  /\ \E how \in {"planning", "missing"} :
       FolderEnds(how, [stats EXCEPT !.failed = @ + 1], Nothing)
  /\ UNCHANGED <<outcome, scanErrors>>

EmptyPlan ==
  /\ phase = "planning" /\ folder <= Folders
  /\ Verified("unchanged", stats, Nothing) \/ FolderEnds("disabled", stats, Nothing)
  /\ UNCHANGED <<outcome, scanErrors>>

\* groupPlanWorkItems and partitionUploadItemsAsync: one file alone is not bundled.
Group(kind, how, k) == Left(how, {i \in DOMAIN kind : kind[i] = k})
Partitioned(kind) ==
  IF Cardinality({i \in DOMAIN kind : kind[i] = "pack"}) = 1
  THEN [i \in DOMAIN kind |-> IF kind[i] = "pack" THEN "new" ELSE kind[i]] ELSE kind
Ordered(kind) ==
  LET k == Partitioned(kind) IN
    Group(k, "repair", "repair") \o Group(k, "bundle", "pack") \o Group(k, "migrate", "migrate")
      \o Group(k, "copy", "new") \o Group(k, "stage", "modify")
      \o Group(k, "forget", "forget") \o Group(k, "delete", "delete")

\* planFolderAsync's items; every one is announced as queued.
PlanFolder ==
  /\ phase = "planning" /\ folder <= Folders
  /\ \E items \in SUBSET Items : \E kind \in [items -> WorkKinds] : \E broken \in BOOLEAN :
       /\ broken => "scan" \in RunFaults
       /\ items # {} \/ broken
       /\ todo' = Ordered(kind)
       /\ outcome' = [i \in DOMAIN outcome |->
                       IF i[1] = folder /\ i[2] \in items THEN "queued" ELSE outcome[i]]
       /\ stats' = [stats EXCEPT !.files = @ + Cardinality(items), !.bytes = @ + Cardinality(items)]
       /\ scanErrors' = IF broken THEN scanErrors \cup {folder} ELSE scanErrors
  /\ phase' = "working"
  /\ UNCHANGED <<folder, sent, counters, ended, shown>>

-----------------------------------------------------------------------------
(* The work.  The head of todo is at work; what it turns into goes first.  *)

Working(how) == phase = "working" /\ todo # <<>> /\ Head(todo).how = how
AtWork       == Head(todo).items
Becomes(tasks) == todo' = tasks \o Tail(todo)

\* completeItem, failItem and handleDisappearedLocalItem for sets of items.
Settle(done, failed, skipped) ==
  /\ outcome' = [i \in DOMAIN outcome |->
       IF i[1] # folder THEN outcome[i] ELSE
       CASE i[2] \in done -> "completed" [] i[2] \in failed -> "failed"
         [] i[2] \in skipped -> "skipped" [] OTHER -> outcome[i]]
  /\ counters' = [files |-> counters.files + Cardinality(done) + Cardinality(skipped),
                  bytes |-> counters.bytes + Cardinality(done)]
  /\ stats' = [stats EXCEPT !.synced = @ + Cardinality(done), !.failed = @ + Cardinality(failed)]

Idle == UNCHANGED <<counters, outcome, stats>>
Same == UNCHANGED <<phase, folder, scanErrors, ended>>

\* withTransferStats: a first report without files, one for each file, and the last one
\* again every five seconds.
BeginCommand ==
  /\ phase = "working" /\ todo # <<>> /\ Head(todo).how \in Commands /\ sent = Silent
  /\ sent' = 0 /\ BatchProgress(0)
  /\ UNCHANGED todo /\ Idle /\ Same

Progress ==
  /\ phase = "working" /\ sent < Silent /\ sent < Cardinality(AtWork)
  /\ sent' = sent + 1 /\ BatchProgress(sent')
  /\ UNCHANGED todo /\ Idle /\ Same

\* A run of rclone that ends well.  Of a bundle the files whose former copy cannot be
\* moved to the history fail.
CommandSucceeds ==
  /\ phase = "working" /\ sent < Silent /\ sent' = Silent
  /\ LET how == Head(todo).how IN
       \/ /\ how = "stage" /\ Becomes(<<Task("history", AtWork)>>) /\ Idle
       \/ /\ how = "history" /\ Becomes(<<Task("promote", AtWork)>>) /\ Idle
       \/ /\ how = "send" /\ Becomes(<<>>)
          /\ \E failed \in SUBSET AtWork :
               /\ failed # {} => "file" \in RunFaults
               /\ Settle(AtWork \ failed, failed, {})
       \/ /\ how \in {"copy", "migrate", "promote", "delete"} /\ Becomes(<<>>)
          /\ Settle(AtWork, {}, {})
  /\ UNCHANGED shown /\ Same

\* Mutant: the files of the second half are not sent.
FirstHalfOnly(how, items, first) ==
  <<Task(IF how = "copy" /\ Cardinality(items) > 1 THEN "copy" ELSE "single", first)>>

\* What is tried after a run of rclone failed: a batch of new files is divided.
AfterFailure(how, items, first) ==
  IF how = "copy" /\ Cardinality(items) > 1
  THEN <<Task("copy", first), Task("copy", items \ first)>>
  ELSE CASE how = "history" -> <<Task("promoteEach", items)>>
         [] how = "promote" -> <<Task("reconcile", items)>>
         [] how = "delete"  -> <<Task("deleteEach", items)>>
         [] OTHER           -> <<Task("single", items)>>

Halves(items) == {h \in SUBSET items : Cardinality(h) = (Cardinality(items) + 1) \div 2}

CommandFails ==
  /\ phase = "working" /\ sent < Silent /\ "command" \in RunFaults /\ sent' = Silent
  /\ \E first \in Halves(AtWork) : Becomes(AfterFailure(Head(todo).how, AtWork, first))
  /\ UNCHANGED shown /\ Idle /\ Same

\* handleDisappearedLocalItem for a file that is not there: skipped, or its copy is moved
\* to the history.
Disappear(gone) ==
  \E skipped \in SUBSET gone : \E failed \in SUBSET (gone \ skipped) :
    /\ failed # {} => "file" \in RunFaults
    /\ Settle(gone \ (skipped \cup failed), failed, skipped)

\* The same for a file that was missing and is there again, or cannot be looked at: it
\* returns false, and uploadPackedFiles, which has left the file out, does not ask.
Drop(back) ==
  /\ outcome' = [i \in DOMAIN outcome |->
                   IF i[1] = folder /\ i[2] \in back THEN "dropped" ELSE outcome[i]]
  /\ UNCHANGED <<counters, stats>>

\* uploadPackedFiles up to the upload: files that are missing when the bundle is made are
\* left out, any other failure sends the files one by one.
CreatePack ==
  /\ Working("bundle")
  /\ \/ Becomes(<<Task("send", AtWork)>>) /\ Idle /\ BatchProgress(0)
     \/ /\ "gone" \in RunFaults
        /\ \E gone \in SUBSET AtWork \ {{}} :
             Becomes(Left("bundle", AtWork \ gone))
               /\ (Disappear(gone) \/ ("back" \in RunFaults /\ Drop(gone)))
        /\ UNCHANGED shown
     \/ /\ "file" \in RunFaults /\ Becomes(<<Task("single", AtWork)>>) /\ Idle /\ UNCHANGED shown
  /\ UNCHANGED sent /\ Same

\* One file: repairActiveCopies, uploadSingleItem, promoteStagedItem, deleteSingleItem, or
\* reconcilePromotedItem.  Only repairs show progress.
SingleItem ==
  /\ phase = "working" /\ todo # <<>> /\ Head(todo).how \in Singles
  /\ LET how == Head(todo).how  i == CHOOSE j \in AtWork : \A k \in AtWork : j <= k IN
       /\ Becomes(Left(how, AtWork \ {i}))
       /\ \/ Settle({i}, {}, {})
          \/ "file" \in RunFaults /\ Settle({}, {i}, {})
          \/ how = "single" /\ "gone" \in RunFaults /\ Settle({}, {}, {i})
       /\ IF how = "repair" THEN BatchProgress(0) ELSE UNCHANGED shown
  /\ UNCHANGED sent /\ Same

\* Packed files that were deleted only change their record.
ForgetPacked ==
  /\ Working("forget") /\ Becomes(<<>>) /\ Settle(AtWork, {}, {})
  /\ UNCHANGED <<sent, shown>> /\ Same

-----------------------------------------------------------------------------
(* The end of a folder and of a run. *)

OfFolder(f, kinds) == {i \in Items : outcome[<<f, i>>] \in kinds}

\* markManifestDirty while the folder is at work takes the place of a failed status.
MarkFailed ==
  /\ phase = "working" /\ "mark" \in RunFaults
  /\ \E i \in OfFolder(folder, {"failed"}) : outcome' = [outcome EXCEPT ![<<folder, i>>] = "marked"]
  /\ UNCHANGED <<phase, folder, todo, sent, counters, scanErrors, ended, stats, shown>>

\* The entries of the processed items decide, as they are now; scan errors count too.
FinishFolder ==
  /\ phase = "working" /\ todo = <<>>
  /\ LET failures == OfFolder(folder, {"failed"})
         errors   == IF folder \in scanErrors THEN 1 ELSE 0
         run      == [stats EXCEPT !.failed = @ + errors] IN
       IF failures # {} \/ errors > 0 THEN FolderEnds("partial", run, counters)
       ELSE Verified("complete", run, counters) \/ FolderEnds("preserved", run, counters)
  /\ UNCHANGED <<outcome, scanErrors>>

FinishRun ==
  /\ phase = "planning" /\ folder = Folders + 1 /\ phase' = "complete"
  /\ UNCHANGED <<folder, todo, sent, counters, outcome, scanErrors, ended, stats, shown>>

\* A pause, or an error that concerns the whole batch: currentRunStats is forgotten.
Stop ==
  /\ phase \in {"planning", "working"} /\ "stop" \in RunFaults /\ phase' = "stopped"
  /\ todo' = <<>> /\ sent' = Silent
  /\ UNCHANGED <<folder, counters, outcome, scanErrors, ended, stats, shown>>

Next ==
  \/ StartRun \/ NoPlan \/ EmptyPlan \/ PlanFolder \/ BeginCommand \/ Progress
  \/ CommandSucceeds \/ CommandFails \/ CreatePack \/ SingleItem \/ ForgetPacked
  \/ MarkFailed \/ FinishFolder \/ FinishRun \/ Stop

-----------------------------------------------------------------------------
(* Properties *)

OfRun(kinds)  == {i \in DOMAIN outcome : outcome[i] \in kinds}
Number(kinds) == Cardinality(OfRun(kinds))
BadEnds       == Cardinality({f \in 1 .. Folders : ended[f] \in {"planning", "missing", "verification"}})
ScansCounted  == Cardinality({f \in scanErrors : ended[f] # "none"})

\* Each item is counted once, however often its batch was divided, sent again or handed
\* to the single files: the run's files are those that were stored, its failures those
\* that failed and the folders that did, and the folder's counter has no other.
CountedOnce ==
  /\ stats.synced = Number({"completed"})
  /\ stats.failed = Number(Failed) + ScansCounted + BadEnds
  /\ phase = "working" => counters.files = Cardinality(OfFolder(folder, Settled))

\* No item is left behind: when a folder is over each item of its plan was stored,
\* skipped or reported as failed, except a file that was dropped, which only the next
\* full scan finds; and the folder counts as protected only if it has no scan error and
\* each item that failed was marked dirty since, for the next pass to take up.
AllAccountedFor ==
  \A f \in 1 .. Folders : ended[f] # "none" =>
    /\ OfFolder(f, {"queued"}) = {}
    /\ ended[f] \in {"complete", "unchanged"} =>
         /\ f \notin scanErrors
         /\ \A i \in Items : outcome[<<f, i>>] \in {"none", "marked", "dropped"} \cup Settled

\* The bar never shows more than there is to do, and a run without failures that dropped
\* nothing ends with all of it done.
ProgressFits ==
  /\ shown.filesDone <= shown.files /\ shown.bytesDone <= shown.bytes
  /\ phase = "complete" /\ stats.failed = 0 /\ OfRun({"dropped"}) = {} => shown.filesDone = stats.files

RunIsAccounted == CountedOnce /\ AllAccountedFor /\ ProgressFits
=============================================================================
