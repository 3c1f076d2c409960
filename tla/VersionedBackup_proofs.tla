----------------------- MODULE VersionedBackup_proofs -----------------------
(***************************************************************************)
(* Proofs about VersionedBackup, for any number of contents and runs, any  *)
(* kinds of pass and any faults: the types, and that no schedule of user,  *)
(* watcher, passes, errors, pauses and crashes loses the newest backup,    *)
(* changes a preserved version or promotes over a live copy.  With quick   *)
(* passes only and no files that fail, nothing that was overwritten is     *)
(* lost, and what a full pass would find is marked already.                *)
(***************************************************************************)
EXTENDS VersionedBackup, TLAPS

-----------------------------------------------------------------------------
(* Types.                                                                  *)

EntryType == [status : Statuses, remote : BOOLEAN, missing : BOOLEAN, sig : Contents,
              versions : SUBSET Runs, stagingRun : Runs, historyRun : Runs]
PlanType  == [repair : BOOLEAN, upload : {"no", "new", "modified"},
              delete : BOOLEAN, sig : Contents]
CallType  == [op : Calls \cup {"idle", "next"}, run : Runs, done : BOOLEAN, skipped : BOOLEAN]

\* Whatever the manifest writes into an entry (backupManifest.js, database.js)
\* is an entry again.
LEMMA EntryUpdates ==
  ASSUME NEW e \in EntryType, NEW r \in Runs, NEW c \in Contents
  PROVE  /\ NoEntry \in EntryType
         /\ BackedUp(e, c) \in EntryType /\ WithVersion(e, r) \in EntryType
         /\ BackedUp(WithVersion(e, r), c) \in EntryType
         /\ Deleted(e, r) \in EntryType /\ Deleted(e, 0) \in EntryType
         /\ Failed(e) \in EntryType
         /\ RepairNeeded(e, r, c) \in EntryType
         /\ RemoteMissing(e) \in EntryType
         /\ MarkedDirty(e) \in EntryType /\ MarkedDeleted(e) \in EntryType
         /\ [e EXCEPT !.status = "active_repair_needed"] \in EntryType
<1>1. NoEntry \in EntryType
  BY BoundsAssumption DEF NoEntry, EntryType, Statuses, Runs, Contents, None
<1>2. WithVersion(e, r) \in EntryType /\ BackedUp(e, c) \in EntryType
  <2>1. e.versions \cup {r} \in SUBSET Runs
    BY DEF EntryType
  <2>2. WithVersion(e, r) \in EntryType
    BY <2>1 DEF EntryType, WithVersion
  <2>3. 0 \in Runs
    BY BoundsAssumption DEF Runs
  <2>4. BackedUp(e, c) \in EntryType
    BY <2>3 DEF EntryType, Statuses, BackedUp
  <2>5. QED BY <2>2, <2>4
<1>3. BackedUp(WithVersion(e, r), c) \in EntryType
  <2>1. 0 \in Runs
    BY BoundsAssumption DEF Runs
  <2>2. QED BY <1>2, <2>1 DEF EntryType, Statuses, BackedUp
<1>4. Deleted(e, r) \in EntryType /\ Deleted(e, 0) \in EntryType
  BY <1>2 DEF EntryType, Statuses, Deleted
<1>5. RepairNeeded(e, r, c) \in EntryType
  BY <1>2 DEF EntryType, Statuses, RepairNeeded
<1>6. Failed(e) \in EntryType /\ RemoteMissing(e) \in EntryType /\ MarkedDirty(e) \in EntryType
  BY DEF EntryType, Statuses, Failed, RemoteMissing, MarkedDirty
<1>7. MarkedDeleted(e) \in EntryType /\ [e EXCEPT !.status = "active_repair_needed"] \in EntryType
  BY DEF EntryType, Statuses, MarkedDeleted
<1>8. QED BY <1>1, <1>2, <1>3, <1>4, <1>5, <1>6, <1>7

\* A call that the worker starts is a call.
LEMMA StartedCall ==
  ASSUME NEW op \in Calls, NEW r \in Runs, Start(op, r)
  PROVE  /\ call' \in CallType
         /\ call'.op = op /\ call'.run = r /\ call'.done = FALSE
BY DEF Start, CallType, Idle

\* A fresh run id is one more than the last one.
LEMMA StartedFresh ==
  ASSUME NEW op \in Calls, lastRun \in Runs, StartFresh(op)
  PROVE  /\ lastRun' \in Runs /\ lastRun' = lastRun + 1
         /\ call' \in CallType
         /\ call'.op = op /\ call'.run = lastRun' /\ call'.done = FALSE
<1>1. lastRun + 1 \in Runs /\ lastRun' = lastRun + 1
  BY BoundsAssumption DEF StartFresh, Runs
<1>2. Start(op, lastRun + 1)
  BY DEF StartFresh
<1>3. QED BY <1>1, <1>2, StartedCall

\* A database without an entry of the file, and an idle worker, have the types.
LEMMA TypeInit == Init => TypeOK
<1>1. NoEntry \in EntryType /\ 0 \in Runs /\ 0 \in Contents
  BY BoundsAssumption DEF NoEntry, EntryType, Statuses, Runs, Contents, None
<1>2. SUFFICES ASSUME Init PROVE TypeOK
  OBVIOUS
<1>3. QED BY <1>1, <1>2 DEF Init, TypeOK, EntryType, NoPlan, Idle, None

\* The parts of TypeOK an action changes, under names the provers keep short.
Typed ==
  /\ local \in Contents /\ newest \in Contents /\ notified \in BOOLEAN
  /\ active \in Contents
  /\ staging \in [Runs -> Contents] /\ history \in [Runs -> Contents]
  /\ entry \in EntryType /\ plan \in PlanType /\ call \in CallType
  /\ lastRun \in Runs /\ kept \in SUBSET Contents

\* Typed is TypeOK in other words.
LEMMA TypedIsTypeOK == Typed <=> TypeOK
BY DEF TypeOK, Typed, EntryType, PlanType, CallType

\* Every step of user, watcher, planner and worker keeps the types.
LEMMA TypedStep == Typed /\ [Next]_vars => Typed'
<1> SUFFICES ASSUME Typed, [Next]_vars PROVE Typed'
  OBVIOUS
<1> USE DEF Typed
<1>c. 0 \in Contents /\ 0 \in Runs
  BY BoundsAssumption DEF Contents, Runs
<1>e. plan.sig \in Contents /\ call.run \in Runs /\ entry.stagingRun \in Runs
  BY DEF PlanType, CallType, EntryType
<1>b. Between \in CallType /\ Idle \in CallType /\ NoPlan \in PlanType
  BY <1>c DEF Between, Idle, CallType, NoPlan, PlanType, None
<1>1. CASE Write
  <2>1. newest + 1 \in Contents
    BY <1>1, BoundsAssumption DEF Write, Contents
  <2>2. notified' \in BOOLEAN
    BY <1>1 DEF Write
  <2>3. QED BY <1>1, <2>1, <2>2 DEF Write, remote, worker
<1>2. CASE Remove
  <2>1. notified' \in BOOLEAN
    BY <1>2 DEF Remove
  <2>2. QED BY <1>2, <1>c, <2>1 DEF Remove, remote, worker, None
<1>3. CASE Notify
  <2>1. entry' \in EntryType
    BY <1>3, <1>c, EntryUpdates DEF Notify
  <2>2. QED BY <1>3, <2>1 DEF Notify, remote, worker
<1>4. CASE PlanDirty
  <2>1. entry' \in EntryType
    BY <1>4, <1>c, EntryUpdates DEF PlanDirty
  <2>2. \A e \in EntryType, u \in {"no", "new", "modified"}, d \in BOOLEAN :
          Planned(e, u, d) \in PlanType
    BY DEF Planned, PlanType, EntryType
  <2>3. plan' \in PlanType
    BY <1>4, <2>2 DEF PlanDirty
  <2>4. QED BY <1>4, <1>b, <2>1, <2>3 DEF PlanDirty, remote
<1>5. CASE PlanFull
  <2>1. PICK checked \in {entry, MarkMissingActiveCopy(entry)} :
          entry' = checked /\ plan' = Planned(checked, UploadIfNeeded(checked), FALSE)
    BY <1>5 DEF PlanFull
  <2>2. entry' \in EntryType
    BY <2>1, <1>c, EntryUpdates DEF MarkMissingActiveCopy
  <2>3. \A e \in EntryType, u \in {"no", "new", "modified"}, d \in BOOLEAN :
          Planned(e, u, d) \in PlanType
    BY DEF Planned, PlanType, EntryType
  <2>4. plan' \in PlanType
    BY <2>1, <2>2, <2>3 DEF UploadIfNeeded
  <2>5. QED BY <1>5, <1>b, <2>2, <2>4 DEF PlanFull, remote
<1>6. CASE StartRepair
  <2>1. plan' \in PlanType
    BY <1>6 DEF StartRepair, PlanType
  <2>2. call' \in CallType
    BY <1>6, <1>e, StartedCall DEF StartRepair, Calls
  <2>3. QED BY <1>6, <2>1, <2>2 DEF StartRepair, remote
<1>7. CASE StartUpload
  <2>1. plan' \in PlanType
    BY <1>7 DEF StartUpload, PlanType
  <2>2. call' \in CallType /\ lastRun' \in Runs
    BY <1>7, <1>c, StartedCall, StartedFresh DEF StartUpload, Calls
  <2>3. QED BY <1>7, <2>1, <2>2 DEF StartUpload, remote
<1>8. CASE StartDelete
  <2>1. plan' \in PlanType
    BY <1>8 DEF StartDelete, PlanType
  <2>2. call' \in CallType /\ lastRun' \in Runs
    BY <1>8, StartedFresh DEF StartDelete, Calls
  <2>3. QED BY <1>8, <2>1, <2>2 DEF StartDelete, remote
<1>9. CASE Finish
  BY <1>9, <1>b DEF Finish, remote
<1>10. CASE Effect
  <2>1. active' \in Contents /\ staging' \in [Runs -> Contents] /\ history' \in [Runs -> Contents]
    <3>1. CASE Upload(call.run)
      BY <1>e, <3>1 DEF Upload, remote
    <3>2. CASE ToHistory(call.run)
      BY <1>e, <1>c, <3>2 DEF ToHistory, None
    <3>3. CASE Promote(call.run)
      BY <1>e, <1>c, <3>3 DEF Promote, None
    <3>4. CASE UNCHANGED remote
      BY <3>4 DEF remote
    <3>5. QED BY <1>10, <3>1, <3>2, <3>3, <3>4 DEF Effect
  <2>2. call' \in CallType
    BY <1>10 DEF Effect, CallType
  <2>3. QED BY <1>10, <2>1, <2>2 DEF Effect
<1>11. CASE ReturnOk
  <2>1. RecordBackedUp(entry) \/ RecordBackedUp(WithVersion(entry, call.run)) =>
             entry' \in EntryType /\ kept' \in SUBSET Contents /\ call' \in CallType
    BY <1>e, <1>b, EntryUpdates DEF RecordBackedUp
  <2>2. Start("historyBatch", call.run) \/ Start("historyOne", call.run)
        \/ Start("promoteBatch", call.run) \/ Start("promoteOne", call.run) => call' \in CallType
    BY <1>e, StartedCall DEF Calls
  <2>3. entry' \in EntryType /\ kept' \in SUBSET Contents /\ call' \in CallType
    BY <1>11, <1>e, <1>c, <1>b, <2>1, <2>2, EntryUpdates DEF ReturnOk
  <2>4. QED BY <1>11, <2>3 DEF ReturnOk, remote
<1>12. CASE ReturnError
  <2>1. \A e \in EntryType : GiveUp(e) => entry' \in EntryType /\ call' \in CallType /\ lastRun' \in Runs
    BY <1>b DEF GiveUp
  <2>2. StartFresh("stageOne") \/ StartFresh("deleteOne") => call' \in CallType /\ lastRun' \in Runs
    BY StartedFresh DEF Calls, Uploads
  <2>3. Start("syncNew", 0) \/ Start("historyOne", call.run) \/ Start("reconcile", call.run)
        \/ Start("repairReconcile", call.run) => call' \in CallType
    BY <1>e, <1>c, StartedCall DEF Calls, Uploads
  <2>4. Disappeared => entry' \in EntryType /\ call' \in CallType /\ lastRun' \in Runs
    BY <2>1, <2>2, <1>c, EntryUpdates DEF Disappeared
  <2>5. entry' \in EntryType /\ call' \in CallType /\ lastRun' \in Runs
    BY <1>12, <1>e, <2>1, <2>2, <2>3, <2>4, EntryUpdates DEF ReturnError
  <2>6. QED BY <1>12, <2>5 DEF ReturnError, remote
<1>13. CASE AbortRun
  BY <1>13, <1>b DEF AbortRun, remote
<1>14. CASE Stop
  BY <1>14, <1>b DEF Stop, remote
<1>15. CASE UNCHANGED vars
  BY <1>15 DEF vars, remote, worker
<1>16. QED
  BY <1>1, <1>2, <1>3, <1>4, <1>5, <1>6, <1>7, <1>8, <1>9, <1>10, <1>11, <1>12, <1>13, <1>14,
     <1>15 DEF Next

\* Every variable keeps its type, for any bounds and any choice of passes and
\* faults.
THEOREM TypeCorrect == Spec => []TypeOK
<1>1. Init => Typed
  BY TypeInit, TypedIsTypeOK
<1>2. Typed /\ [Next]_vars => Typed'
  BY TypedStep
<1>3. Typed => TypeOK
  BY TypedIsTypeOK
<1>4. QED BY <1>1, <1>2, <1>3, PTL DEF Spec

-----------------------------------------------------------------------------
(* The inductive invariant.  NewestKept says where a backup is, not why it *)
(* stays: the reasons are that no copy is newer than the user's last       *)
(* content, that run ids are fresh, that a history slot is filled once,    *)
(* and that what waits in staging is at least as new as the active copy it *)
(* will replace.                                                           *)

StageOps   == {"stageBatch", "stageOne"}
HistoryOps == {"historyBatch", "historyOne"}
DeleteOps  == {"deleteBatch", "deleteOne"}
PromoteOps == {"promoteBatch", "promoteOne"}
RepairOps  == {"repairMove", "repairReconcile"}
StagedOps  == StageOps \cup HistoryOps \cup PromoteOps \cup RepairOps \cup {"reconcile"}
UploadOps  == StageOps \cup HistoryOps \cup PromoteOps \cup {"copyNew", "syncNew", "reconcile"}

\* A local file is the user's last content, and no copy is newer.
NothingNewer ==
  /\ local \in {None, newest} /\ active <= newest
  /\ \A r \in Runs : staging[r] <= newest /\ history[r] <= newest
  /\ \A c \in kept : c <= newest

\* A run id that was not handed out has no directories.
FreshRuns ==
  /\ \A r \in Runs : r > lastRun => staging[r] = None /\ history[r] = None
  /\ call.op \in StageOps \cup HistoryOps \cup DeleteOps => call.run <= lastRun

\* A copy is moved to history once: when the slot is taken, nothing is left
\* to move.
HistorySlotFree ==
  /\ call.op \in StageOps => history[call.run] = None
  /\ call.op \in HistoryOps \cup DeleteOps /\ (history[call.run] # None \/ call.done)
       => active = None

\* Once a promotion made a copy active, its staging directory is empty.
PromotedOnce == call.op \in PromoteOps /\ active # None => staging[call.run] = None

NotOlder(r) == staging[r] # None => staging[r] >= active

\* What will be promoted, now or by a repair, is not older than the active
\* copy.
StagedNotOlder ==
  /\ call.op \in StagedOps => NotOlder(call.run)
  /\ entry.status = "active_repair_needed" => NotOlder(entry.stagingRun)
  /\ plan.repair => NotOlder(entry.stagingRun)

\* While an entry waits for its repair nothing else is uploaded for it.
OneTransfer ==
  /\ call.op \in Calls => plan.upload = "no" /\ ~plan.repair
  /\ plan.repair => plan.upload = "no"
  /\ call.op \in UploadOps \/ plan.upload # "no" => entry.status # "active_repair_needed"
  /\ call.op \in RepairOps => call.run = entry.stagingRun

Safe == Typed /\ NothingNewer /\ FreshRuns /\ HistorySlotFree /\ PromotedOnce
        /\ StagedNotOlder /\ OneTransfer

\* The invariant holds before the first backup.
LEMMA SafeInit == Init => Safe
<1> SUFFICES ASSUME Init PROVE Safe
  OBVIOUS
<1>1. Typed
  BY TypeInit, TypedIsTypeOK
<1>2. call.op = "idle" /\ plan.upload = "no" /\ plan.repair = FALSE /\ entry.status = "none"
      /\ entry.stagingRun \in Runs
  BY BoundsAssumption DEF Init, Idle, NoPlan, NoEntry, Runs
<1>3. NothingNewer /\ FreshRuns
  BY <1>1, <1>2 DEF Init, NothingNewer, FreshRuns, None, StageOps, HistoryOps, DeleteOps
<1>4. HistorySlotFree /\ PromotedOnce
  BY <1>2 DEF HistorySlotFree, PromotedOnce, StageOps, HistoryOps, DeleteOps, PromoteOps
<1>5. StagedNotOlder /\ OneTransfer
  BY <1>2 DEF StagedNotOlder, OneTransfer, StagedOps, UploadOps, StageOps, HistoryOps,
              PromoteOps, RepairOps, Calls, Uploads
<1>6. QED BY <1>1, <1>3, <1>4, <1>5 DEF Safe

-----------------------------------------------------------------------------
(* A step keeps the invariant, one lemma per kind of step.                 *)

\* Between two calls no transfer, promotion, deletion or repair is in flight.
LEMMA Pauses ==
  /\ Idle.op = "idle" /\ Between.op = "next" /\ Idle # Between
  /\ NoPlan.repair = FALSE /\ NoPlan.upload = "no"
BY DEF Idle, Between, NoPlan

\* The user and the watcher leave the remote and the worker alone.
LEMMA UserKeepsSafe ==
  ASSUME Safe, Write \/ Remove \/ Notify
  PROVE  NothingNewer' /\ FreshRuns' /\ HistorySlotFree' /\ PromotedOnce' /\ StagedNotOlder'
         /\ OneTransfer'
<1> USE DEF Safe, Typed
<1>1. /\ UNCHANGED <<active, staging, history, plan, call, lastRun, kept>>
      /\ newest <= newest' /\ newest' \in Nat /\ newest \in Nat
      /\ local' \in {None, newest'}
  BY DEF Write, Remove, Notify, remote, worker, Contents, NothingNewer
<1>2. /\ entry'.stagingRun = entry.stagingRun
      /\ entry'.status = "active_repair_needed" => entry.status = "active_repair_needed"
  BY DEF Write, Remove, Notify, MarkedDirty, MarkedDeleted, EntryType
<1>3. NothingNewer'
  BY <1>1 DEF NothingNewer, Contents
<1>4. FreshRuns' /\ HistorySlotFree' /\ PromotedOnce'
  BY <1>1 DEF FreshRuns, HistorySlotFree, PromotedOnce
<1>5. StagedNotOlder' /\ OneTransfer'
  BY <1>1, <1>2 DEF StagedNotOlder, OneTransfer, NotOlder
<1>6. QED BY <1>3, <1>4, <1>5

\* A plan asks for a repair and an upload of the same file never at once.
LEMMA PlanKeepsSafe ==
  ASSUME Safe, PlanDirty \/ PlanFull
  PROVE  NothingNewer' /\ FreshRuns' /\ HistorySlotFree' /\ PromotedOnce' /\ StagedNotOlder'
         /\ OneTransfer'
<1> USE DEF Safe, Typed
<1>1. /\ UNCHANGED <<local, newest, active, staging, history, lastRun, kept>>
      /\ call' = Between
  BY DEF PlanDirty, PlanFull, remote
<1>2. call'.op = "next"
  BY <1>1, Pauses
<1>3. /\ plan'.repair => entry' = entry /\ entry.status = "active_repair_needed" /\ plan'.upload = "no"
      /\ entry'.status = "active_repair_needed" => entry' = entry /\ plan'.upload = "no"
  <2>1. CASE PlanDirty
    BY <2>1 DEF PlanDirty, Planned, NoEntry
  <2>2. CASE PlanFull
    <3>1. PICK checked \in {entry, MarkMissingActiveCopy(entry)} :
            entry' = checked /\ plan' = Planned(checked, UploadIfNeeded(checked), FALSE)
      BY <2>2 DEF PlanFull
    <3>2. RemoteMissing(entry).status = "dirty"
      BY DEF RemoteMissing, EntryType
    <3>3. QED BY <3>1, <3>2 DEF Planned, HasChanged, MarkMissingActiveCopy, UploadIfNeeded
  <2>3. QED BY <2>1, <2>2
<1>4. NothingNewer' /\ FreshRuns' /\ HistorySlotFree' /\ PromotedOnce'
  BY <1>1, <1>2 DEF NothingNewer, FreshRuns, HistorySlotFree, PromotedOnce, StageOps, HistoryOps,
                    DeleteOps, PromoteOps
<1>5. StagedNotOlder'
  BY <1>1, <1>2, <1>3 DEF StagedNotOlder, NotOlder, StagedOps, StageOps, HistoryOps, PromoteOps,
                          RepairOps
<1>6. OneTransfer'
  BY <1>2, <1>3 DEF OneTransfer, Calls, Uploads, UploadOps, StageOps, HistoryOps, PromoteOps,
                    RepairOps
<1>7. QED BY <1>4, <1>5, <1>6

\* Ending a pass, however it ends.
LEMMA EndKeepsSafe ==
  ASSUME Safe, Finish \/ AbortRun \/ Stop
  PROVE  NothingNewer' /\ FreshRuns' /\ HistorySlotFree' /\ PromotedOnce' /\ StagedNotOlder'
         /\ OneTransfer'
<1> USE DEF Safe, Typed
<1>1. /\ UNCHANGED <<local, newest, active, staging, history, entry, lastRun, kept>>
      /\ call' = Idle /\ plan' = NoPlan
  BY DEF Finish, AbortRun, Stop, remote
<1>2. call'.op = "idle" /\ plan'.repair = FALSE /\ plan'.upload = "no"
  BY <1>1, Pauses
<1>3. NothingNewer' /\ FreshRuns' /\ HistorySlotFree' /\ PromotedOnce'
  BY <1>1, <1>2 DEF NothingNewer, FreshRuns, HistorySlotFree, PromotedOnce, StageOps, HistoryOps,
                    DeleteOps, PromoteOps
<1>4. StagedNotOlder'
  BY <1>1, <1>2 DEF StagedNotOlder, NotOlder, StagedOps, StageOps, HistoryOps, PromoteOps, RepairOps
<1>5. OneTransfer'
  BY <1>2 DEF OneTransfer, Calls, Uploads, UploadOps, StageOps, HistoryOps, PromoteOps, RepairOps
<1>6. QED BY <1>3, <1>4, <1>5

\* Starting an item: a staging and a history directory are always fresh.
LEMMA StartKeepsSafe ==
  ASSUME Safe, StartRepair \/ StartUpload \/ StartDelete
  PROVE  NothingNewer' /\ FreshRuns' /\ HistorySlotFree' /\ PromotedOnce' /\ StagedNotOlder'
         /\ OneTransfer'
<1> USE DEF Safe, Typed
<1>t. entry.stagingRun \in Runs /\ 0 \in Runs
  BY BoundsAssumption DEF EntryType, Runs
<1>u. /\ UNCHANGED <<local, newest, active, staging, history, entry, kept>>
  BY DEF StartRepair, StartUpload, StartDelete, remote
<1>1. NothingNewer'
  BY <1>u DEF NothingNewer
<1>2. CASE StartRepair
  <2>1. /\ call'.op = "repairMove" /\ call'.run = entry.stagingRun
        /\ plan'.repair = FALSE /\ plan'.upload = "no" /\ lastRun' = lastRun
        /\ NotOlder(entry.stagingRun)
    BY <1>2, <1>t, StartedCall DEF StartRepair, Calls, PlanType, OneTransfer, StagedNotOlder
  <2>2. FreshRuns' /\ HistorySlotFree' /\ PromotedOnce'
    BY <1>u, <2>1 DEF FreshRuns, HistorySlotFree, PromotedOnce, StageOps, HistoryOps, DeleteOps,
                      PromoteOps
  <2>3. StagedNotOlder' /\ OneTransfer'
    BY <1>u, <2>1 DEF StagedNotOlder, OneTransfer, NotOlder, UploadOps, StageOps, HistoryOps,
                      PromoteOps, RepairOps
  <2>4. QED BY <1>1, <2>2, <2>3
<1>3. CASE StartUpload
  <2>1. /\ plan'.repair = FALSE /\ plan'.upload = "no"
        /\ entry.status # "active_repair_needed"
    BY <1>3 DEF StartUpload, PlanType, OneTransfer
  <2>2. \/ call'.op = "copyNew" /\ lastRun' = lastRun
        \/ /\ call'.op = "stageBatch" /\ call'.run = lastRun' /\ call'.done = FALSE
           /\ lastRun' = lastRun + 1 /\ lastRun' \in Runs
    BY <1>3, <1>t, StartedCall, StartedFresh DEF StartUpload, Calls
  <2>3. FreshRuns'
    BY <1>u, <2>2 DEF FreshRuns, Runs, StageOps, HistoryOps, DeleteOps
  <2>4. call'.op = "stageBatch" => staging[call'.run] = None /\ history[call'.run] = None
    BY <2>2 DEF FreshRuns, Runs
  <2>5. HistorySlotFree' /\ PromotedOnce'
    BY <1>u, <2>2, <2>4 DEF HistorySlotFree, PromotedOnce, StageOps, HistoryOps, DeleteOps, PromoteOps
  <2>6. StagedNotOlder' /\ OneTransfer'
    BY <1>u, <2>1, <2>2, <2>4 DEF StagedNotOlder, OneTransfer, NotOlder, StagedOps, UploadOps,
                      StageOps, HistoryOps, PromoteOps, RepairOps
  <2>7. QED BY <1>1, <2>3, <2>5, <2>6
<1>4. CASE StartDelete
  <2>1. plan'.repair = FALSE /\ plan'.upload = "no"
    BY <1>4 DEF StartDelete, PlanType
  <2>2. /\ call'.op = "deleteBatch" /\ call'.run = lastRun' /\ call'.done = FALSE
        /\ lastRun' = lastRun + 1 /\ lastRun' \in Runs
    BY <1>4, StartedFresh DEF StartDelete, Calls
  <2>3. FreshRuns'
    BY <1>u, <2>2 DEF FreshRuns, Runs, StageOps, HistoryOps, DeleteOps
  <2>4. history[call'.run] = None
    BY <2>2 DEF FreshRuns, Runs
  <2>5. HistorySlotFree' /\ PromotedOnce'
    BY <1>u, <2>2, <2>4 DEF HistorySlotFree, PromotedOnce, StageOps, HistoryOps, DeleteOps, PromoteOps
  <2>6. StagedNotOlder' /\ OneTransfer'
    BY <1>u, <2>1, <2>2 DEF StagedNotOlder, OneTransfer, NotOlder, StagedOps, UploadOps,
                      StageOps, HistoryOps, PromoteOps, RepairOps
  <2>7. QED BY <1>1, <2>3, <2>5, <2>6
<1>5. QED BY <1>2, <1>3, <1>4

\* The effect of a call on the remote.
LEMMA EffectKeepsSafe ==
  ASSUME Safe, Effect
  PROVE  NothingNewer' /\ FreshRuns' /\ HistorySlotFree' /\ PromotedOnce' /\ StagedNotOlder'
         /\ OneTransfer'
<1> USE DEF Safe, Typed
<1>t. call.run \in Runs /\ entry.stagingRun \in Runs
  BY DEF CallType, EntryType
<1>u. /\ UNCHANGED <<local, newest, entry, plan, lastRun, kept>>
      /\ call.op \in Calls /\ call'.op = call.op /\ call'.run = call.run /\ call'.done
  BY DEF Effect, CallType
<1>n. /\ newest \in Nat /\ active \in Nat
      /\ \A r \in Runs : staging[r] \in Nat /\ history[r] \in Nat
      /\ newest >= active
  BY DEF Contents, NothingNewer
<1>o. OneTransfer'
  BY <1>u DEF OneTransfer
<1>1. CASE active' = local /\ local # None /\ UNCHANGED <<staging, history>>
           /\ call.op \in {"copyNew", "syncNew"}
  <2>1. NothingNewer'
    BY <1>1, <1>u, <1>n DEF NothingNewer
  <2>2. FreshRuns' /\ HistorySlotFree' /\ PromotedOnce'
    BY <1>1, <1>u DEF FreshRuns, HistorySlotFree, PromotedOnce, StageOps, HistoryOps, DeleteOps,
                      PromoteOps
  <2>3. StagedNotOlder'
    BY <1>1, <1>u DEF StagedNotOlder, OneTransfer, StagedOps, UploadOps, StageOps, HistoryOps,
                      PromoteOps, RepairOps
  <2>4. QED BY <1>o, <2>1, <2>2, <2>3
<1>2. CASE /\ call.op \in StageOps /\ local # None
           /\ staging' = [staging EXCEPT ![call.run] = local] /\ UNCHANGED <<active, history>>
  <2>1. NothingNewer'
    BY <1>2, <1>u, <1>n, <1>t DEF NothingNewer
  <2>2. FreshRuns'
    BY <1>2, <1>u, <1>t DEF FreshRuns, Runs
  <2>3. HistorySlotFree' /\ PromotedOnce'
    BY <1>2, <1>u DEF HistorySlotFree, PromotedOnce, StageOps, HistoryOps, DeleteOps, PromoteOps
  <2>4. \A r \in Runs : NotOlder(r) => NotOlder(r)'
    BY <1>2, <1>n, <1>t DEF NotOlder, NothingNewer
  <2>5. StagedNotOlder'
    BY <2>4, <1>u, <1>t DEF StagedNotOlder
  <2>6. QED BY <1>o, <2>1, <2>2, <2>3, <2>5
<1>3. CASE UNCHANGED <<active, staging, history>> /\ call.op \notin HistoryOps \cup DeleteOps
  <2>1. NothingNewer' /\ FreshRuns'
    BY <1>3, <1>u DEF NothingNewer, FreshRuns
  <2>2. HistorySlotFree' /\ PromotedOnce' /\ StagedNotOlder'
    BY <1>3, <1>u DEF HistorySlotFree, PromotedOnce, StagedNotOlder, NotOlder
  <2>3. QED BY <1>o, <2>1, <2>2
<1>4. CASE ToHistory(call.run)
  <2>1. /\ call.op \in HistoryOps \cup DeleteOps
        /\ active' = None /\ staging' = staging
        /\ \A r \in Runs : history'[r] \in {history[r], active}
        /\ \A r \in Runs : r # call.run => history'[r] = history[r]
    BY <1>4, <1>t DEF ToHistory, HistoryOps, DeleteOps
  <2>2. NothingNewer'
    BY <2>1, <1>u, <1>n DEF NothingNewer, None
  <2>3. FreshRuns'
    BY <2>1, <1>u, <1>t DEF FreshRuns, Runs
  <2>4. HistorySlotFree' /\ PromotedOnce'
    BY <2>1, <1>u DEF HistorySlotFree, PromotedOnce, StageOps, HistoryOps, DeleteOps, PromoteOps
  <2>5. \A r \in Runs : NotOlder(r)'
    BY <2>1, <1>n DEF NotOlder, None
  <2>6. StagedNotOlder'
    BY <2>5, <1>u, <1>t DEF StagedNotOlder
  <2>7. QED BY <1>o, <2>2, <2>3, <2>4, <2>6
<1>5. CASE Promote(call.run)
  <2>1. /\ call.op \in PromoteOps \cup {"repairMove"}
        /\ active' \in {active, staging[call.run]} /\ history' = history
        /\ staging'[call.run] = None
        /\ \A r \in Runs : staging'[r] \in {staging[r], None}
    BY <1>5, <1>t DEF Promote, PromoteOps
  <2>2. NothingNewer'
    BY <2>1, <1>u, <1>n, <1>t DEF NothingNewer, None
  <2>3. FreshRuns'
    BY <2>1, <1>u DEF FreshRuns, PromoteOps, StageOps, HistoryOps, DeleteOps
  <2>4. HistorySlotFree' /\ PromotedOnce'
    BY <2>1, <1>u DEF HistorySlotFree, PromotedOnce, PromoteOps, StageOps, HistoryOps, DeleteOps
  <2>5. StagedNotOlder'
    BY <2>1, <1>u DEF StagedNotOlder, OneTransfer, NotOlder, UploadOps, PromoteOps, RepairOps
  <2>6. QED BY <1>o, <2>2, <2>3, <2>4, <2>5
<1>6. QED
  BY <1>1, <1>2, <1>3, <1>4, <1>5 DEF Effect, Upload, StageOps, HistoryOps, DeleteOps, remote

\* A call that succeeded: its stage is over, the next one begins or the file
\* is recorded.
LEMMA ReturnOkKeepsSafe ==
  ASSUME Safe, ReturnOk
  PROVE  NothingNewer' /\ FreshRuns' /\ HistorySlotFree' /\ PromotedOnce' /\ StagedNotOlder'
         /\ OneTransfer'
<1> USE DEF Safe, Typed
<1>t. call.run \in Runs /\ 0 \in Runs /\ plan.sig \in Contents
  BY BoundsAssumption DEF CallType, Runs, PlanType
<1>u. /\ UNCHANGED <<local, newest, active, staging, history, plan, lastRun>>
      /\ call.op \in Calls /\ call.done
      /\ plan.upload = "no" /\ plan.repair = FALSE
  BY DEF ReturnOk, remote, OneTransfer, PlanType
<1>1. CASE call' = Between
  <2>1. call'.op = "next"
    BY <1>1, Pauses
  <2>2. kept' \in {kept, kept \cup ({active} \ {None})}
    BY DEF ReturnOk, RecordBackedUp
  <2>3. NothingNewer'
    BY <1>u, <2>2 DEF NothingNewer
  <2>4. FreshRuns' /\ HistorySlotFree' /\ PromotedOnce'
    BY <1>u, <2>1 DEF FreshRuns, HistorySlotFree, PromotedOnce, StageOps, HistoryOps, DeleteOps,
                      PromoteOps
  <2>5. entry'.status = "active_repair_needed" => NotOlder(entry'.stagingRun)
    <3>1. CASE RecordBackedUp(entry) \/ RecordBackedUp(WithVersion(entry, call.run))
      <4>1. \A e \in EntryType : BackedUp(e, plan.sig).status = "backed_up"
        BY DEF BackedUp, EntryType
      <4>2. WithVersion(entry, call.run) \in EntryType
        BY EntryUpdates, <1>t
      <4>3. QED BY <3>1, <4>1, <4>2 DEF RecordBackedUp
    <3>2. CASE entry' \in {Deleted(entry, call.run), Deleted(entry, 0)}
      BY <3>2, EntryUpdates, <1>t DEF Deleted, WithVersion, EntryType
    <3>3. CASE call.op = "reconcile" /\ entry' = RepairNeeded(entry, call.run, plan.sig)
      <4>1. entry'.stagingRun = call.run
        BY <3>3 DEF RepairNeeded, WithVersion, EntryType
      <4>2. QED BY <3>3, <4>1 DEF StagedNotOlder, StagedOps
    <3>4. CASE entry' = entry
      BY <3>4 DEF StagedNotOlder
    <3>5. \A op \in {"historyBatch", "historyOne", "promoteBatch", "promoteOne"} :
            ~Start(op, call.run)
      BY <2>1, <1>t, StartedCall DEF Calls
    <3>6. QED BY <3>1, <3>2, <3>3, <3>4, <3>5 DEF ReturnOk
  <2>6. StagedNotOlder' /\ OneTransfer'
    BY <1>u, <2>1, <2>5 DEF StagedNotOlder, OneTransfer, NotOlder, StagedOps, UploadOps, StageOps,
                            HistoryOps, PromoteOps, RepairOps, Calls, Uploads
  <2>7. QED BY <2>3, <2>4, <2>6
<1>2. CASE /\ call.op \in StageOps /\ entry' = entry /\ kept' = kept
           /\ Start("historyBatch", call.run) \/ Start("historyOne", call.run)
  <2>1. /\ call'.op \in HistoryOps /\ call'.run = call.run /\ call'.done = FALSE
    BY <1>2, <1>t, StartedCall DEF Calls, HistoryOps
  <2>2. NothingNewer' /\ FreshRuns'
    BY <1>2, <1>u, <2>1 DEF NothingNewer, FreshRuns
  <2>3. HistorySlotFree' /\ PromotedOnce'
    BY <1>2, <1>u, <2>1 DEF HistorySlotFree, PromotedOnce, StageOps, HistoryOps, DeleteOps, PromoteOps
  <2>4. StagedNotOlder' /\ OneTransfer'
    BY <1>2, <1>u, <2>1 DEF StagedNotOlder, OneTransfer, NotOlder, StagedOps, UploadOps, StageOps,
                            HistoryOps, PromoteOps, RepairOps
  <2>5. QED BY <2>2, <2>3, <2>4
<1>3. CASE /\ call.op \in HistoryOps /\ entry' \in {entry, WithVersion(entry, call.run)}
           /\ kept' = kept
           /\ Start("promoteBatch", call.run) \/ Start("promoteOne", call.run)
  <2>1. /\ call'.op \in PromoteOps /\ call'.run = call.run /\ call'.done = FALSE
    BY <1>3, <1>t, StartedCall DEF Calls, PromoteOps
  <2>2. entry'.status = entry.status /\ entry'.stagingRun = entry.stagingRun /\ active = None
    BY <1>3, <1>u DEF WithVersion, EntryType, HistorySlotFree
  <2>3. NothingNewer' /\ FreshRuns'
    BY <1>3, <1>u, <2>1 DEF NothingNewer, FreshRuns, PromoteOps, StageOps, HistoryOps, DeleteOps
  <2>4. HistorySlotFree' /\ PromotedOnce'
    BY <1>u, <2>1, <2>2 DEF HistorySlotFree, PromotedOnce, StageOps, HistoryOps, DeleteOps, PromoteOps
  <2>5. StagedNotOlder' /\ OneTransfer'
    BY <1>3, <1>u, <2>1, <2>2 DEF StagedNotOlder, OneTransfer, NotOlder, StagedOps, UploadOps,
                            StageOps, HistoryOps, PromoteOps, RepairOps
  <2>6. QED BY <2>3, <2>4, <2>5
<1>4. QED
  BY <1>1, <1>2, <1>3 DEF ReturnOk, RecordBackedUp, StageOps, HistoryOps

\* A call that failed is tried another way, or the file is given up for this
\* pass.
LEMMA ReturnErrorKeepsSafe ==
  ASSUME Safe, ReturnError
  PROVE  NothingNewer' /\ FreshRuns' /\ HistorySlotFree' /\ PromotedOnce' /\ StagedNotOlder'
         /\ OneTransfer'
<1> USE DEF Safe, Typed
<1>t. call.run \in Runs /\ 0 \in Runs /\ plan.sig \in Contents
  BY BoundsAssumption DEF CallType, Runs, PlanType
<1>u. /\ UNCHANGED <<local, newest, active, staging, history, plan, kept>>
      /\ call.op \in Calls /\ plan.upload = "no" /\ plan.repair = FALSE
  BY DEF ReturnError, remote, OneTransfer, PlanType
<1>n. NothingNewer'
  BY <1>u DEF NothingNewer
<1>1. CASE /\ entry' = entry /\ lastRun' = lastRun
           /\ \/ call.op = "copyNew" /\ Start("syncNew", 0)
              \/ call.op = "historyBatch" /\ Start("historyOne", call.run)
              \/ call.op = "promoteBatch" /\ Start("reconcile", call.run)
              \/ call.op = "repairMove" /\ Start("repairReconcile", call.run)
  <2>1. \/ call.op = "copyNew" /\ call'.op = "syncNew"
        \/ /\ call'.run = call.run /\ call'.done = FALSE
           /\ \/ call.op = "historyBatch" /\ call'.op = "historyOne"
              \/ call.op = "promoteBatch" /\ call'.op = "reconcile"
              \/ call.op = "repairMove" /\ call'.op = "repairReconcile"
    BY <1>1, <1>t, StartedCall DEF Calls, Uploads
  <2>2. FreshRuns' /\ HistorySlotFree' /\ PromotedOnce'
    BY <1>1, <1>u, <2>1 DEF FreshRuns, HistorySlotFree, PromotedOnce, StageOps, HistoryOps,
                            DeleteOps, PromoteOps
  <2>3. StagedNotOlder' /\ OneTransfer'
    BY <1>1, <1>u, <2>1 DEF StagedNotOlder, OneTransfer, NotOlder, StagedOps, UploadOps, StageOps,
                            HistoryOps, PromoteOps, RepairOps
  <2>4. QED BY <1>n, <2>2, <2>3
<1>2. CASE /\ entry' = entry
           /\ \/ call.op = "stageBatch" /\ StartFresh("stageOne")
              \/ StartFresh("deleteOne")
  <2>1. /\ call'.run = lastRun' /\ call'.done = FALSE
        /\ lastRun' = lastRun + 1 /\ lastRun' \in Runs
        /\ call'.op = "deleteOne" \/ (call.op = "stageBatch" /\ call'.op = "stageOne")
    BY <1>2, StartedFresh DEF Calls, Uploads
  <2>2. staging[call'.run] = None /\ history[call'.run] = None
    BY <2>1 DEF FreshRuns, Runs
  <2>3. FreshRuns'
    BY <1>u, <2>1 DEF FreshRuns, Runs
  <2>4. HistorySlotFree' /\ PromotedOnce'
    BY <1>u, <2>1, <2>2 DEF HistorySlotFree, PromotedOnce, StageOps, HistoryOps, DeleteOps, PromoteOps
  <2>5. StagedNotOlder' /\ OneTransfer'
    BY <1>2, <1>u, <2>1, <2>2 DEF StagedNotOlder, OneTransfer, NotOlder, StagedOps, UploadOps,
                            StageOps, HistoryOps, PromoteOps, RepairOps
  <2>6. QED BY <1>n, <2>3, <2>4, <2>5
<1>3. CASE /\ call' = Between /\ lastRun' = lastRun
           /\ \/ entry' \in {Failed(entry), NoEntry}
              \/ /\ call.op \in {"historyOne", "promoteOne", "reconcile"}
                 /\ entry' = RepairNeeded(entry, call.run, plan.sig)
              \/ /\ call.op = "repairReconcile"
                 /\ entry' = [entry EXCEPT !.status = "active_repair_needed"]
  <2>1. call'.op = "next"
    BY <1>3, Pauses
  <2>2. FreshRuns' /\ HistorySlotFree' /\ PromotedOnce'
    BY <1>3, <1>u, <2>1 DEF FreshRuns, HistorySlotFree, PromotedOnce, StageOps, HistoryOps,
                            DeleteOps, PromoteOps
  <2>3. entry'.status = "active_repair_needed" => NotOlder(entry'.stagingRun)
    <3>1. CASE entry' \in {Failed(entry), NoEntry}
      BY <3>1 DEF Failed, NoEntry, EntryType
    <3>2. CASE /\ call.op \in {"historyOne", "promoteOne", "reconcile"}
               /\ entry' = RepairNeeded(entry, call.run, plan.sig)
      <4>1. entry'.stagingRun = call.run
        BY <3>2 DEF RepairNeeded, WithVersion, EntryType
      <4>2. QED BY <3>2, <4>1 DEF StagedNotOlder, StagedOps, HistoryOps, PromoteOps
    <3>3. CASE /\ call.op = "repairReconcile"
               /\ entry' = [entry EXCEPT !.status = "active_repair_needed"]
      <4>1. entry'.stagingRun = entry.stagingRun /\ call.run = entry.stagingRun
        BY <3>3 DEF EntryType, OneTransfer, RepairOps
      <4>2. QED BY <3>3, <4>1 DEF StagedNotOlder, StagedOps, RepairOps
    <3>4. QED BY <1>3, <3>1, <3>2, <3>3
  <2>4. StagedNotOlder' /\ OneTransfer'
    BY <1>u, <2>1, <2>3 DEF StagedNotOlder, OneTransfer, NotOlder, StagedOps, UploadOps, StageOps,
                            HistoryOps, PromoteOps, RepairOps, Calls, Uploads
  <2>5. QED BY <1>n, <2>2, <2>4
<1>4. QED
  BY <1>1, <1>2, <1>3 DEF ReturnError, GiveUp, Disappeared

\* The invariant is inductive.
LEMMA SafeStep == Safe /\ [Next]_vars => Safe'
<1> SUFFICES ASSUME Safe, [Next]_vars PROVE Safe'
  OBVIOUS
<1>1. Typed'
  BY TypedStep DEF Safe
<1>2. CASE UNCHANGED vars
  BY <1>1, <1>2 DEF vars, remote, worker, Safe, NothingNewer, FreshRuns, HistorySlotFree,
                    PromotedOnce, StagedNotOlder, NotOlder, OneTransfer
<1>3. CASE Next
  BY <1>1, <1>3, UserKeepsSafe, PlanKeepsSafe, StartKeepsSafe, EndKeepsSafe, EffectKeepsSafe,
     ReturnOkKeepsSafe, ReturnErrorKeepsSafe DEF Next, Safe
<1>4. QED BY <1>2, <1>3

-----------------------------------------------------------------------------
(* What follows from the invariant.                                        *)

\* No step takes a copy from the remote without a copy that is as new.
LEMMA CopiesStayAsNew ==
  ASSUME Safe, [Next]_vars, NEW d \in RemoteCopies
  PROVE  \E n \in RemoteCopies' : n >= d
<1> USE DEF Safe, Typed
<1>t. call.run \in Runs
  BY DEF CallType
<1>n. /\ d \in Nat /\ active \in Nat /\ newest \in Nat /\ active <= newest
      /\ \A r \in Runs : staging[r] \in Nat /\ history[r] \in Nat
      /\ d <= newest
  BY DEF RemoteCopies, Contents, NothingNewer
<1>1. CASE UNCHANGED <<active, staging, history>>
  BY <1>1, <1>n DEF RemoteCopies
<1>2. CASE Effect
  <2>1. CASE Upload(call.run)
    <3>1. UNCHANGED remote \/ (local \in RemoteCopies' /\ local # None)
      <4>1. \/ UNCHANGED remote
            \/ local # None /\ (active' = local \/ staging'[call.run] = local)
        BY <1>t, <2>1 DEF Upload
      <4>2. active' \in RemoteCopies' /\ staging'[call.run] \in RemoteCopies'
        BY <1>t DEF RemoteCopies
      <4>3. QED BY <4>1, <4>2
    <3>2. local # None => local = newest
      BY DEF NothingNewer
    <3>3. QED BY <1>1, <1>n, <3>1, <3>2 DEF remote
  <2>2. CASE ToHistory(call.run)
    <3>1. active # None => history[call.run] = None
      BY <2>2 DEF ToHistory, HistorySlotFree, HistoryOps, DeleteOps
    <3>2. active \in RemoteCopies' \/ active = None
      BY <2>2, <1>t DEF ToHistory, RemoteCopies
    <3>3. CASE d = active /\ active # None
      BY <3>2, <3>3, <1>n
    <3>4. CASE d = None
      <4>1. active' \in RemoteCopies' /\ active' = 0 /\ d = 0
        BY <3>4, <2>2 DEF RemoteCopies, None, ToHistory
      <4>2. QED BY <4>1
    <3>5. CASE \E r \in Runs : d = staging[r]
      <4>1. PICK r \in Runs : d = staging'[r]
        BY <3>5, <2>2 DEF ToHistory
      <4>2. d \in RemoteCopies'
        BY <4>1 DEF RemoteCopies
      <4>3. QED BY <4>2, <1>n
    <3>6. CASE \E r \in Runs : d = history[r] /\ d # None
      <4>1. PICK r \in Runs : d = history[r] /\ d # None
        BY <3>6
      <4>2. history'[r] = history[r]
        BY <4>1, <3>1, <1>t, <2>2 DEF ToHistory
      <4>3. history'[r] \in RemoteCopies'
        BY DEF RemoteCopies
      <4>4. QED BY <4>1, <4>2, <4>3, <1>n
    <3>7. QED BY <3>3, <3>4, <3>5, <3>6 DEF RemoteCopies
  <2>3. CASE Promote(call.run)
    <3>1. /\ active' \in RemoteCopies' /\ active' >= active
          /\ active' >= staging[call.run]
      BY <2>3, <1>n, <1>t DEF Promote, PromotedOnce, StagedNotOlder, NotOlder, RemoteCopies,
                              StagedOps, PromoteOps, RepairOps, None
    <3>2. CASE d = active \/ d = staging[call.run]
      BY <3>1, <3>2
    <3>3. CASE \E r \in Runs : d = history[r]
      BY <3>3, <1>n, <2>3 DEF Promote, RemoteCopies
    <3>4. CASE \E r \in Runs : r # call.run /\ d = staging[r]
      BY <3>4, <1>n, <2>3 DEF Promote, RemoteCopies
    <3>5. QED BY <3>2, <3>3, <3>4 DEF RemoteCopies
  <2>4. QED BY <1>1, <1>2, <2>1, <2>2, <2>3 DEF Effect, remote
<1>3. QED
  BY <1>1, <1>2 DEF Next, vars, remote, Write, Remove, Notify, PlanDirty, PlanFull, StartRepair,
       StartUpload, StartDelete, Finish, ReturnOk, ReturnError, AbortRun, Stop

\* No step leaves the remote older than what was recorded as backed up.
LEMMA NewestKeptStep == Safe /\ NewestKept /\ [Next]_vars => NewestKept'
<1> SUFFICES ASSUME Safe, NewestKept, [Next]_vars, NEW c \in kept'
             PROVE  \E d \in RemoteCopies' : d >= c
  BY DEF NewestKept
<1>1. Typed'
  BY TypedStep DEF Safe
<1>2. c \in kept \/ (c = active' /\ c \in Contents)
  BY <1>1 DEF Next, vars, remote, worker, Write, Remove, Notify, PlanDirty, PlanFull, StartRepair,
       StartUpload, StartDelete, Finish, Effect, ReturnOk, ReturnError, AbortRun, Stop,
       RecordBackedUp, Typed
<1>3. CASE c \in kept
  <2>1. PICK d \in RemoteCopies : d >= c
    BY <1>3 DEF NewestKept
  <2>2. PICK n \in RemoteCopies' : n >= d
    BY <2>1, CopiesStayAsNew
  <2>3. c \in Nat /\ d \in Nat /\ n \in Nat
    BY <1>1, <1>3 DEF Safe, Typed, RemoteCopies, Contents
  <2>4. QED BY <2>1, <2>2, <2>3
<1>4. CASE c = active' /\ c \in Contents
  BY <1>4 DEF RemoteCopies, Contents
<1>5. QED BY <1>2, <1>3, <1>4

\* What the manifest once recorded as backed up, or something newer, stays on
\* the remote.
THEOREM NewestIsKept == Spec => []NewestKept
<1>1. Init => Safe /\ NewestKept
  BY SafeInit DEF Init, NewestKept
<1>2. Safe /\ NewestKept /\ [Next]_vars => (Safe /\ NewestKept)'
  BY SafeStep, NewestKeptStep
<1>3. QED BY <1>1, <1>2, PTL DEF Spec

\* A preserved version is never changed by a later backup.
THEOREM HistoryIsImmutable == Spec => HistoryImmutable
<1>1. Safe /\ [Next]_vars => [\A r \in Runs : history[r] # None => history'[r] = history[r]]_vars
  <2> SUFFICES ASSUME Safe, Next, NEW r \in Runs, history[r] # None
               PROVE  history'[r] = history[r]
    OBVIOUS
  <2>1. CASE ToHistory(call.run)
    BY <2>1 DEF Safe, Typed, CallType, ToHistory, HistorySlotFree, HistoryOps, DeleteOps
  <2>2. CASE history' = history
    BY <2>2
  <2>3. QED
    BY <2>1, <2>2 DEF Next, remote, Write, Remove, Notify, PlanDirty, PlanFull, StartRepair,
       StartUpload, StartDelete, Finish, Effect, Upload, Promote, ReturnOk, ReturnError, AbortRun,
       Stop
<1>2. QED BY <1>1, SafeInit, SafeStep, PTL DEF Spec, HistoryImmutable

\* A promotion never replaces a live copy.
THEOREM PromotionIsClean == Spec => PromotionFindsNoActiveCopy
<1>1. Safe /\ [Next]_vars =>
        [call.op \in {"promoteBatch", "promoteOne"} /\ active # None => active' = active]_vars
  <2> SUFFICES ASSUME Safe, Next, call.op \in PromoteOps, active # None
               PROVE  active' = active
    BY DEF PromoteOps
  <2>1. CASE Effect
    BY <2>1 DEF Safe, Effect, Upload, ToHistory, Promote, PromotedOnce, PromoteOps
  <2>2. QED
    BY <2>1 DEF Next, remote, Write, Remove, Notify, PlanDirty, PlanFull, StartRepair,
       StartUpload, StartDelete, Finish, ReturnOk, ReturnError, AbortRun, Stop
<1>2. QED BY <1>1, SafeInit, SafeStep, PTL DEF Spec, PromotionFindsNoActiveCopy

-----------------------------------------------------------------------------
(* Quick passes without errors.  A full pass, or a call that fails, may    *)
(* take the file for one that was never backed up and upload over its only *)
(* copy (the run versions_full shows it); with quick passes alone, however *)
(* they are paused or crash, both promises below hold.                     *)

QuickOnly == Plans \subseteq {"dirty"} /\ "error" \notin Faults

QuickOps == {"copyNew", "stageBatch", "historyBatch", "promoteBatch", "deleteBatch"}

\* The calls of a quick pass; nothing ever waits for a repair.
QuickCalls ==
  /\ call.op \in QuickOps \cup {"idle", "next"}
  /\ ~plan.repair /\ entry.status # "active_repair_needed" /\ ~entry.missing

\* A file that was recorded is known to be on the remote, and so is never
\* uploaded as a new one.
RecordedIsKnown ==
  /\ None \notin kept
  /\ kept # {} => entry.remote
  /\ plan.upload = "new" \/ call.op = "copyNew" => kept = {}

\* While the worker still has to do with the file its entry is not final;
\* a pass uploads the file or deletes it.
PendingIsMarked ==
  /\ call.op \in QuickOps \/ plan.upload # "no" \/ plan.delete => entry.status # "backed_up"
  /\ call.op \in QuickOps \ {"deleteBatch"} \/ plan.upload # "no" => ~plan.delete

\* The copy that is about to be recorded under the planned content, where it
\* is at each stage of the upload.
Carried ==
  IF call.op \in {"stageBatch", "historyBatch"} \/ (call.op = "promoteBatch" /\ ~call.done)
  THEN staging[call.run] ELSE active

CarriedIsPlanned ==
  (call.op \in {"historyBatch", "promoteBatch"} \/ (call.op \in {"copyNew", "stageBatch"} /\ call.done))
    /\ local # None /\ plan.sig = local => Carried = local

RecordIsTrue ==
  entry.status = "backed_up" /\ local # None /\ entry.sig = local => active = local

\* What is planned, and what is recorded, was a content of the file.
NothingForetold == plan.sig <= newest /\ entry.sig <= newest

Quick == Safe /\ QuickCalls /\ RecordedIsKnown /\ PendingIsMarked /\ CarriedIsPlanned
         /\ RecordIsTrue /\ NothingForetold

\* What quick passes add to the invariant.
QuickParts ==
  QuickCalls /\ RecordedIsKnown /\ PendingIsMarked /\ CarriedIsPlanned /\ RecordIsTrue /\ NothingForetold

\* Before the first backup.
LEMMA QuickInit == Init => Quick
<1> SUFFICES ASSUME Init PROVE Quick
  OBVIOUS
<1>1. Safe
  BY SafeInit
<1>2. QuickCalls /\ RecordedIsKnown /\ PendingIsMarked
  BY DEF Init, Idle, NoPlan, NoEntry, QuickCalls, RecordedIsKnown, PendingIsMarked, QuickOps
<1>3. CarriedIsPlanned /\ RecordIsTrue /\ NothingForetold
  BY DEF Init, Idle, NoPlan, NoEntry, CarriedIsPlanned, RecordIsTrue, NothingForetold, None
<1>4. QED BY <1>1, <1>2, <1>3 DEF Quick

\* A new content is one that no plan and no record names.
LEMMA UserKeepsQuick ==
  ASSUME Quick, Write \/ Remove \/ Notify
  PROVE  QuickParts'
<1> USE DEF Quick, Safe, Typed
<1>1. UNCHANGED <<active, staging, history, plan, call, lastRun, kept>>
  BY DEF Write, Remove, Notify, remote, worker
<1>2. /\ entry'.remote = entry.remote /\ entry'.sig = entry.sig /\ ~entry'.missing
      /\ entry'.status # "active_repair_needed"
      /\ entry'.status = "backed_up" => entry' = entry
  BY DEF Write, Remove, Notify, MarkedDirty, MarkedDeleted, EntryType, QuickCalls
<1>3. /\ newest \in Nat /\ newest' \in Nat /\ newest <= newest'
      /\ plan.sig \in Nat /\ entry.sig \in Nat
      /\ local' \in {None, local} \/ (local' = newest' /\ newest' = newest + 1)
  BY DEF Write, Remove, Notify, PlanType, EntryType, Contents
<1>4. QuickCalls' /\ RecordedIsKnown' /\ PendingIsMarked'
  BY <1>1, <1>2 DEF QuickCalls, RecordedIsKnown, PendingIsMarked
<1>5. plan.sig # newest + 1 /\ entry.sig # newest + 1
  BY <1>3 DEF NothingForetold
<1>6. CarriedIsPlanned' /\ RecordIsTrue' /\ NothingForetold'
  BY <1>1, <1>2, <1>3, <1>5 DEF CarriedIsPlanned, Carried, RecordIsTrue, NothingForetold
<1>7. QED BY <1>4, <1>6 DEF QuickParts

\* A quick pass uploads as new what was never recorded, and takes the entry
\* away only of such a file.
LEMMA PlanKeepsQuick ==
  ASSUME QuickOnly, Quick, PlanDirty \/ PlanFull
  PROVE  QuickParts'
<1> USE DEF Quick, Safe, Typed
<1>1. PlanDirty /\ UNCHANGED <<local, newest, active, staging, history, kept>> /\ call' = Between
  BY DEF PlanDirty, PlanFull, QuickOnly, remote
<1>2. call'.op = "next"
  BY <1>1, Pauses
<1>3. HasPreviousRemoteCopy(entry) <=> entry.remote
  BY DEF HasPreviousRemoteCopy, QuickCalls
<1>4. entry' = entry \/ (entry' = NoEntry /\ ~entry.remote)
  BY <1>1, <1>3 DEF PlanDirty
<1>5. /\ plan'.repair = FALSE
      /\ plan'.upload = "new" => ~entry.remote
      /\ plan'.upload # "no" => entry.status \in {"dirty", "failed"} /\ entry' = entry /\ ~plan'.delete
      /\ plan'.delete => entry'.status \in {"dirty", "failed", "deleted_pending_history", "none"}
      /\ plan'.sig \in {entry.sig, local}
  BY <1>1, <1>3 DEF PlanDirty, Planned, QuickCalls, NoEntry
<1>6. NoEntry.status = "none" /\ ~NoEntry.missing /\ NoEntry.sig = 0
  BY DEF NoEntry, None
<1>7. QuickCalls' /\ RecordedIsKnown' /\ PendingIsMarked'
  BY <1>1, <1>2, <1>4, <1>5, <1>6 DEF QuickCalls, RecordedIsKnown, PendingIsMarked, QuickOps
<1>8. CarriedIsPlanned' /\ RecordIsTrue'
  BY <1>1, <1>2, <1>4, <1>6 DEF CarriedIsPlanned, RecordIsTrue
<1>9. NothingForetold'
  BY <1>1, <1>4, <1>5, <1>6 DEF NothingForetold, NothingNewer, Contents, None
<1>10. QED BY <1>7, <1>8, <1>9 DEF QuickParts

\* Starting and ending an item of the plan.
LEMMA StartsKeepQuick ==
  ASSUME QuickOnly, Quick,
         StartRepair \/ StartUpload \/ StartDelete \/ Finish \/ AbortRun \/ Stop
  PROVE  QuickParts'
<1> USE DEF Quick, Safe, Typed
<1>1. UNCHANGED <<local, newest, active, staging, history, entry, kept>>
  BY DEF StartRepair, StartUpload, StartDelete, Finish, AbortRun, Stop, remote
<1>2. RecordIsTrue'
  BY <1>1 DEF RecordIsTrue
<1>3. CASE StartUpload
  <2>1. \/ call'.op = "copyNew" /\ plan.upload = "new" /\ call'.done = FALSE
        \/ call'.op = "stageBatch" /\ call'.done = FALSE
    <3>1. 0 \in Runs
      BY BoundsAssumption DEF Runs
    <3>2. CASE plan.upload = "new" /\ Start("copyNew", 0)
      BY <3>1, <3>2, StartedCall DEF Calls
    <3>3. CASE StartFresh("stageBatch")
      BY <3>3, StartedFresh DEF Calls
    <3>4. QED BY <1>3, <3>2, <3>3 DEF StartUpload
  <2>2. /\ plan.upload # "no" /\ plan'.upload = "no" /\ plan'.delete = plan.delete
        /\ plan'.repair = plan.repair /\ plan'.sig = plan.sig
    BY <1>3 DEF StartUpload, PlanType
  <2>3. QuickCalls' /\ RecordedIsKnown' /\ PendingIsMarked'
    BY <1>1, <2>1, <2>2 DEF QuickCalls, RecordedIsKnown, PendingIsMarked, QuickOps
  <2>4. CarriedIsPlanned' /\ NothingForetold'
    BY <1>1, <2>1, <2>2 DEF CarriedIsPlanned, NothingForetold
  <2>5. QED BY <1>2, <2>3, <2>4 DEF QuickParts
<1>4. CASE StartDelete
  <2>1. call'.op = "deleteBatch"
    BY <1>4, StartedFresh DEF StartDelete, Calls
  <2>2. /\ plan.delete /\ plan'.delete = FALSE /\ plan'.upload = "no"
        /\ plan'.repair = plan.repair /\ plan'.sig = plan.sig
    BY <1>4 DEF StartDelete, PlanType
  <2>3. QuickCalls' /\ RecordedIsKnown' /\ PendingIsMarked'
    BY <1>1, <2>1, <2>2 DEF QuickCalls, RecordedIsKnown, PendingIsMarked, QuickOps
  <2>4. CarriedIsPlanned' /\ NothingForetold'
    BY <1>1, <2>1, <2>2 DEF CarriedIsPlanned, NothingForetold
  <2>5. QED BY <1>2, <2>3, <2>4 DEF QuickParts
<1>5. CASE Finish \/ Stop
  <2>1. call'.op = "idle" /\ plan'.repair = FALSE /\ plan'.upload = "no" /\ plan'.delete = FALSE
        /\ plan'.sig = 0
    BY <1>5 DEF Finish, Stop, Idle, NoPlan, None
  <2>2. QuickCalls' /\ RecordedIsKnown' /\ PendingIsMarked'
    BY <1>1, <2>1 DEF QuickCalls, RecordedIsKnown, PendingIsMarked, QuickOps
  <2>3. CarriedIsPlanned' /\ NothingForetold'
    BY <1>1, <2>1 DEF CarriedIsPlanned, NothingForetold, Contents
  <2>4. QED BY <1>2, <2>2, <2>3 DEF QuickParts
<1>6. ~StartRepair /\ ~AbortRun
  BY DEF StartRepair, AbortRun, QuickOnly, QuickCalls
<1>7. QED BY <1>3, <1>4, <1>5, <1>6

\* The copy that is carried is uploaded, staged and promoted as it was planned.
LEMMA EffectKeepsQuick ==
  ASSUME Quick, Effect
  PROVE  QuickParts'
<1> USE DEF Quick, Safe, Typed
<1>t. call.run \in Runs
  BY DEF CallType
<1>1. /\ UNCHANGED <<local, newest, entry, plan, lastRun, kept>>
      /\ call.op \in QuickOps /\ ~call.done
      /\ call'.op = call.op /\ call'.run = call.run /\ call'.done
  BY DEF Effect, CallType, QuickCalls, Calls, Uploads
<1>2. QuickCalls' /\ RecordedIsKnown' /\ PendingIsMarked' /\ NothingForetold'
  BY <1>1 DEF QuickCalls, RecordedIsKnown, PendingIsMarked, NothingForetold
<1>3. RecordIsTrue'
  BY <1>1 DEF RecordIsTrue, PendingIsMarked
<1>4. ASSUME local # None, plan.sig = local, call.op # "deleteBatch"
      PROVE  Carried' = local
  <2>1. CASE call.op = "copyNew"
    BY <1>1, <1>4, <2>1 DEF Effect, Upload, ToHistory, Promote, Carried
  <2>2. CASE call.op = "stageBatch"
    <3>1. staging' = [staging EXCEPT ![call.run] = local]
      BY <1>4, <2>2 DEF Effect, Upload, ToHistory, Promote
    <3>2. QED BY <1>1, <1>t, <2>2, <3>1 DEF Carried
  <2>3. CASE call.op = "historyBatch"
    <3>1. staging' = staging
      BY <2>3 DEF Effect, Upload, ToHistory, Promote
    <3>2. QED BY <1>1, <1>4, <2>3, <3>1 DEF Carried, CarriedIsPlanned
  <2>4. CASE call.op = "promoteBatch"
    <3>1. staging[call.run] = local
      BY <1>1, <1>4, <2>4 DEF Carried, CarriedIsPlanned
    <3>2. active' = local
      BY <1>4, <2>4, <3>1 DEF Effect, Upload, ToHistory, Promote
    <3>3. QED BY <1>1, <2>4, <3>2 DEF Carried
  <2>5. QED BY <1>1, <1>4, <2>1, <2>2, <2>3, <2>4 DEF QuickOps
<1>5. CarriedIsPlanned'
  BY <1>1, <1>4 DEF CarriedIsPlanned
<1>6. QED BY <1>2, <1>3, <1>5 DEF QuickParts

\* The record names a content that is the active copy, or no longer the file.
LEMMA ReturnsKeepQuick ==
  ASSUME QuickOnly, Quick, ReturnOk \/ ReturnError
  PROVE  QuickParts'
<1> USE DEF Quick, Safe, Typed
<1>t. call.run \in Runs
  BY DEF CallType
<1>1. ReturnOk
  BY DEF ReturnError, QuickOnly, SourceGone, QuickCalls, QuickOps, Uploads
<1>2. /\ UNCHANGED <<local, newest, active, staging, history, plan, lastRun>>
      /\ call.op \in QuickOps /\ call.done
      /\ plan.upload = "no"
  BY <1>1 DEF ReturnOk, remote, OneTransfer, QuickCalls, QuickOps, Calls, Uploads
<1>3. CASE call.op \in {"copyNew", "promoteBatch"} /\ RecordBackedUp(entry)
  <2>1. /\ entry'.status = "backed_up" /\ entry'.remote /\ ~entry'.missing /\ entry'.sig = plan.sig
        /\ call'.op = "next" /\ kept' = kept \cup ({active} \ {None})
    BY <1>3, Pauses DEF RecordBackedUp, BackedUp, EntryType
  <2>2. QuickCalls' /\ RecordedIsKnown' /\ PendingIsMarked'
    BY <1>2, <1>3, <2>1 DEF QuickCalls, RecordedIsKnown, PendingIsMarked, QuickOps
  <2>3. CarriedIsPlanned' /\ NothingForetold'
    BY <1>2, <2>1 DEF CarriedIsPlanned, NothingForetold
  <2>4. RecordIsTrue'
    BY <1>2, <1>3, <2>1 DEF RecordIsTrue, CarriedIsPlanned, Carried
  <2>5. QED BY <2>2, <2>3, <2>4 DEF QuickParts
<1>4. CASE /\ entry' \in {entry, WithVersion(entry, call.run)} /\ kept' = kept
           /\ \/ call.op = "stageBatch" /\ Start("historyBatch", call.run)
              \/ call.op = "historyBatch" /\ Start("promoteBatch", call.run)
  <2>1. /\ call'.run = call.run /\ call'.done = FALSE
        /\ \/ call.op = "stageBatch" /\ call'.op = "historyBatch"
           \/ call.op = "historyBatch" /\ call'.op = "promoteBatch"
    BY <1>4, <1>t, StartedCall DEF Calls
  <2>2. /\ entry'.status = entry.status /\ entry'.remote = entry.remote
        /\ entry'.missing = entry.missing /\ entry'.sig = entry.sig
    BY <1>4 DEF WithVersion, EntryType
  <2>3. QuickCalls' /\ RecordedIsKnown' /\ PendingIsMarked'
    BY <1>2, <1>4, <2>1, <2>2 DEF QuickCalls, RecordedIsKnown, PendingIsMarked, QuickOps
  <2>4. CarriedIsPlanned'
    BY <1>2, <2>1 DEF CarriedIsPlanned, Carried
  <2>5. RecordIsTrue' /\ NothingForetold'
    BY <1>2, <2>2 DEF RecordIsTrue, NothingForetold
  <2>6. QED BY <2>3, <2>4, <2>5 DEF QuickParts
<1>5. CASE /\ call.op = "deleteBatch" /\ entry' = Deleted(entry, call.run)
           /\ call' = Between /\ kept' = kept
  <2>1. /\ entry'.status = "deleted" /\ entry'.remote = entry.remote
        /\ entry'.missing = entry.missing /\ entry'.sig = entry.sig /\ call'.op = "next"
    BY <1>5, Pauses DEF Deleted, WithVersion, EntryType
  <2>2. QuickCalls' /\ RecordedIsKnown' /\ PendingIsMarked'
    BY <1>2, <1>5, <2>1 DEF QuickCalls, RecordedIsKnown, PendingIsMarked, QuickOps
  <2>3. CarriedIsPlanned' /\ RecordIsTrue' /\ NothingForetold'
    BY <1>2, <2>1 DEF CarriedIsPlanned, RecordIsTrue, NothingForetold
  <2>4. QED BY <2>2, <2>3 DEF QuickParts
<1>6. QED BY <1>1, <1>2, <1>3, <1>4, <1>5 DEF ReturnOk, QuickOps

\* The invariant of quick passes is inductive.
LEMMA QuickStep == QuickOnly /\ Quick /\ [Next]_vars => Quick'
<1> SUFFICES ASSUME QuickOnly, Quick, [Next]_vars PROVE Quick'
  OBVIOUS
<1>1. Safe'
  BY SafeStep DEF Quick
<1>2. CASE UNCHANGED vars
  BY <1>1, <1>2 DEF vars, remote, worker, Quick, QuickCalls, RecordedIsKnown, PendingIsMarked,
                    CarriedIsPlanned, Carried, RecordIsTrue, NothingForetold
<1>3. CASE Next
  <2>1. QuickParts'
    BY <1>3, UserKeepsQuick, PlanKeepsQuick, StartsKeepQuick, EffectKeepsQuick, ReturnsKeepQuick
       DEF Next
  <2>2. QED BY <1>1, <2>1 DEF Quick, QuickParts
<1>4. QED BY <1>2, <1>3

\* A copy leaves the active area for a free slot of the history.
LEMMA OverwrittenKeptStep ==
  ASSUME QuickOnly, Quick, OverwrittenKept, [Next]_vars
  PROVE  OverwrittenKept'
<1> USE DEF Quick, Safe, Typed
<1>t. call.run \in Runs
  BY DEF CallType
<1>1. ASSUME UNCHANGED <<active, history>>, kept' \in {kept, kept \cup ({active} \ {None})}
      PROVE  OverwrittenKept'
  BY <1>1 DEF OverwrittenKept
<1>2. CASE Effect
  <2>1. kept' = kept /\ call.op \in QuickOps
    BY <1>2 DEF Effect, QuickCalls, Calls, Uploads
  <2>2. CASE call.op = "copyNew"
    BY <2>1, <2>2 DEF OverwrittenKept, RecordedIsKnown
  <2>3. CASE call.op = "stageBatch"
    <3>1. UNCHANGED <<active, history>>
      BY <1>2, <2>3 DEF Effect, Upload, ToHistory, Promote, remote
    <3>2. QED BY <1>1, <2>1, <3>1
  <2>4. CASE call.op \in {"historyBatch", "deleteBatch"}
    <3>1. active # None => history[call.run] = None
      BY <2>4 DEF HistorySlotFree, HistoryOps, DeleteOps
    <3>2. history' = IF active = None THEN history ELSE [history EXCEPT ![call.run] = active]
      BY <1>2, <2>4 DEF Effect, Upload, ToHistory, Promote
    <3>3. ASSUME NEW c \in kept PROVE \E r \in Runs : history'[r] = c
      <4>1. c # None
        BY <3>3 DEF RecordedIsKnown
      <4>2. CASE active = c
        BY <1>t, <3>2, <4>1, <4>2
      <4>3. CASE \E r \in Runs : history[r] = c
        <5>1. PICK r \in Runs : history[r] = c
          BY <4>3
        <5>2. history'[r] = c
          BY <1>t, <3>1, <3>2, <4>1, <5>1
        <5>3. QED BY <5>2
      <4>4. QED BY <3>3, <4>2, <4>3 DEF OverwrittenKept
    <3>4. QED BY <2>1, <3>3 DEF OverwrittenKept
  <2>5. CASE call.op = "promoteBatch"
    <3>1. history' = history /\ (active # None => active' = active)
      BY <1>2, <2>5 DEF Effect, Upload, ToHistory, Promote, PromotedOnce, PromoteOps
    <3>2. QED BY <2>1, <3>1 DEF OverwrittenKept, RecordedIsKnown
  <2>6. QED BY <2>1, <2>2, <2>3, <2>4, <2>5 DEF QuickOps
<1>3. QED
  BY <1>1, <1>2 DEF Next, vars, remote, worker, Write, Remove, Notify, PlanDirty, PlanFull,
       StartRepair, StartUpload, StartDelete, Finish, ReturnOk, RecordBackedUp, ReturnError,
       AbortRun, Stop

\* With quick passes and no errors, pauses and crashes wherever they fall,
\* every content that was once the recorded backup is the active copy or in
\* history: what is overwritten or deleted is preserved.
THEOREM NothingOverwrittenIsLost ==
  ASSUME QuickOnly
  PROVE  Spec => []OverwrittenKept
<1>1. Init => Quick /\ OverwrittenKept
  BY QuickInit DEF Init, OverwrittenKept
<1>2. Quick /\ OverwrittenKept /\ [Next]_vars => (Quick /\ OverwrittenKept)'
  BY QuickStep, OverwrittenKeptStep
<1>3. QED BY <1>1, <1>2, PTL DEF Spec

\* Under the same conditions no change of the local file hides behind an
\* entry that says backed up.
THEOREM ChangesAreSeen ==
  ASSUME QuickOnly
  PROVE  Spec => []FullScanFindsChanges
<1>1. Quick => FullScanFindsChanges
  BY DEF Quick, RecordIsTrue, FullScanFindsChanges, HasChanged, QuickCalls
<1>2. Quick /\ [Next]_vars => Quick'
  BY QuickStep
<1>3. QED BY <1>1, <1>2, QuickInit, PTL DEF Spec
=============================================================================
