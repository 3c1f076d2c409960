----------------------------- MODULE VmBatches -----------------------------
(***************************************************************************)
(* VM Protect, version 2: the agent in a virtual machine                   *)
(* (main/vmProtectAgentV2.js, a PowerShell script) hands batches of        *)
(* changed files to the receiver on the host (main/vmProtectV2.js), which  *)
(* stages them in one tree; main/ipc.js marks what was staged for backup.  *)
(*                                                                         *)
(* One guest.  Contents are numbers, 0 for a file that is not there.  A    *)
(* large file is two chunks, the others travel in one bundle.  An answer   *)
(* can be lost after every request, which is also how a restart of the     *)
(* agent looks: its state file holds all but the phase.  The host may      *)
(* crash between any two of its steps, and any of its file operations may  *)
(* fail, which ends the request.                                           *)
(*                                                                         *)
(* A commit is taken to answer within the 120 s for which the agent waits; *)
(* two commits of one batch do not overlap.                                *)
(***************************************************************************)
EXTENDS Naturals, FiniteSets, FiniteSetsExt

CONSTANTS VmFiles,      \* in the order in which the agent lists them
          Large,        \* those that travel in chunks
          MaxContent,   \* contents of a file
          MaxChanges,   \* bound: changes in the virtual machine, failed scans
          MaxCrashes,   \* bound: crashes of the host, file operations of it that fail
          MaxRepairs,   \* bound: runs of the agent with -Repair
          TreeLimit     \* files at which markVmTreeDirty stops (5000)

BatchesAssumption ==
  /\ VmFiles \subseteq Nat /\ IsFiniteSet(VmFiles) /\ Large \subseteq VmFiles
  /\ MaxContent \in Nat \ {0} /\ MaxChanges \in Nat /\ MaxCrashes \in Nat /\ MaxRepairs \in Nat
  /\ TreeLimit \in Nat

VARIABLES
  vm,          \* contents in the virtual machine
  known,       \* the agent's manifest: what it believes is staged
  listed,      \* the agent's pendingBatch: a content, 0 for a tombstone, Unlisted
  phase,       \* what the agent does
  missing,     \* the plan's missing files not sent yet
  offset,      \* the plan's chunkOffsets
  record,      \* the host's record of this batch: its status
  missingIds,  \* the record's missingIds
  bytes,       \* the record's files: chunks received, 2 for complete
  part,        \* chunks in the .part file of each large file
  uploads,     \* files whose .upload file exists
  held,        \* the host's manifest
  staged,      \* the tree "current" on the host
  commit,      \* the commit in progress: where it is, what is left, its manifest, and
               \* its changedPaths and deletedRelativePaths
  torn,        \* history: replaced in "current" by a commit that was cut short
  queued,      \* pendingVmBatchBackups: a timer, changed and deleted files
  dirty,       \* marked for backup
  backed,      \* what the backup has
  overlooked,  \* history: not marked when a commit broke off or the tree was compared
  up,          \* the receiver runs
  bounds       \* changes, crashes and repairs so far

vmVars     == <<vm>>
agentVars  == <<known, listed, phase, missing, offset>>
recordVars == <<record, missingIds, bytes, part, uploads>>
treeVars   == <<held, staged, commit, torn>>
backupVars == <<queued, dirty, backed, overlooked>>
vars       == <<vmVars, agentVars, recordVars, treeVars, backupVars, up, bounds>>

Gone     == 0
Unlisted == MaxContent + 1
Contents == 0 .. MaxContent
NoBatch  == [f \in VmFiles |-> Unlisted]
NoCommit == [at |-> "none", todo |-> {}, manifest |-> [f \in VmFiles |-> Gone],
             changed |-> {}, deleted |-> {}]
NoQueue  == [timer |-> FALSE, changed |-> {}, deleted |-> {}]
Zero     == [f \in VmFiles |-> 0]
Listed   == {f \in VmFiles : listed[f] # Unlisted}
Chunks(f) == IF f \in Large THEN 2 ELSE 1

TypeOK ==
  /\ vm \in [VmFiles -> Contents] /\ known \in [VmFiles -> Contents]
  /\ listed \in [VmFiles -> 0 .. Unlisted]
  /\ phase \in {"idle", "sending", "committing"}
  /\ missing \subseteq VmFiles /\ offset \in [VmFiles -> 0 .. 2]
  /\ record \in {"none", "prepared", "committed"} /\ missingIds \subseteq Listed
  /\ bytes \in [VmFiles -> 0 .. 2] /\ part \in [VmFiles -> 0 .. 1] /\ uploads \subseteq missingIds
  /\ held \in [VmFiles -> Contents] /\ staged \in [VmFiles -> Contents]
  /\ commit.at \in {"none", "files", "manifest", "record"}
  /\ commit.todo \subseteq Listed /\ commit.manifest \in [VmFiles -> Contents]
  /\ commit.changed \subseteq missingIds /\ commit.deleted \subseteq Listed
  /\ commit.at # "none" => (up /\ phase = "committing" /\ record = "prepared")
  /\ torn \subseteq VmFiles /\ overlooked \subseteq VmFiles /\ queued.timer \in BOOLEAN
  /\ queued.changed \subseteq VmFiles /\ queued.deleted \subseteq VmFiles /\ dirty \subseteq VmFiles
  /\ backed \in [VmFiles -> Contents] /\ up \in BOOLEAN
  /\ bounds \in [changes : 0 .. MaxChanges, crashes : 0 .. MaxCrashes, repairs : 0 .. MaxRepairs]

\* A guest that was just paired, or one whose files are all backed up.
Init ==
  /\ vm \in {Zero, [f \in VmFiles |-> 1]} /\ known = vm /\ listed = NoBatch
  /\ phase = "idle" /\ missing = {} /\ offset = Zero
  /\ record = "none" /\ missingIds = {} /\ bytes = Zero /\ part = Zero /\ uploads = {}
  /\ held = vm /\ staged = vm /\ commit = NoCommit /\ torn = {}
  /\ queued = NoQueue /\ dirty = {} /\ backed = vm /\ overlooked = {} /\ up = TRUE
  /\ bounds = [changes |-> 0, crashes |-> 0, repairs |-> 0]

-----------------------------------------------------------------------------
(* The agent. *)

\* A protected file is written, replaced or deleted.
Change ==
  /\ bounds.changes < MaxChanges
  /\ \E f \in VmFiles, c \in Contents : c # vm[f] /\ vm' = [vm EXCEPT ![f] = c]
  /\ bounds' = [bounds EXCEPT !.changes = @ + 1]
  /\ UNCHANGED <<agentVars, recordVars, treeVars, backupVars, up>>

\* Get-CurrentManifestMap: a root that cannot be read looks like an empty one.
Scan(seen) ==
  \/ seen = vm /\ UNCHANGED bounds
  \/ /\ seen = Zero /\ vm # Zero /\ bounds.changes < MaxChanges
     /\ bounds' = [bounds EXCEPT !.changes = @ + 1]

\* New-PendingBatch: the difference to the manifest, saved with the state.
NewPendingBatch ==
  /\ phase = "idle" /\ Listed = {}
  /\ \E seen \in {vm, Zero} :
       /\ Scan(seen)
       /\ listed' = [f \in VmFiles |-> IF seen[f] = known[f] THEN Unlisted ELSE seen[f]]
  /\ listed' # NoBatch
  /\ record' = "none" /\ missingIds' = {} /\ bytes' = Zero /\ part' = Zero /\ uploads' = {}
  /\ UNCHANGED <<vmVars, known, phase, missing, offset, treeVars, backupVars, up>>

\* Apply-CommittedBatch.
ApplyCommittedBatch ==
  /\ known' = [f \in VmFiles |-> IF f \in Listed THEN listed[f] ELSE known[f]]
  /\ listed' = NoBatch /\ phase' = "idle" /\ missing' = {} /\ offset' = Zero

\* The catch of Sync-PendingBatch, or a restart: the batch stays for a retry.
GiveUp == phase' = "idle" /\ missing' = {} /\ offset' = Zero /\ UNCHANGED <<known, listed>>

\* A request fails before the host acts on it: no connection, a receiver that
\* is busy with four uploads, a file that has changed or disappeared.
RequestFails ==
  /\ phase = "sending"
  /\ GiveUp
  /\ UNCHANGED <<vmVars, recordVars, treeVars, backupVars, up, bounds>>

\* The agent started with -Repair, while no other one runs.
Repair ==
  /\ phase = "idle" /\ bounds.repairs < MaxRepairs
  /\ known' = Zero /\ listed' = NoBatch
  /\ record' = "none" /\ missingIds' = {} /\ bytes' = Zero /\ part' = Zero /\ uploads' = {}
  /\ bounds' = [bounds EXCEPT !.repairs = @ + 1]
  /\ UNCHANGED <<vmVars, phase, missing, offset, treeVars, backupVars, up>>

-----------------------------------------------------------------------------
(* The requests of a batch. *)

\* Mutant: a file of the manifest is taken to be in the tree.
StagedAlreadyByRecord(f) == held[f] = listed[f]

\* The content is in the host's manifest, and there is a file.
StagedAlready(f) == held[f] = listed[f] /\ staged[f] # Gone

\* The prepare handler: a known batch is answered from its record.
Prepare ==
  /\ phase = "idle" /\ Listed # {} /\ up
  /\ record' = (IF record = "none" THEN "prepared" ELSE record)
  /\ missingIds' = IF record = "none"
                   THEN {f \in Listed : listed[f] # Gone /\ ~StagedAlready(f)} ELSE missingIds
  /\ \/ GiveUp
     \/ /\ record # "committed"
        /\ phase' = "sending" /\ offset' = bytes
        /\ missing' = {f \in missingIds' : bytes[f] < Chunks(f)}
        /\ UNCHANGED <<known, listed>>
     \/ record = "committed" /\ ApplyCommittedBatch
  /\ UNCHANGED <<vmVars, bytes, part, uploads, treeVars, backupVars, up, bounds>>

\* Send-SmallBundle sends nothing unless every file is still the one listed;
\* a crash may leave the files without their entry in the record.
SendBundle ==
  LET small == missing \ Large IN
  /\ phase = "sending" /\ up /\ small # {} /\ \A f \in small : vm[f] = listed[f]
  /\ record = "prepared"
  /\ uploads' = uploads \cup small
  /\ bytes' = [f \in VmFiles |-> IF f \in small THEN 1 ELSE bytes[f]]
  /\ \/ missing' = missing \ small /\ UNCHANGED <<known, listed, phase, offset>>
     \/ GiveUp
  /\ UNCHANGED <<vmVars, record, missingIds, part, treeVars, backupVars, up, bounds>>

\* Send-LargeFile and the chunk handler.  The agent checks the content once, the
\* host after the last chunk: what differs then is deleted, the record is not.
SendChunk(f) ==
  /\ phase = "sending" /\ up /\ missing \subseteq Large /\ f \in missing
  /\ record = "prepared"
  /\ offset[f] > 0 \/ vm[f] = listed[f]
  /\ \/ \* The receiver has less than the record says.
        /\ offset[f] > part[f]
        /\ GiveUp /\ UNCHANGED <<bytes, part, uploads>>
     \/ \* The receiver has more than the record said: it answers where to go on.
        /\ offset[f] < part[f]
        /\ offset' = [offset EXCEPT ![f] = part[f]]
        /\ UNCHANGED <<known, listed, phase, missing, bytes, part, uploads>>
     \/ /\ offset[f] = part[f] /\ part[f] + 1 < Chunks(f)
        /\ part' = [part EXCEPT ![f] = @ + 1]
        /\ bytes' = [bytes EXCEPT ![f] = part[f] + 1]
        /\ \/ offset' = [offset EXCEPT ![f] = @ + 1] /\ UNCHANGED <<known, listed, phase, missing>>
           \/ GiveUp
        /\ UNCHANGED uploads
     \/ /\ offset[f] = part[f] /\ part[f] + 1 = Chunks(f)
        /\ part' = [part EXCEPT ![f] = 0]
        /\ \/ /\ vm[f] = listed[f]
              /\ uploads' = uploads \cup {f} /\ bytes' = [bytes EXCEPT ![f] = Chunks(f)]
              /\ \/ missing' = missing \ {f} /\ UNCHANGED <<known, listed, phase, offset>>
                 \/ GiveUp
           \/ /\ vm[f] # listed[f]
              /\ GiveUp /\ UNCHANGED <<uploads, bytes>>
  /\ UNCHANGED <<vmVars, record, missingIds, treeVars, backupVars, up, bounds>>

\* What a handler leaves of a chunk when it ends before the record is saved.
HalfReceived ==
  \/ UNCHANGED <<part, uploads>>
  \/ \E f \in missing \cap Large :
       /\ part[f] = 1 /\ vm[f] = listed[f]
       /\ part' = [part EXCEPT ![f] = 0]
       /\ uploads' = uploads \cup {f}
  \/ \E f \in missing \cap Large :
       /\ part[f] = 0 /\ vm[f] = listed[f] /\ Chunks(f) > 1
       /\ part' = [part EXCEPT ![f] = 1]
       /\ UNCHANGED uploads

\* A file operation of the receiver fails: the request ends with an error.
ReceiverFails ==
  /\ phase = "sending" /\ up /\ bounds.crashes < MaxCrashes
  /\ bounds' = [bounds EXCEPT !.crashes = @ + 1]
  /\ HalfReceived /\ GiveUp
  /\ UNCHANGED <<vmVars, record, missingIds, bytes, treeVars, backupVars, up>>

-----------------------------------------------------------------------------
(* The commit handler. *)

Commit ==
  /\ phase = "sending" /\ up /\ missing = {}
  /\ record = "prepared" /\ \A f \in missingIds : bytes[f] = Chunks(f)
  /\ phase' = "committing"
  /\ commit' = [at |-> "files", todo |-> Listed, manifest |-> held, changed |-> {}, deleted |-> {}]
  /\ UNCHANGED <<vmVars, known, listed, missing, offset, recordVars, held, staged, torn,
                 backupVars, up, bounds>>

\* The order of the batch, the same in every retry: files as they were scanned,
\* then tombstones.
NextEntry(f) ==
  /\ commit.at = "files" /\ f \in commit.todo
  /\ LET files == {g \in commit.todo : listed[g] # Gone} IN
     f = Min(IF files # {} THEN files ELSE commit.todo)

CommitEntry(f) ==
  /\ NextEntry(f)
  /\ \/ /\ listed[f] = Gone
        /\ staged' = IF commit.manifest[f] # Gone THEN [staged EXCEPT ![f] = Gone] ELSE staged
        /\ UNCHANGED <<uploads, torn>>
     \/ /\ listed[f] # Gone /\ f \in missingIds /\ f \in uploads
        /\ staged' = [staged EXCEPT ![f] = listed[f]]
        /\ uploads' = uploads \ {f} /\ torn' = torn \ {f}
     \/ /\ listed[f] # Gone /\ f \notin missingIds
        /\ UNCHANGED <<staged, uploads, torn>>
  /\ commit' = [at |-> IF commit.todo = {f} THEN "manifest" ELSE "files",
                todo |-> commit.todo \ {f},
                manifest |-> [commit.manifest EXCEPT ![f] = listed[f]],
                changed |-> commit.changed \cup ({f} \cap missingIds),
                deleted |-> IF listed[f] = Gone /\ commit.manifest[f] # Gone
                            THEN commit.deleted \cup {f} ELSE commit.deleted]
  /\ UNCHANGED <<vmVars, agentVars, record, missingIds, bytes, part, held, backupVars, up, bounds>>

\* The file that the commit replaces is put out of the way; the new one is not there yet.
Displaced == \E f \in missingIds \cap uploads :
               NextEntry(f) /\ staged' = [staged EXCEPT ![f] = Gone]

\* The commit ends before its manifest or its record is saved.
CutShort ==
  /\ commit' = NoCommit /\ GiveUp
  /\ torn' = torn \cup {f \in missingIds : staged[f] = listed[f] /\ held[f] # listed[f]}

\* A file operation fails, at an entry or at a save: no event tells of the files that
\* were replaced.  In a retry the first of them is gone, and its rename fails again.
CommitFails ==
  /\ commit.at # "none"
  /\ \/ /\ \E f \in missingIds \ uploads : NextEntry(f)
        /\ UNCHANGED <<staged, bounds>>
     \/ /\ bounds.crashes < MaxCrashes
        /\ bounds' = [bounds EXCEPT !.crashes = @ + 1]
        /\ Displaced \/ UNCHANGED staged
  /\ CutShort
  /\ overlooked' = overlooked \cup commit.changed
  /\ UNCHANGED <<vmVars, recordVars, held, queued, dirty, backed, up>>

SaveManifest ==
  /\ commit.at = "manifest"
  /\ held' = commit.manifest
  /\ commit' = [commit EXCEPT !.at = "record"]
  /\ UNCHANGED <<vmVars, agentVars, recordVars, staged, torn, backupVars, up, bounds>>

\* queueVmBatchBackup: the batch joins what waits for the 2.5 s timer.
QueueBatch ==
  queued' = [timer |-> TRUE, changed |-> queued.changed \cup commit.changed,
             deleted |-> queued.deleted \cup commit.deleted]

\* The record says committed, the program is told, and so is the agent.  From here
\* on only the status of the record is read.
Committed ==
  /\ commit.at = "record"
  /\ record' = "committed" /\ missingIds' = {} /\ bytes' = Zero
  /\ commit' = NoCommit
  /\ QueueBatch
  /\ ApplyCommittedBatch \/ GiveUp
  /\ UNCHANGED <<vmVars, part, uploads, held, staged, torn, dirty, backed, overlooked, up, bounds>>

-----------------------------------------------------------------------------
(* The backup of what is staged. *)

\* Files of the tree whose manifest entry says something else.
Differing == {f \in VmFiles : staged[f] # Gone /\ staged[f] # backed[f]}

\* markVmTreeDirty: it walks the tree in one order, and stops after so many files.
InTree == {f \in VmFiles : staged[f] # Gone}
Walked == {f \in Differing : Cardinality({g \in InTree : g < f}) < TreeLimit}

\* registerVmUploadForBackup: paths that are gone by now are not marked, and when
\* none is the whole tree is compared.
RegisterForBackup ==
  LET told   == {f \in queued.changed : staged[f] # Gone} \cup queued.deleted
      marked == IF told = {} THEN Walked ELSE told IN
  /\ queued.timer
  /\ queued' = NoQueue
  /\ dirty' = dirty \cup marked /\ overlooked' = overlooked \ marked
  /\ UNCHANGED <<vmVars, agentVars, recordVars, treeVars, backed, up, bounds>>

\* A quick pass over the marked files.
BackUp ==
  /\ dirty # {}
  /\ backed' = [f \in VmFiles |-> IF f \in dirty THEN staged[f] ELSE backed[f]]
  /\ dirty' = {}
  /\ UNCHANGED <<vmVars, agentVars, recordVars, treeVars, queued, overlooked, up, bounds>>

\* The program ends at any point.  The .upload and .part files and the records
\* stay, and so does what one handler has done: a file with no entry yet.
Crash ==
  /\ up /\ bounds.crashes < MaxCrashes
  /\ bounds' = [bounds EXCEPT !.crashes = @ + 1]
  /\ up' = FALSE
  /\ IF commit.at # "none" THEN CutShort /\ (Displaced \/ UNCHANGED staged)
     ELSE GiveUp /\ UNCHANGED <<commit, torn, staged>>
  /\ queued' = NoQueue /\ dirty' = {}
  /\ HalfReceived
  /\ UNCHANGED <<vmVars, record, missingIds, bytes, held, backed, overlooked>>

\* Mutant: a source that is registered is not looked through.
ReconciledNothing == {}

\* reconcileVmProtectBackupSources.
Reconciled == Walked

\* The receiver starts with the program, since there is a guest.
Start ==
  /\ ~up
  /\ up' = TRUE
  /\ dirty' = dirty \cup Reconciled /\ overlooked' = Differing \ Walked
  /\ UNCHANGED <<vmVars, agentVars, recordVars, treeVars, queued, backed, bounds>>

SyncPendingBatch ==
  \/ Prepare \/ SendBundle \/ Commit \/ \E f \in VmFiles : SendChunk(f)

HandleCommit == SaveManifest \/ Committed \/ CommitFails \/ \E f \in VmFiles : CommitEntry(f)

Next ==
  \/ Change \/ NewPendingBatch \/ RequestFails \/ ReceiverFails \/ Repair
  \/ SyncPendingBatch \/ HandleCommit
  \/ RegisterForBackup \/ BackUp
  \/ Crash \/ Start

\* The host comes back, its timers run, its handlers end.
Fairness == WF_vars(Start) /\ WF_vars(RegisterForBackup) /\ WF_vars(BackUp) /\ WF_vars(HandleCommit)

Spec == Init /\ [][Next]_vars /\ Fairness

-----------------------------------------------------------------------------

\* When the agent has nothing to send, every file it believes staged is staged
\* with that content, whatever answers were lost and batches retried.  Except a
\* file that a commit which a crash or an error cut short has left replaced in the
\* tree and not in the host's manifest: after -Repair it may be taken for the old one.
KnownIsStaged ==
  Listed = {} => \A f \in VmFiles \ torn : known[f] # Gone => staged[f] = known[f]

\* Again and again all that is staged is also in the backup, over every crash of
\* the host: what a lost timer or a lost mark forgot is found again.  Except what
\* nothing was told of: files that a commit replaced before an error ended it, until
\* the program starts again, and files past the limit of markVmTreeDirty.
StagedGetsBackedUp == []<>(Differing \subseteq overlooked)
=============================================================================
