# LabSuite: specifications and proofs

LabSuite is an Electron program for Windows. Its core is an encrypted backup of
folders to Google Drive through rclone; around it are restore, a file server for
the local network, VM protection, Telegram archives, tables, screenshots, a crypto
portfolio, media control and smaller tools. This directory holds TLA+ models of it,
their TLC configurations and TLAPS proofs. Source files are named without the
directories `src/main/` and `src/renderer/apps/`.

    tlc -config Promises.cfg MCPromises.tla
    tlapm MCPromises_proofs.tla

## The system

One JavaScript thread runs the main process. Concurrency is what other code does
between two `await`s; around it are timers, `setImmediate`, file system events,
rclone and helper processes, other PCs and virtual machines, a renderer that asks
and is answered later, and the program ending at any time.

| Part | State it keeps | Operations | Talks to | What is hard |
|---|---|---|---|---|
| Backup worker (`backupWorker.js`) | `activeRun`, `dirtyFolders`, `timer`, `pausedRunRequest`, `resumeAfterStop` | start, coalesce, refuse, stop, drain, resume a run; carry a folder's plan out | planner, manifest, rclone, database, watcher, scheduler | pause and resume while a run unwinds; errors and crashes between an rclone effect and its record |
| Planner, manifest (`backupPlanner.js`, `backupManifest.js`) | per file: status, size, time, versions, repair paths | quick plan, full plan, records | worker, watcher, restore | the entry is read when planned and written after the upload |
| Watcher, scheduler (`watcher.js`, `scheduler.js`) | timers, watched paths | start, stop, event, tick | worker | events while stopped; the file is looked at after an await |
| Database (`database.js`) | one JSON document, `.bak`, temporary file, writer | load, mutate, save, flush | every part | a crash between file operations, mutations during a save |
| Retention and restore (`restorePlanner.js`, `packStore.js`, `ipc.js`) | versions, restore points, restore rows, bundles | purge, plan, restore, pack, compact | vault | a plan made before a purge, restarts and overlaps of restores |
| Accounts and PCs (`vaultDestinations.js`, `remoteCatalog.js`, `folderIdentity.js`, `aliases.js`) | accounts, names, catalogs | transfer, replicate, publish, import, rename | vault, other PCs | long operations on a vault others change |
| Vault access (`ipc.js`, `remoteSafety.js`, `keychain.js`) | remote, password, folders | sign in, set password, unify folders | rclone | a failure between two of the places that must agree |
| Network Drive (`lan*.js`, `LanPeerDrive.jsx`) | trust, server, queue | pair, serve, browse, transfer, drop | PCs | answers of closed servers, retries and cancels |
| VM Protect (`vmProtect*.js`, `vmDiscovery.js`, `VMProtect.jsx`) | guests, staging tree, invitations | pair, upload, commit, register, forget | guests, backup | lost answers, restarts of either side |
| Desktop tools | their own settings and files | see the modules | external programs and services | answers that arrive after the user has moved on |
| Panels, tray, start-up (`LabSuiteBackup.jsx`, `tray.js`, `index.js`, `ipc.js`) | what is shown | load, poll, command | everything | messages and answers out of order |

`PROJECT.json` lists the components one by one, with what is left out of each, and
the hazards the properties come from, each at its line.

## Modules

Each component has a module; an action is the code between two awaits, named as its
function where it has one. The modules carry operators commented "Mutant": each is a
plausible bug of the definition that follows it, and no specification uses them. A
property is kept only if one of them breaks it.

Three components have specifications of their own:

| Module | Models | Abstracts |
|---|---|---|
| `VersionedBackup` | the life of one file: local file, watcher notification, manifest entry, active, staging and history copies, the plan and the rclone call in flight | a content is a number, newest highest; a directory run id names staging and history |
| `BackupScheduling` | when runs happen: settings, folders, watcher, scheduler, worker, pause, drain, resume, reserved tasks, restart | the manifest is the set of folders with marks; a timer may fire at any step |
| `RestorePoints`, `RestoreJobs`, `DatabasePersistence` | also checked alone, with a property each that the code does not keep | |

The others are composed in three suites, `MCPromises`, `MCDesktop` and `MCRecovery`.
Their components share no state in the program, or only rows of the database and
files of the vault that each module has for itself, so a suite interleaves nothing:
the variable `part` says which component a behaviour moves, the others stay in their
initial state, and a property of a component is evaluated where it moves. Composing
what does interact happens inside a module (both ends of a transfer, host and guest,
worker and planner, page and receiver).

`MCPromises`, what was begun is finished:

| Module | Models |
|---|---|
| `LanTransfers` | the transfer queue, which is kept in memory only: jobs, conflicts, cancels, retries, peers that fall silent, answers that break off, verification |
| `VmBatches` | the agent in a VM and the receiver: batches, chunks, lost answers, commits, crashes, registration for backup |
| `DatabasePersistence` | loading with recovery, synchronous and asynchronous saves, flushes, crashes and power failures |
| `DurableStore` | what the database promises: nothing acknowledged is lost, what is durable never shrinks |
| `VaultAccess` | the password form over rclone, keychain and vault; the move of older cloud folders into one |

`MCRecovery`, getting data back:

| Module | Models |
|---|---|
| `RestorePoints` | versions, restore points, retention, plans of point-in-time restores |
| `RestoreJobs` | folder, point and packed restores, their rows across restarts, temporary names |
| `RestoreCatalog` | several PCs with one vault: names, publication, import |
| `VaultReplicas` | further accounts: transfer of the vault, replicas, replication after backups |
| `PackedFiles` | bundles of small files, compaction, migration to the tree |
| `VaultMounts`, `RcloneProcesses` | Disk Mount; transfers with their ports and limits, web restore, WebDAV share |
| `RunProgress` | the accounts of a run: every item of a plan, through batches, halves and single files |
| `VaultExplorer` | listings, caches and deletions of the vault; names of computers shared by all PCs |
| `BackupSetup` | the setup wizard, sign-in, folders, services, the panel's loads |
| `FolderRecords` | rows of folders, their manifests, restore points, and the summary counted in the background |
| `VmConsole` | the page of VM Protect, the receiver's messages, the search for machines |

`MCDesktop`, what the program does on its machine:

| Module | Models |
|---|---|
| `LanPeers` | discovery, the server's life, pairing and trust |
| `VmReceiver`, `VmHelper` | the receiver's life, invitations, first-protocol uploads and backup sources; the first protocol's helper script |
| `NetworkDrive` | browsing another PC's folders, dropping files and texts |
| `TelegramArchive` | archives of chats, backups of sessions |
| `SheetsEditor` | encrypted tables: edits, calls that answer later, recovery copies |
| `LabShotHistory` | captures, annotations, history, gallery, overlay windows |
| `PortfolioSync`, `PortfolioLedger` | where the portfolio is kept, prices and their histories; what is computed from them |
| `MediaWidget`, `MediaFlyout` | the LabMedia helper process and the YTmusic connection; what the helper shows and controls |
| `NetworkTools` | Restart Internet, Wake-on-LAN |
| `ShutdownAfterBackup`, `BackupPanel`, `TrayStatus` | the shutdown after a backup; what panel, icon and menu show of runs and of the Google account; the accounts in rclone.conf |
| `AppLifecycle` | start, windows, quit, updates |

The theorems are in `VersionedBackup_proofs`, `BackupScheduling_proofs`,
`MCPromises_proofs`, `MCDesktop_proofs`, and, for `MCRecovery`, in a chain of modules
that extend each other: `VaultParts_proofs` (lemmas about bundles, mounts, rclone's
processes and servers, the explorer and the names), `MCRecovery_proofs`,
`Panels_proofs` (runs and the page of VM Protect) and `FolderRecords_proofs`.

### VersionedBackup

`Write` and `Remove` are the user. `Notify` is the debounced watcher event: it
looks at the file when the timer fires and marks the entry. `PlanDirty` and
`PlanFull` are the two planners; `MarkMissingActiveCopy` the remote integrity
check before a full pass. `Start...` begin an item, in the order of
`runFolderBackup` (repairs, uploads, deletions). A call is in flight from its
start to `ReturnOk` or `ReturnError`; `Effect` is what rclone does to the remote,
and may come or not come before an error or a `Stop`. `ReturnOk` and `ReturnError`
are the worker's continuations: batch calls fall back to single-file calls, a
failed promotion is reconciled or recorded for repair, a vanished local file is
preserved as a deletion. `AbortRun` is an error of the whole batch. Packed files
are module `PackedFiles`.

### BackupScheduling

A run goes through "align" (device identity), "folders" and, folder by folder,
`PlanFolder` and `FinishFolder`; `Boundary` is `throwIfPauseBoundaryReached`.
`Interrupt`, `RunFails` and `Complete` are the three ways `runBackupInContext`
ends, each with its `catch` and `finally` in one step, since no await lies between.
A task is one of reconnecting Google Drive, transferring the vault, syncing a
replica: each saves `sync_paused`, sets it, awaits and restores it. `Restart` is
the program ending in any way and starting again.

### DatabasePersistence

A save is `Begin`, `Copy` (primary to `.bak`), `Write` (temporary file) and
`Rename`. During a synchronous save (`Blocked`) nothing else in the program runs,
but the program may end; during an asynchronous one mutations and flushes
interleave. `Check`, `NextPass` and `Leave` are the loop, the `then` and the
`finally` of `startAsyncWriter`. `LoadSaveFails` is the `catch` in `loadDatabase`.
A write batch saves once, at its end: it is one mutation.

## What TLC checks

Runs that pass:

| Run | Components and bounds | Shows |
|---|---|---|
| `versions_faults` | one file, 3 contents, 2 runs, both passes, all faults | `NewestKept`: the remote is never older than what the manifest once called backed up. `HistoryImmutable`: a version, once in history, stays as it is. `PromotionFindsNoActiveCopy`: a promotion never lands on a live copy. |
| `versions_quick` | 3 contents, 3 runs, quick passes, stops | `OverwrittenKept`: every content recorded as backed up stays active or in history. `FullScanFindsChanges`: no `backed_up` entry hides a difference. |
| `sched_safety` | 2 sources, apart or of one directory, 1 task, all commands, refusals, restarts, 1 change | `PausedRunIsStopping`, `InterruptedRequestWaitsPaused`, `DrainOnlyWhileRunning`. `AutomaticUnlessPaused`: watcher and scheduler are on unless paused, but for a shared directory and a cleared drain. |
| `sched_liveness` | 2 folders, pause, resume, run now, toggle, failing runs, 2 changes | `MarkedFolderIsPlanned`: a marked folder is planned in the end. |
| `promises` | 2 jobs of 3 kinds; 2 guest files, 1 large, 2 crashes or file operations of the host that fail; 3 mutations; 2 keys, 2 failing calls | `VerifiedIsWhole`, `JobsDoAsTold`, `QueueDrains` of the transfer queue; `KnownIsStaged`, `StagedGetsBackedUp` of VM batches; `QuietIsSaved`, `KeepsPromise` (the refinement of `DurableStore`), `StaysReadable`, `SavedOrReported` of the database; `ConfigAndKeyAgree`, `LayoutCompletes` of the vault's access. |
| `recovery` | 14 components, see `Recovery.cfg` | `PointRestoresItsFiles`, `PlannedIsKept`, `OfferedUntilRestored`, `ExistingKept`, `OwnBackupsStay`, `NothingLeftBehind`, `OpenedIsOwned`: one or more components each, named where `MCRecovery` defines them. |
| `desktop` | 30 parts of components, see `Desktop.cfg` | `AdvertisedIsServed`, `TrustNeedsConsent` of the Network Drive; `PairedIsServed`, `OneUploadPerGuest`, `ForgottenStaysForgotten` of VM Protect; `ShownAsSaved`, `ShownAsRunning` of everything that shows something: defined in `MCDesktop`. |

Each of them checks a type invariant as well (`TypeOK` or `TypesOK`), apart from
`versions_quick` and `sched_liveness`, whose modules the other run covers.

Runs that find a violation, each a disagreement between the code and what the
repository says of it (quoted in `PROJECT.json`):

| Run | Property | What the code does |
|---|---|---|
| `versions_full` | `OverwrittenKept` | a full pass uploads a file already marked dirty as if new, over its previous copy |
| `sched_drain` | `DrainOnlyWhileRunning` | a run that fails while drained leaves the drain on, which refuses every run |
| `db_load` | `FailureKeepsDocument` | a save that fails for a moment while loading ends in defaults over a readable database |
| `restore_points` | `PointIsExact` | a copy found missing and uploaded again drops out of every earlier restore point |
| `restore_whole` | `RestoredIsWhole` | a restore started again skips what its predecessor had half written, and is reported complete |

`OverwrittenKept` and `DrainOnlyWhileRunning` appear on both sides: they hold
without the one pass or fault that breaks them, which is the constant the two
configurations differ in.

### Bounds, and why they are enough

- `MaxContent`: three contents give an old, a recorded and a newer one, all that
  the properties compare. `MaxRun`: a batch and the single-file fallback of one item
  use one directory each; two or three let an interrupted run meet its successor.
- `Folders`: two, so that one is processed, removed or disabled while the other
  waits. `Directories`: the sources that may have one `local_path`; single files of one
  directory have. `MaxEvents`: two changes where a folder must be planned in the end, so
  that a mark comes during and after the pass that took the first; one in
  `sched_safety`, whose properties are about switches and not about marks. Pauses,
  resumes and tasks are not bounded.
- `MaxRevision`: three mutations, so that one is saved, one is being saved and one
  comes meanwhile.
- Two jobs, the first one `keepBoth` (`FirstStrategies`, to keep the run short): the
  second job overwrites, keeps or meets what the first left. Two tries of a job.
- Two of whatever overlaps: restores of one target, PCs, accounts, mounts, guests,
  pairing requests, tables, players. Eight moments in `RestorePoints` let a point become
  older than the age of versions (4) and of deleted files (3).
- `TreeLimit` = 1 is the 5000 files that a mark of a staging tree looks at: two staged
  files are past it.
- Two crashes, restarts, lost answers or failing file operations at most: one to
  interrupt, one to interrupt the repair; where a module bounds its moves (`MaxMoves`,
  `MaxSteps`) the bound is beyond the shortest way to each of its mutants' violations.
- Deadlock is not checked: with the bounds used up, and no fault left to happen, the
  models stop.

### Habits left out

Some constants name a habit of the user, or a fault, under which a property does not
hold. The runs leave it out; giving the constant its other value lets TLC show the
behaviour, which is a known limit of the program.

| Constant, as in the runs | What it leaves out |
|---|---|
| `Together = FALSE` (`TelegramArchive`) | two chats exported at a time, each with its own view of what is archived |
| `Waits = TRUE` (`SheetsEditor`) | edits and calls while a table loads, saves or is deleted; the late answer replaces what is open |
| `Overlaps = FALSE` (`MediaWidget`) | the helper switched during a restart of it; a user's call beside another |
| `Overlaps = FALSE` (`VaultMounts`, `RcloneProcesses`) | a mount or server started while traces of an earlier one are left, whose listeners then act on the new record |
| `Careful = TRUE`, faults "abort" and "store", two handlers (`ShutdownAfterBackup`) | disarming while `shutdown.exe /s` is under way (a countdown comes all the same); arming under a drain that no run will end; a failed save of the settings, which leaves a pending shutdown |
| `Overlap = FALSE`, faults "locked" and "rm" (`TelegramArchive`) | two backups of a session in one temporary folder; a partial snapshot that counts as a success |
| `Hurried = FALSE` (`TrayStatus`) | accounts connected while the browser is open: a failed sign-in puts the whole old `rclone.conf` back; a pause of the user's is undone |
| `WholeRuns = TRUE`, fault "batch" (`BackupPanel`) | rows of a failing run that another folder's clean run completes |
| fault "install" (`AppLifecycle`) | an update that cannot be installed after the program has prepared to quit |
| `Blunders = {}`, `Simultaneous = FALSE` (`LabShotHistory`) | a shape right after a step mark, Ctrl+Z within a stroke; two handlers that read and write the history at a time |
| `Hasty = FALSE`, one `Unnamed` player (`MediaFlyout`) | an answer during a drag overwrites the slider and the old value is applied; a change applied to the next player; two unknown players under one name |
| `Slow = FALSE` (`MediaFlyout`) | a click whose second event comes after 350 ms opens what its first has closed |
| `SyncFaults = {}` (`PortfolioSync`) | failing and overtaken uploads, reads while a change is unsaved, two PCs in turns: each can lose a change |
| `Habits = {}` (`PortfolioLedger`) | backdated sales, edits of what a later sale needs, an import during an import |
| fault "rename", `Replaced = FALSE` (`VmHelper`) | a machine that stops between the two steps that replace a file; a new helper while the old one's watcher runs |
| `BrowseFaults = {}`, `SameSecond = FALSE` (`NetworkDrive`) | a PC that vanishes while it is asked; going on while something loads (a drives answer has no number); two texts of one second, which share a file name |
| `TrayHabits = {}` (`TrayStatus`) | a file that fails during a health check is redrawn as "Protected"; so is a restart while paused; account information of a removed account |
| failure "repack", `Unsettled = FALSE` (`PackedFiles`) | a packed previous version that is listed nowhere, so that its bundle is pruned |
| `UserResumes = FALSE` (`VaultReplicas`) | a backup during a transfer, whose files the transfer may not carry |
| `Impatient = FALSE`, `NameHabits = {}` (`VaultExplorer`) | a listing under way refills the cache after a deletion; a name given while names are synchronised is undone, a removed one comes back, an unreadable file is taken for an empty one |
| all faults but "password" (`BackupSetup`) | a keychain that fails leaves `setup_complete` at '1'; answers out of order; a scheduler that starts after the user has paused; going back in the wizard while its folders are added, and unlocking an existing vault instead |
| `RecordHabits = {}` (`FolderRecords`) | a folder enabled again without the overlap check; removed during its backup, which recreates its manifest; added where a selection is disabled, whose row it takes; paused after another folder was backed up, and marked paused itself |
| `NameLength = 2`, all the coins (`PortfolioSync`) | sets of coins whose cache files share a shortened name |

### Fairness

`BackupScheduling`: armed timers fire, `setImmediate` callbacks run, awaited calls
return, an event the watcher is looking at is marked (weak fairness). The scheduler's
interval is strongly fair: it is due again every few minutes and is skipped only
while a backup runs; a finished run leaves a 10 s debounce before the next.

`promises`: the queue starts the next job, and a transfer does its next step on this PC.
Nothing is assumed of the other PC: the requests of a transfer have no timeout
(`lanFileServer.js:801`), and an answer that breaks off half-way ends nothing
(`lanFileServer.js:773`), so a transfer may wait for ever (`Waits`) and
`QueueDrains` says what happens unless one does. The receiver finishes a commit it has begun, and the
main process, started again after a crash, registers and backs up what was staged; the
agent in the guest, which the `HKCU` Run key starts at every logon, owes nothing; the
writer's file operations end and its timers fire; the program is started again, and a
form or a move of folders once begun goes on. Nothing is assumed of other user actions,
and nothing of failing calls but that the bounds end them. The other specifications
state no liveness.

## What is proved

TLAPS proves, for all values of the constants:

| Module | Theorem | Property |
|---|---|---|
| `VersionedBackup_proofs` | `TypeCorrect` | `TypeOK` |
| | `NewestIsKept` | `NewestKept` |
| | `HistoryIsImmutable` | `HistoryImmutable` |
| | `PromotionIsClean` | `PromotionFindsNoActiveCopy` |
| | `NothingOverwrittenIsLost` | `OverwrittenKept`, if `QuickOnly` |
| | `ChangesAreSeen` | `FullScanFindsChanges`, if `QuickOnly` |
| `BackupScheduling_proofs` | `TypeCorrect` | `TypeOK` |
| | `PauseStopsRuns` | `PausedRunIsStopping` |
| | `InterruptedRequestIsNotForgotten` | `InterruptedRequestWaitsPaused` |
| | `DrainEnds` | `DrainOnlyWhileRunning`, if no run fails |
| | `BackupsAreAutomatic` | `AutomaticUnlessPaused` |
| `MCPromises_proofs` | `TypeCorrect` | `TypesOK`, if `Reliable` |
| | `AttemptsRestore` | `ConfigAndKeyAgree` |
| | `QuietDatabaseIsSaved` | `QuietIsSaved`, if `Reliable` |
| | `DatabaseKeepsPromise` | `KeepsPromise`, if `Reliable` |
| | `ReadableAtEveryInstant` | `StaysReadable`, if `Reliable` |
| | `KnownFilesAreStaged` | `KnownIsStaged` |
| | `JobsDoWhatTheyWereTold` | `JobsDoAsTold` |
| | `VerifiedJobsAreWhole` | `VerifiedIsWhole`, if no job skips |
| `MCDesktop_proofs` | `BroadcastIsServed` | `AdvertisedIsServed` |
| | `TrustIsConsented` | `TrustNeedsConsent` |
| | `PairedMachinesAreServed` | `PairedIsServed` |
| | `UploadsAreOneAtATime` | `OneUploadPerGuest` |
| | `ForgottenIsForgotten` | `ForgottenStaysForgotten` |
| `MCRecovery_proofs` | `StartedIsOffered` | `OfferedUntilRestored` |
| | `UserFilesAreLeft` | `ExistingKept` |
| | `CoveredPointIsRestored` | `PointRestoresItsFiles` |
| | `PlansAreKept` | `PlannedIsKept`, if `"repack" \notin Failures /\ ~Unsettled` |
| | `OwnBackupsAreKept` | `OwnBackupsStay`, if `"back" \notin SetupFaults` |
| `Panels_proofs` | `OpenedIsOwnedAlways` | `OpenedIsOwned`, if `~Overlaps`, `~Impatient` and `NameHabits = {}` |
| `FolderRecords_proofs` | `NothingIsLeftBehind` | `NothingLeftBehind`, if `~UserResumes`, `SetupFaults \subseteq {"password"}` and `RecordHabits = {}` |

The assumptions are those named in the modules (bounds are natural numbers, the sets
of passes, commands and faults are the ones the module knows) and these hypotheses:

- `QuickOnly`: only quick passes, and no rclone errors. `versions_full` shows what a
  full pass does; with errors the reconciliation of a failed promotion accepts
  whatever active copy it finds.
- no run fails (`"error" \notin Faults`): `sched_drain` shows it is needed.
- `Reliable`: not both a sync to disk that fails unseen ("fsync") and a power failure,
  which lose what was called durable; and not both a load that fails and a save that
  fails for a moment ("load", "transient"), after which a crash replaces the file by
  less. The second is more than is needed: it takes a crash as well.
- no job skips (`"skip" \notin Strategies`): a skipped file is reported with the rest.
- no run repacks after a bundle that failed and no full scan meets an entry that waits
  (`PlansAreKept`): with either the program may drop the record of a packed version,
  whose bundle is then pruned; see *Habits left out*.
- the three hypotheses of `NothingIsLeftBehind` are one for each of three of its parts
  and hold in the run; `RunProgress` needs none, whatever `RunFaults` has. What they keep
  out, and what the program then loses, is in *Habits left out*.
- no drive or server is opened while another is going down, nobody goes on while an item
  is deleted, no name is given while names are synchronised (`OpenedIsOwnedAlways`);
  see *Habits left out*.
- nobody goes back in the wizard while its folders are added (`OwnBackupsAreKept`): with
  `"back"` in `SetupFaults` and nine steps of the user TLC finds a setup completed by
  the password of the other mode while folders are missing.

Some properties name exceptions, each a step of the code that the model takes and that
does lose something:

- `AutomaticUnlessPaused`: a source whose directory lost its watcher because another
  source of it was disabled or removed (`watcher.js:199`); a drain asked for after Pause
  and Resume while the stopped run unwinds, whose end clears the drain and leaves watcher
  and scheduler off (`backupWorker.js:414`).
- `PointRestoresItsFiles`: moments whose content nothing kept (`lost`): a copy found
  missing and uploaded again, a file that a full pass met while it was marked dirty
  (`backupPlanner.js:67`), or a version list that is full.
- `PlannedIsKept`: only points that retention no longer covers plan a copy that is gone,
  and only one that a purge has moved and not recorded (`unrecorded`), because it was
  stopped, failed or ended between the moves and the record (`backupWorker.js:2242`).
- `NothingLeftBehind` of runs: an item whose file vanished and whose deletion could not be
  preserved (dropped, `backupWorker.js:1457`) and a failed one that the watcher marked
  before the folder ended (marked, `backupWorker.js:1219`).
- `KnownIsStaged` and `StagedGetsBackedUp`: files that a commit had replaced when a crash
  or a failing file operation ended it (`vmProtectV2.js:470`), and, of the second, files
  past the limit of `markVmTreeDirty` (`ipc.js:2747`).
- `QueueDrains`: a transfer that waits for the other PC for ever.

### How

Hardly any property is inductive alone; the invariants below were checked by TLC on
the runs' instances before they were proved. Each is preserved action by action.

**Versions.** `Safe` adds to the types: nothing is newer than the last content the
user wrote; no directory beyond `lastRun` has been used; while a call moves to
history, its slot is empty (which makes history immutable); while a call promotes,
there is no active copy until it has happened; a staged copy is no older than what it
would replace; a pass does not both repair and upload the file. `NewestKept` follows
from one lemma, `CopiesStayAsNew`: for every remote copy there is, after any step,
one at least as new. `Quick`, for quick passes, says what the manifest knows: what is
recorded is somewhere (`RecordedIsKnown`), what waits is marked (`PendingIsMarked`), a
call carries what was planned (`CarriedIsPlanned`), an entry says what there is
(`RecordIsTrue`), and nothing is recorded before it is done (`NothingForetold`).

**Scheduling.** A paused run is stopping only because Resume clears the pause and a
later Pause needs the run to be still marked: `Control` adds that a running worker
holds no interrupted request, and that a run told to stop while backups are on will
be resumed (`resumeAfterStop`). `Draining` (a drain implies a run and no pause) is
inductive on top of it, and `AutomaticUnlessPaused` on top of the types: only a pause
and a drain stop watcher and scheduler, and a drain that is not lost ends in a pause.
The lemmas follow the calls:
`RunBackupKeepsSafe`, `ResumeKeepsSafe`, `InterruptKeepsSafe`.

**Suites.** `OneMoves` and `ServersMove` say that a step of the suite is a step of one
component and leaves the others alone; the rest is about one component.

- *Vault access.* `FormRemembers`: inside the form the remote already has the new key,
  and the form knows what to put back where, unless it could not read the keychain or
  putting back failed, after which the two are `torn`.
- *Database.* `FilesFirm` (what is firm on disk is readable and no newer than memory),
  `WriterShape` (which file an asynchronous save has touched at which step),
  `DocsOrdered` (the `.bak` is no newer than the primary, nor that than memory),
  `RevisionsCount`, `WaitersWait`. The refinement maps the durable part of
  `DurableStore` to what recovery would find; each step of a save maps to a stutter,
  and its rename to the step that makes more durable.
- *VM batches.* Files are taken in order, so that a batch that is tried again fails at
  its first file or finds the rest as it left it (`TakenInOrder`); what is staged is
  what the agent has noted (`TreeMatches`), apart from files torn by a crash or by a commit
  that failed half-way.
- *Transfers.* A folder that a job opened is empty beyond what the job put there, and
  what a job has copied is whole (`WholeSoFar`).
- *Peers.* `ServedInv`: a server that is known is listened on, and a start that still
  looks for a port advertises nothing. `PairingInit` and `PairingStep`: a request that
  is made again gets another number, so an old answer fits no new request.
- *Receiver.* `ServesInv`: who stops the receiver starts it again or was told to stop.
  `UploadsInv`: a lock is missing only for a guest that may not upload, and the count
  of uploads is their number. `ForgottenInv`: registration does not ask whether a
  machine is still paired; nothing is underway that keeps it out.
- *Restore jobs.* `JobsInv`: a job opens only names it has still to write, and none of
  these is a file of the user at its target; so neither a rename onto a name nor the
  removal of a temporary name after a failure meets one.
- *Restore points.* `PlansArePast` says that the copy chosen for a covered time is what
  was there at that time. It is not inductive: a record, a deletion or a purge changes
  the list that is searched. `EntryInv` adds that the versions of an entry are of
  different moments, none later than its copy or its deletion. The proof turns on
  `Chosen`: the oldest version after a time is chosen, and `ModifiedEntryStays`,
  `DeletedEntryStays`, `PurgedEntryStays` and the like show that no record moves the
  choice for an earlier time while it is covered. A purge moves copies one by one and
  records afterwards; `PointsInv` says that what it has moved is what it may move, since
  it looks at the clock once. `CopiesInv` adds that no copy is recorded twice, in one
  entry or two, and that a moved copy which is still recorded is one the purge has not
  recorded and too old for any covered time; a plan of a covered point then names no
  other.
- *Packs.* `PacksInv`, file by file: everything `kept` of a file is held by its entry or
  by a version of it; a packed one lies in a bundle that exists and was made with that
  content; an item of a plan carries what its entry said. `FileHolds` joins these, so
  that each operation has one lemma about a file and one about the state.
- *Catalog and setup.* `CatalogInv`: every row has the shape an import relies on when it
  keeps `enabled` of this PC's own row. `PicksInv`: while folders are added the wizard
  is in its last step, where no password is being saved and nothing is removed, and
  the folders counted as added are backed up. `SetupInv` adds what the panel knows: the
  answer it waits for last is to its last question (`AskedQuestion`, `AnsweredQuestion`),
  so that a setup it shows as done is the one that is saved.
- *Replicas.* `ReplicasInv`: a transfer runs beside no backup and under a pause, so the
  accounts that were compared are still alike when the target becomes the active one.
- *Runs.* `RunInv`: the tasks that wait have no item in common and are exactly the items
  still queued (`Divides`); a step takes the task at the head and leaves the rest of it,
  in one task or two halves, so nothing is settled twice and at the end of a folder
  nothing waits (`FoldersInv`). `CountsInv` and `RestInv` tie the sums the program keeps
  to the number of items with that outcome, `WorkInv` and `ShownFits` the progress of a
  command to what its task may still add.
  An item that is dropped, or marked after it failed, keeps an outcome of its own, so
  that the sums hold with them and the exceptions are as small as the property says.
- *Mounts, processes, servers.* `DriveInv`: one attempt at a time leaves traces, and the
  process that lives is the active one. `PortsInv`: a transfer that lives is registered
  with its port. `ServersInv`: one start of each server is under way, and what listens
  or serves is what the program holds.
- *Explorer and names.* `ExplorerInv`: no cache, listing or answer that is awaited has
  what was deleted and not stored again. `NamesInv`: the publish that is last in order,
  or the shared name when there is none, has the name given last.
- *Page of VM Protect.* `ConsoleInv`: a message, an answer or what the page shows carries
  the turn at which it was read, and is right if nothing has changed since (`Told`).
  `SearchInv`: a search knows of the machines what it has been told of those that ran
  while it went on.
- *Rows.* `PlacesInv`: ids are given once, and the entries of a manifest, the restore
  points and the worker have the place that the folder's row has. `WishesInv`: enabled
  rows of one place are selections without a common file; a paused row was stopped; a
  place backed up as a whole still has its row. The summary is counted in portions while
  rows change: `JobCounts` says that every entry is counted or still to be, and nothing
  else is, as long as the revision is the one the count began with; what was counted
  under another revision is never kept (`CacheInv`). Operations that change no place
  have one lemma in common (`AlikeKeeps`), those that change entries another
  (`EntriesHold`).

### Only model-checked

- Liveness, since the prover does not handle fairness: `MarkedFolderIsPlanned`,
  `QueueDrains`, `StagedGetsBackedUp`, `SavedOrReported`, `LayoutCompletes`.
- `TypesOK`, `ShownAsSaved`, `ShownAsRunning` of `MCDesktop` and `TypesOK` of
  `MCRecovery`: each joins the properties of many components, and its theorem needs the
  invariants of all of them.

## What is not modelled

- Of the modelled parts: exclusions and include lists, progress numbers, logs,
  wording, layout; the note of each component in `PROJECT.json` says the rest.
- A rename is atomic and durable. The incremental writer may mix two mutations in one
  snapshot; the model keeps what is certain, everything present when it began.
- Not at all: the legacy sync queue (nothing calls it), the network policy, the
  notepad, logger, notifier, autostart and shortcuts, the browser extension, the
  restore drill and the verifier, the local encryption scripts, the LabMedia queue and
  the YouTube library (only verification scripts load them), the hardware monitor.
  Each has its reason in `PROJECT.json`.

## Known limits of the program

Met while modelling, and left as they are in the models or excluded by a constant:

- *Backup.* The saved interval "0" is read as 15 minutes at every start and resume
  (`scheduler.js:119`), though the settings page calls it manual. The first of two
  overlapping tasks to end resumes backups under the other. `updateFolderSyncProgress`
  stores `progress.state || 'syncing'` (`database.js:1246`), so that a later pause
  (`backupWorker.js:116`) marks folders paused that were protected. A full pass
  uploads a file that came back and then moves the fresh copy to the deleted history.
  A user who toggles a folder skips the overlap check of adding it. Disabling or removing
  one of two single-file sources of a directory ends the watch of the other
  (`watcher.js:199`). A drain asked for while a stopped run unwinds is forgotten with
  watcher and scheduler off (`backupWorker.js:414`). An item dropped after a failed
  deletion, or marked by the watcher after it failed, does not keep its folder from
  being called protected (`backupWorker.js:1219`, `1457`).
- *VM Protect.* A batch stays stuck when a file changes after it was listed. Two
  commits of one batch are kept apart only by the agent's 120 s. A commit that fails
  half-way leaves replaced files that nothing marks for the backup before the next start,
  and that start marks 5000 files of a tree at most (`ipc.js:2747`). A source of a
  forgotten machine may come back with an upload underway. The page waits for
  discovery before it shows a state it already has, and shows a firewall state read
  before the elevation prompt.
- *Restore.* A full pass over a file already marked dirty overwrites its copy without a
  version, so earlier points lose it (`backupPlanner.js:67`). A purge broken off between
  moves and record leaves records of copies that are gone (`backupWorker.js:2242`). A
  folder id is `Date.now()` (`database.js:1053`): two folders of one
  millisecond share it. The panel's summary may be older than its request
  (`database.js:392`).
- *Panels.* A failed size query is cached for 30 minutes (`rclone.js:2214`); the
  overall progress starts again within a batch's stages; after a file fails, "Pause
  After Current Uploads" stays disabled; a disconnected account is shown for up to a
  minute.
- *Network Drive.* The queue stands while a transfer waits for a peer that is silent or
  whose answer broke off. Texts of one second overwrite each other (`lanFileServer.js:436`);
  replacing removes the old file before the new one is whole.

## Plan

Done: all components above, the theorems listed. What is left, most important first:

1. `ShownAsSaved` and `ShownAsRunning`, component by component.
2. `PlansAreKept` without its hypothesis, for the files that were never packed.
3. Weaker hypotheses: `Reliable` for the database, `QuickOnly` for versions.
