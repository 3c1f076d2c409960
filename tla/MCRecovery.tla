----------------------------- MODULE MCRecovery -----------------------------
(***************************************************************************)
(* Getting data back, and the vault it comes from: restore points, restore *)
(* jobs, the catalog of several PCs, further accounts, bundles of small    *)
(* files, the vault's drive, its web restore and the rclone processes; the *)
(* progress of a run, the explorer, the names of computers, the setup, the  *)
(* rows of the document with their summary, and the page of VM Protect.  In *)
(* the program they meet only in rows of the document and files of the     *)
(* vault, which each module has for itself: a behaviour moves one part,    *)
(* the others stay where they began, and a property of a part is evaluated *)
(* where that part moves.                                                  *)
(***************************************************************************)
EXTENDS Naturals, FiniteSets

CONSTANTS Files, MaxTime, VersionAge, DeletedAge, MinVersions, MaxVersions,
          Targets, FileCount, Ids, MaxRuns, Slots, Restarts,
          Machines, HostNames, MaxUserActions,
          Main, Accounts, MaxBackups, UserResumes,
          MaxMounts, Overlaps, MaxServers, Downloads, Runs, Limits, MaxEvents,
          PackMembers, MaxContent, MaxPacks, Failures, Unsettled,
          Planned, RunFolders, WorkKinds, RunFaults,
          Stored, InSub, Unread, MaxOpens, MaxStores, Impatient,
          Labels, NoLabel, MaxNamings, MaxSyncs, NameHabits,
          Places, SystemPlaces, Inside, Outer, SetupFaults, MaxSteps,
          LocalPaths, RowNames, MaxFolders, KeptPoints, MaxMoves, RecordHabits,
          Invites, Questions, MaxChanges, MaxMessages, Vms, MaxPower

VARIABLES part,
          now, entry, points, expired, moved, past, lost, unrecorded,
          record, running, job, runs, restored, pit, packed, disk,
          host, names, folders, aligning, catalog, tree, userActions,
          active, dest, accounts, backup, backed, transfer, resumeAfter, paused,
          process, serving, settled, timer, activeMount, letter, roots, mountStatus, view, letters,
          run, monitor, applied, smart, bwlimit, idle, events,
          web, webServer, taken, download, killable, share, handle, shown,
          local, newest, inTree, entries, bundles, vault, packing, plan, phase, kept,
          runPhase, folder, todo, sent, counters, outcome, scanErrors, ended, stats, overall,
          stored, bundled, enabled, entriesOf, directCache, packedCache, inflight, asked,
          answers, explorer, deleting, gone, opens, stores,
          localName, remoteName, panelName, syncs, publishing, lastGiven, namings, rounds,
          drive, key, complete, chosen, off, pausedSetting, scheduling, watched, starting,
          restoring, setup, step, mode, connected, authStarted, picks, listed, adding, added,
          saving, reading, joined, signIns, refreshes, steps,
          docFolders, manifest, docPoints, working, stopped, whole, revision, summaryCache,
          summaryJob, given, moves,
          receiver, invited, guests, heard, wall, rule, helperAt, unwritten,
          staged, backing, failing, safe, behind, wire, turn, sentAt, unsaidAt, op, held, page, shownAt,
          power, locked, guarded, inventory, usual, search, during, switches

pointsVars   == <<now, entry, points, expired, moved, past, lost, unrecorded>>
jobsVars     == <<record, running, job, runs, restored, pit, packed, disk>>
catalogVars  == <<host, names, folders, aligning, catalog, tree, userActions>>
replicasVars == <<active, dest, accounts, backup, backed, transfer, resumeAfter, paused>>
mountVars    == <<process, serving, settled, timer, activeMount, letter, roots, mountStatus, view, letters>>
rcloneVars   == <<run, monitor, applied, smart, bwlimit, idle, events>>
serverVars   == <<web, webServer, taken, download, killable, share, handle, shown>>
packVars     == <<local, newest, inTree, entries, bundles, vault, packing, plan, phase, kept>>
progressVars == <<runPhase, folder, todo, sent, counters, outcome, scanErrors, ended, stats, overall>>
explorerVars == <<stored, bundled, enabled, entriesOf, directCache, packedCache, inflight, asked,
                  answers, explorer, deleting, gone, opens, stores>>
aliasVars    == <<localName, remoteName, panelName, syncs, publishing, lastGiven, namings, rounds>>
setupVars    == <<drive, key, complete, chosen, off, pausedSetting, scheduling, watched, starting,
                  restoring, setup, step, mode, connected, authStarted, picks, listed, adding, added,
                  saving, reading, joined, signIns, refreshes, steps>>
recordVars   == <<docFolders, manifest, docPoints, working, stopped, whole, revision,
                  summaryCache, summaryJob, given, moves>>
consoleVars  == <<receiver, invited, guests, heard, wall, rule, helperAt, unwritten,
                  staged, backing, failing, safe, behind, wire, turn, sentAt, unsaidAt, op, held,
                  page, shownAt>>
searchVars   == <<power, locked, guarded, inventory, usual, search, during, switches>>
panelVars    == <<progressVars, explorerVars, aliasVars, setupVars, recordVars, consoleVars, searchVars>>
wayVars      == <<mountVars, rcloneVars, serverVars>>
vars == <<part, pointsVars, jobsVars, catalogVars, replicasVars, wayVars, packVars,
          panelVars>>

P == INSTANCE RestorePoints
J == INSTANCE RestoreJobs
C == INSTANCE RestoreCatalog WITH MaxCommands <- MaxUserActions, commands <- userActions
R == INSTANCE VaultReplicas WITH held <- accounts
Drive     == INSTANCE VaultMounts WITH active <- activeMount
Processes == INSTANCE RcloneProcesses
Packed    == INSTANCE PackedFiles WITH Files <- PackMembers, active <- inTree
Progress == INSTANCE RunProgress WITH Folders <- RunFolders, phase <- runPhase, shown <- overall
Explorer == INSTANCE VaultExplorer WITH tree <- stored
Setup == INSTANCE BackupSetup
Rows == INSTANCE FolderRecords WITH folders <- docFolders, restorePoints <- docPoints,
                                    Names <- RowNames
Console == INSTANCE VmConsole WITH listed <- inventory

ASSUME RecoveryAssumption ==
  /\ P!RetentionAssumption /\ J!JobsAssumption /\ C!CatalogAssumption
  /\ R!ReplicasAssumption
  /\ Drive!MountsAssumption /\ Processes!RunsAssumption /\ Processes!ServersAssumption
  /\ Packed!PacksAssumption /\ Progress!RunAssumption /\ Explorer!ExplorerAssumption
  /\ Setup!SetupAssumption /\ Rows!RecordsAssumption /\ Console!ConsoleAssumption

\* The parts that a behaviour does not move have one initial state.
Init ==
  /\ part \in {"points", "jobs", "catalog", "replicas", "drive", "rclone", "servers", "packs",
              "progress", "explorer", "names", "setup", "rows", "console", "search"}
  /\ P!Init /\ Drive!Init /\ Progress!Init /\ Explorer!AliasInit /\ Rows!RecordsInit
  /\ J!Init /\ (part # "jobs" => \A d \in Targets : \A n \in DOMAIN disk[d] : disk[d][n] = "none")
  /\ C!Init /\ (part # "catalog" => host = [p \in Machines |-> CHOOSE n \in HostNames : TRUE])
  /\ R!Init /\ (part # "replicas" => \A a \in DOMAIN accounts : accounts[a] = {} /\ ~paused)
  /\ Processes!Init /\ (part # "rclone" => ~smart)
  /\ Processes!ServerInit /\ (part # "servers" => taken = {})
  /\ Packed!Init /\ (part # "packs" => packing /\ vault = {})
  /\ Explorer!ExplorerInit /\ (part # "explorer" => stored = {} /\ enabled)
  /\ Setup!SetupInit /\ (part # "setup" => ~complete)
  /\ Console!ConsoleInit /\ (part # "console" => guests = {} /\ rule)
  /\ Console!SearchInit /\ (part # "search" => locked = {} /\ guarded = {} /\ inventory = {})

PointsNext ==
  part = "points" /\ P!Next
    /\ UNCHANGED <<part, jobsVars, catalogVars, replicasVars, wayVars, packVars, panelVars>>
JobsNext ==
  part = "jobs" /\ J!Next
    /\ UNCHANGED <<part, pointsVars, catalogVars, replicasVars, wayVars, packVars, panelVars>>
CatalogNext ==
  part = "catalog" /\ C!Next
    /\ UNCHANGED <<part, pointsVars, jobsVars, replicasVars, wayVars, packVars, panelVars>>
ReplicasNext ==
  part = "replicas" /\ R!Next
    /\ UNCHANGED <<part, pointsVars, jobsVars, catalogVars, wayVars, packVars, panelVars>>
vaultVars == <<part, pointsVars, jobsVars, catalogVars, replicasVars, packVars, panelVars>>
WayNext ==
  \/ part = "drive" /\ Drive!Next /\ UNCHANGED <<vaultVars, rcloneVars, serverVars>>
  \/ part = "rclone" /\ Processes!Next /\ UNCHANGED <<vaultVars, mountVars, serverVars>>
  \/ part = "servers" /\ Processes!ServerNext /\ UNCHANGED <<vaultVars, mountVars, rcloneVars>>
PacksNext ==
  part = "packs" /\ Packed!Next
    /\ UNCHANGED <<part, pointsVars, jobsVars, catalogVars, replicasVars, wayVars, panelVars>>
PanelNext ==
  /\ \/ /\ \/ part = "progress" /\ Progress!Next /\ UNCHANGED <<explorerVars, aliasVars, setupVars>>
           \/ part = "explorer" /\ Explorer!ExplorerStep /\ UNCHANGED <<progressVars, aliasVars, setupVars>>
           \/ part = "names" /\ Explorer!AliasStep /\ UNCHANGED <<progressVars, explorerVars, setupVars>>
           \/ part = "setup" /\ Setup!SetupStep /\ UNCHANGED <<progressVars, explorerVars, aliasVars>>
        /\ UNCHANGED <<recordVars, consoleVars, searchVars>>
     \/ /\ \/ part = "rows" /\ Rows!RecordsStep /\ UNCHANGED <<consoleVars, searchVars>>
           \/ part = "console" /\ Console!ConsoleStep /\ UNCHANGED <<recordVars, searchVars>>
           \/ part = "search" /\ Console!SearchStep /\ UNCHANGED <<recordVars, consoleVars>>
        /\ UNCHANGED <<progressVars, explorerVars, aliasVars, setupVars>>
  /\ UNCHANGED <<part, pointsVars, jobsVars, catalogVars, replicasVars, wayVars, packVars>>

Spec ==
  /\ Init
  /\ [][PointsNext \/ JobsNext \/ CatalogNext \/ ReplicasNext \/ WayNext
        \/ PacksNext \/ PanelNext]_vars

-----------------------------------------------------------------------------
(* The properties of the modules, by name. *)

\* The rows and settings that restores and vault accounts keep in the database,
\* and the processes around them, are what the code puts there.
TypesOK ==
  /\ part = "points" => P!TypeOK
  /\ part = "jobs" => J!TypeOK
  /\ part = "catalog" => C!TypeOK
  /\ part = "replicas" => R!TypeOK
  /\ part = "drive" => Drive!TypeOK
  /\ part = "rclone" => Processes!TypeOK
  /\ part = "servers" => Processes!ServerTypeOK
  /\ part = "packs" => Packed!TypeOK
  /\ part = "progress" => Progress!TypeOK
  /\ part \in {"explorer", "names"} => Explorer!TypeOK
  /\ part = "setup" => Setup!TypeOK
  /\ part = "rows" => Rows!RecordsTypeOK
  /\ part = "console" => Console!ConsoleTypeOK
  /\ part = "search" => Console!SearchTypeOK

\* See RestorePoints: a covered point restores each file as it was.
PointRestoresItsFiles == part = "points" => P!PointRestoresItsFiles

\* See RestorePoints: a plan names no copy that was moved away.  See PackedFiles: a bundle
\* that is named stays, and what was backed up in one can be got back.
PlannedIsKept ==
  /\ part = "points" => P!PlannedIsKept
  /\ part = "packs" => Packed!PacksKept

\* See RestoreJobs: what was started is offered until it is complete.
OfferedUntilRestored == part = "jobs" => J!OfferedUntilRestored

\* See RestoreJobs: a restore leaves the user's files alone.
ExistingKept == J!ExistingKept

\* See RestoreCatalog: an import ends no backup of this PC.  See BackupSetup: a setup ends
\* with every folder that was picked.
OwnBackupsStay == C!OwnBackupsStay /\ Setup!PicksAreKept

\* See VaultReplicas: the active account has every backed-up file.  See RunProgress: no
\* item of a run is left behind or counted twice.  See BackupSetup: what is called set up
\* is whole, watched and scheduled.  See FolderRecords: the rows of a folder go together
\* and their summary counts them all.
NothingLeftBehind ==
  /\ part = "replicas" => R!NothingLeftBehind
  /\ part = "progress" => Progress!RunIsAccounted
  /\ part = "setup" => Setup!SetupHolds
  /\ part = "rows" => Rows!RecordsHold

\* See VaultMounts and RcloneProcesses: what the program has opened,
\* a drive, a server or a port, it knows as its own and can close.  See VaultExplorer:
\* what was opened there is what is shown, and a computer has the name given last.  See
\* VmConsole: the page shows the receiver as it is, and the machines that run.
OpenedIsOwned ==
  /\ part = "drive" => Drive!DriveIsOwned
  /\ part = "servers" => Processes!OpenIsKnown
  /\ part = "rclone" => Processes!PortsApart
  /\ part = "explorer" => Explorer!ExplorerKeeps
  /\ part = "names" => Explorer!NameIsKept
  /\ part = "console" => Console!ConsoleHolds
  /\ part = "search" => Console!SearchHolds
=============================================================================
