---------------------------- MODULE FolderRecords ----------------------------
(***************************************************************************)
(* The rows of src/main/database.js that all of LabSuite writes: the       *)
(* folders, the manifest of each, the restore points, and the summary of   *)
(* the manifests that the panel asks for.  The summary is counted in the   *)
(* background, with the rest of the program running between two portions   *)
(* of entries, and is kept until a row it was counted from changes.        *)
(*                                                                         *)
(* The user adds, reconnects, disables and removes folders, the watcher    *)
(* marks files, a backup of one folder at a time records what it did, and  *)
(* the explorer deletes what is in the vault.  A summary is modelled by    *)
(* the entries that it counted.  Entries that the reading of a portion     *)
(* meets while another handler changes them are counted or not.            *)
(*                                                                         *)
(* Bounds: MaxFolders ids are given, MaxMoves changes made, KeptPoints     *)
(* stands for the 500 points that are kept and a portion, 250 entries in   *)
(* the code, is one.                                                       *)
(***************************************************************************)
EXTENDS Naturals, Sequences, SequencesExt, FiniteSets

CONSTANTS
  LocalPaths,    \* directories of this PC
  Names,         \* relative paths of files
  MaxFolders, KeptPoints, MaxMoves,
  RecordHabits   \* "toggle": a folder is enabled again whatever is backed up meanwhile,
                 \* "midway": a folder is removed or reconnected while it is backed up,
                 \* "reuse": a whole folder is added where a selection in it is disabled,
                 \* "pauses": a pause comes when another folder was backed up before

RecordsAssumption == RecordHabits \subseteq {"toggle", "midway", "reuse", "pauses"}

VARIABLES
  folders,       \* data.folders
  manifest,      \* data.backup_manifest: per folder id its entries by name
  restorePoints, \* data.restore_points
  working,       \* the folder that the worker backs up, or Idle
  stopped,       \* the folders whose run a pause has stopped (history)
  whole,         \* the directories that the user wants backed up as a whole (history)
  revision, summaryCache, summaryJob,
  given,         \* ids given so far
  moves

rowVars     == <<folders, manifest, restorePoints>>
summaryVars == <<revision, summaryCache, summaryJob>>
vars        == <<rowVars, summaryVars, working, stopped, whole, given, moves>>

None  == [counted |-> {}, rows |-> {}, revision |-> 0, signature |-> {}, known |-> FALSE]
NoJob == [under |-> FALSE, rows |-> {}, counted |-> {}, revision |-> 0, signature |-> {},
          todo |-> <<>>, live |-> FALSE, at |-> 0, left |-> {}]
Idle  == [id |-> 0, root |-> "none"]

FolderIds == {folders[i].id : i \in DOMAIN folders}
Folder(id) == folders[CHOOSE i \in DOMAIN folders : folders[i].id = id]
Entries(m, id) == IF id \in DOMAIN m THEN m[id] ELSE <<>>

\* Every row of the folder, changed by Change.
Updated(id, Change(_)) ==
  [i \in DOMAIN folders |-> IF folders[i].id = id THEN Change(folders[i]) ELSE folders[i]]

RecordsInit ==
  /\ folders = <<>> /\ manifest = <<>> /\ restorePoints = <<>>
  /\ working = Idle /\ stopped = {} /\ whole = {} /\ given = 0 /\ moves = 0
  /\ revision = 0 /\ summaryCache = None /\ summaryJob = NoJob

Move == moves < MaxMoves /\ moves' = moves + 1

-----------------------------------------------------------------------------
(* The summary of the manifests. *)

\* What a count of all entries finds now: per folder its row and each entry's status.
Counted(id) == {<<id, n, manifest[id][n].status, manifest[id][n].kept>> :
                  n \in DOMAIN Entries(manifest, id)}
Summary ==
  [rows    |-> {<<folders[i].id, folders[i].path>> : i \in DOMAIN folders},
   counted |-> UNION {Counted(folders[i].id) : i \in DOMAIN folders}]

Signature == {<<folders[i].id, folders[i].path, folders[i].remote>> : i \in DOMAIN folders}

\* Mutant: only the cached summary is dropped.
DropsCache == summaryCache' = None /\ UNCHANGED revision

\* The cached summary is dropped, and one that is being counted will not be kept.
Invalidated == revision' = revision + 1 /\ summaryCache' = None
\* An added folder is met by the count that goes through the list, a list that is
\* replaced is not.
JobMeets(id) ==
  summaryJob' = IF summaryJob.live THEN [summaryJob EXCEPT !.todo = Append(@, id)] ELSE summaryJob
JobIsLeft == summaryJob' = [summaryJob EXCEPT !.live = FALSE]

CacheHolds ==
  summaryCache.known /\ summaryCache.revision = revision /\ summaryCache.signature = Signature

\* A request finds the cache stale and nobody counting; others join the count.
CountSummary ==
  /\ ~CacheHolds /\ ~summaryJob.under
  /\ summaryJob' = [under |-> TRUE, rows |-> {}, counted |-> {}, revision |-> revision,
                    signature |-> Signature, todo |-> [i \in DOMAIN folders |-> folders[i].id],
                    live |-> TRUE, at |-> 0, left |-> {}]
  /\ UNCHANGED <<rowVars, revision, summaryCache, working, stopped, whole, given, moves>>

\* The next folder in the list; one that is gone has no entries left.
CountFolder ==
  /\ summaryJob.under /\ summaryJob.left = {} /\ summaryJob.todo # <<>>
  /\ LET id == Head(summaryJob.todo) IN
     summaryJob' = [summaryJob EXCEPT
       !.todo = Tail(@), !.at = id, !.left = DOMAIN Entries(manifest, id),
       !.rows = IF id \in FolderIds THEN @ \cup {<<id, Folder(id).path>>} ELSE @]
  /\ UNCHANGED <<rowVars, revision, summaryCache, working, stopped, whole, given, moves>>
\* A portion of its entries, before the program's other handlers run.
CountEntries ==
  /\ summaryJob.under
  /\ \E n \in summaryJob.left :
       summaryJob' = [summaryJob EXCEPT
         !.left = @ \ {n},
         !.counted = IF n \in DOMAIN Entries(manifest, summaryJob.at)
                     THEN @ \cup {<<summaryJob.at, n, manifest[summaryJob.at][n].status,
                                    manifest[summaryJob.at][n].kept>>}
                     ELSE @]
  /\ UNCHANGED <<rowVars, revision, summaryCache, working, stopped, whole, given, moves>>

\* The count is given to whoever waits, and kept if nothing changed meanwhile.
SummaryCounted ==
  /\ summaryJob.under /\ summaryJob.left = {} /\ summaryJob.todo = <<>>
  /\ summaryCache' =
       IF summaryJob.revision = revision /\ summaryJob.signature = Signature
       THEN [known |-> TRUE, rows |-> summaryJob.rows, counted |-> summaryJob.counted,
             revision |-> revision, signature |-> Signature]
       ELSE summaryCache
  /\ summaryJob' = NoJob
  /\ UNCHANGED <<rowVars, revision, working, stopped, whole, given, moves>>

-----------------------------------------------------------------------------
(* Folders. *)

\* addFolder refuses what an enabled row of the same directory covers: only two
\* selections of different files stand side by side.
Registered(p, only) ==
  \E i \in DOMAIN folders :
    /\ folders[i].path = p /\ folders[i].on
    /\ folders[i].only = {} \/ only = {} \/ folders[i].only \cap only # {}

\* A whole folder is also refused next to a selection in it.
Covered(p, only) ==
  \E i \in DOMAIN folders :
    folders[i].path = p /\ folders[i].on
    /\ (only = {} \/ folders[i].only = {} \/ only \subseteq folders[i].only)

\* folders:add takes up the one disabled row of the directory (findReusableFolder).
Reusable(p) == {i \in DOMAIN folders : folders[i].path = p /\ ~folders[i].on}

\* folders:add and folders:addFile.  A whole folder begins as one that is queued.
AddRow(p, only) ==
  /\ given < MaxFolders /\ Move /\ given' = given + 1
  /\ ~Covered(p, only) /\ ~Registered(p, only)
  /\ only = {} => Cardinality(Reusable(p)) # 1
  /\ whole' = IF only = {} THEN whole \cup {p} ELSE whole
  /\ folders' = Append(folders, [id |-> given', path |-> p, remote |-> p, on |-> TRUE, only |-> only,
                                 state |-> IF only = {} THEN "syncing" ELSE "none"])
  /\ Invalidated /\ JobMeets(given')
  /\ UNCHANGED <<manifest, restorePoints, working, stopped>>

\* What the user no longer has backed up as a whole, of a row that goes or is disabled.
Given(id) == IF Folder(id).only = {} THEN {Folder(id).path} ELSE {}

\* Mutant: the paths stay where they were.
LeavesPath(root, old, new) == root

\* A path under the old root, under the new one.
Migrated(root, old, new) == IF root = old THEN new ELSE root

\* An entry without a path of its own gets one.
Moved(e, old, new) ==
  [e EXCEPT !.root = IF e.root = "none" THEN new ELSE Migrated(e.root, old, new)]

\* adoptFolder: row, entries and restore points move to the place p.
Adopt(id, p) ==
  LET old == Folder(id).path IN
  /\ folders' = Updated(id, LAMBDA f : [f EXCEPT !.path = p, !.on = TRUE])
  /\ manifest' = [i \in DOMAIN manifest |->
       IF i = id THEN [n \in DOMAIN manifest[i] |-> Moved(manifest[i][n], old, p)] ELSE manifest[i]]
  /\ restorePoints' = [i \in DOMAIN restorePoints |->
       IF restorePoints[i].folder = id THEN [restorePoints[i] EXCEPT !.path = p]
       ELSE restorePoints[i]]
  /\ Invalidated /\ UNCHANGED <<summaryJob, working, stopped, given>>

\* folders:reconnect.
Reconnect(id, p) ==
  /\ id \in FolderIds /\ p # Folder(id).path /\ Move
  /\ working.id = id => "midway" \in RecordHabits
  /\ ~\E i \in DOMAIN folders : folders[i].id # id /\ folders[i].on /\ folders[i].path = p
  /\ whole' = IF Folder(id).only = {} THEN (whole \ {Folder(id).path}) \cup {p} ELSE whole
  /\ Adopt(id, p)

\* folders:add of a directory with one disabled row, whose selection is left as it is.
AddAgain(p) ==
  /\ ~Covered(p, {}) /\ Cardinality(Reusable(p)) = 1 /\ Move
  /\ \E i \in Reusable(p) :
       /\ folders[i].only = {} \/ "reuse" \in RecordHabits
       /\ working.id = folders[i].id => "midway" \in RecordHabits
       /\ Adopt(folders[i].id, p)
  /\ whole' = whole \cup {p}

Without(m, id) == [i \in DOMAIN m \ {id} |-> m[i]]

\* The members of s that are kept, in their order.
Filtered(s, keep) ==
  {[i \in DOMAIN order |-> s[order[i]]] :
     order \in {o \in [1 .. Cardinality(keep) -> keep] :
                  /\ \A i, j \in DOMAIN o : i < j => o[i] < o[j]
                  /\ \A k \in keep : \E i \in DOMAIN o : o[i] = k}}

\* folders:remove: the row and its manifest go, its restore points stay.  A deletion of
\* its vault folder takes the points too.
RemoveRow(id, deleted) ==
  /\ id \in FolderIds /\ Move
  /\ working.id = id => "midway" \in RecordHabits
  /\ folders' \in Filtered(folders, {i \in DOMAIN folders : folders[i].id # id})
  /\ manifest' = Without(manifest, id)
  /\ restorePoints' \in Filtered(restorePoints,
       {i \in DOMAIN restorePoints : deleted => restorePoints[i].folder # id})
  /\ stopped' = stopped \ {id}
  /\ whole' = IF Folder(id).on THEN whole \ Given(id) ELSE whole
  /\ Invalidated /\ JobIsLeft /\ UNCHANGED <<working, given>>

\* folders:toggle: nothing that is counted changes.
Toggle(id) ==
  /\ id \in FolderIds /\ Move
  /\ ~Folder(id).on => ("toggle" \in RecordHabits \/ ~Covered(Folder(id).path, Folder(id).only))
  /\ folders' = Updated(id, LAMBDA f : [f EXCEPT !.on = ~@])
  /\ whole' = IF Folder(id).on THEN whole \ Given(id) ELSE whole \cup Given(id)
  /\ UNCHANGED <<manifest, restorePoints, summaryVars, working, stopped, given>>

-----------------------------------------------------------------------------
(* Entries of the manifests. *)

Entry(id, n) ==
  IF n \in DOMAIN Entries(manifest, id) THEN manifest[id][n]
  ELSE [status |-> "none", root |-> "none", kept |-> FALSE]

\* upsertManifestEntry makes the folder's manifest when there is none.
Upserted(id, n, e) ==
  [i \in DOMAIN manifest \cup {id} |->
     IF i # id THEN manifest[i]
     ELSE [x \in DOMAIN Entries(manifest, id) \cup {n} |->
             IF x = n THEN e ELSE manifest[id][x]]]

\* The watcher or a plan marks a changed file; a deleted one keeps its copies for the
\* history when it has some.
MarkDirty(id, n) ==
  /\ id \in FolderIds /\ Folder(id).on /\ Entry(id, n).status # "dirty" /\ Move
  /\ manifest' = Upserted(id, n, [Entry(id, n) EXCEPT !.status = "dirty"])
  /\ Invalidated /\ UNCHANGED <<folders, restorePoints, summaryJob, working, stopped, whole, given>>
MarkDeleted(id, n) ==
  /\ id \in FolderIds /\ Folder(id).on /\ Move
  /\ manifest' = Upserted(id, n, [Entry(id, n) EXCEPT
       !.status = IF Entry(id, n).kept THEN "deleted_pending_history" ELSE "deleted"])
  /\ Invalidated /\ UNCHANGED <<folders, restorePoints, summaryJob, working, stopped, given, whole>>

\* The explorer deleted a file of the vault: its entry is forgotten.
ForgetEntry(id, n) ==
  /\ n \in DOMAIN Entries(manifest, id) /\ Move
  /\ manifest' = [manifest EXCEPT ![id] = [x \in DOMAIN @ \ {n} |-> @[x]]]
  /\ Invalidated /\ UNCHANGED <<folders, restorePoints, summaryJob, working, stopped, given, whole>>

-----------------------------------------------------------------------------
(* The backup of a folder. *)

InState(id, s) == folders' = Updated(id, LAMBDA f : [f EXCEPT !.state = s])

Begin(id) ==
  /\ working = Idle /\ id \in FolderIds /\ Folder(id).on /\ Move
  /\ working' = [id |-> id, root |-> Folder(id).path]
  /\ InState(id, "syncing") /\ stopped' = stopped \ {id}
  /\ UNCHANGED <<manifest, restorePoints, summaryVars, given, whole>>

\* A file is uploaded, or fails; its path is the one it was planned with.
Record(n, status) ==
  /\ working # Idle /\ Move
  /\ manifest' = Upserted(working.id, n,
       [status |-> status, root |-> working.root,
        kept |-> Entry(working.id, n).kept \/ status = "backed_up"])
  /\ Invalidated /\ UNCHANGED <<folders, restorePoints, summaryJob, working, stopped, given, whole>>

\* A point is added behind the others, of which the oldest falls out.
Kept(s) == IF Len(s) > KeptPoints THEN Tail(s) ELSE s

\* The folder is done or has failed.  The status says so first; the message about it
\* comes without a state and leaves "syncing".
RunEnds(ok) ==
  /\ working # Idle /\ Move
  /\ InState(working.id, "syncing")
  /\ restorePoints' = IF ~ok THEN restorePoints
       ELSE Kept(Append(restorePoints,
              [folder |-> working.id,
               path |-> IF working.id \in FolderIds THEN Folder(working.id).path ELSE working.root]))
  /\ working' = Idle /\ UNCHANGED <<manifest, summaryVars, stopped, given, whole>>

\* The file that a row stands for is gone: the row is disabled.
SourceMissing ==
  /\ working # Idle /\ Move
  /\ working.id \in FolderIds /\ Folder(working.id).only # {}
  /\ folders' = Updated(working.id, LAMBDA f : [f EXCEPT !.on = FALSE, !.state = "idle"])
  /\ working' = Idle /\ UNCHANGED <<manifest, restorePoints, summaryVars, stopped, given, whole>>

\* Every enabled row that says "syncing" is shown as paused, and the run is stopped.
PauseRun ==
  /\ working # Idle /\ Move
  /\ \A i \in DOMAIN folders :
       folders[i].on /\ folders[i].state = "syncing" /\ folders[i].id # working.id
         => "pauses" \in RecordHabits
  /\ folders' = [i \in DOMAIN folders |->
       IF folders[i].on /\ folders[i].state = "syncing" THEN [folders[i] EXCEPT !.state = "paused"]
       ELSE folders[i]]
  /\ stopped' = stopped \cup {working.id} /\ working' = Idle
  /\ UNCHANGED <<manifest, restorePoints, summaryVars, given, whole>>

RecordsStep ==
  \/ CountSummary \/ CountFolder \/ CountEntries \/ SummaryCounted
  \/ \E p \in LocalPaths : \E only \in {{}} \cup {{n} : n \in Names} : AddRow(p, only)
  \/ \E p \in LocalPaths : AddAgain(p)
  \/ \E id \in FolderIds :
       \/ \E p \in LocalPaths : Reconnect(id, p)
       \/ \E deleted \in BOOLEAN : RemoveRow(id, deleted)
       \/ Toggle(id) \/ Begin(id)
       \/ \E n \in Names : MarkDirty(id, n) \/ MarkDeleted(id, n) \/ ForgetEntry(id, n)
  \/ \E n \in Names : \E status \in {"backed_up", "failed"} : Record(n, status)
  \/ \E ok \in BOOLEAN : RunEnds(ok)
  \/ SourceMissing \/ PauseRun

-----------------------------------------------------------------------------
(* What holds. *)

RecordsTypeOK ==
  /\ \A i \in DOMAIN folders : folders[i].path \in LocalPaths /\ folders[i].only \subseteq Names
  /\ \A id \in DOMAIN manifest : id \in 1..given /\ DOMAIN manifest[id] \subseteq Names
  /\ Len(restorePoints) <= KeptPoints /\ working.id \in 0..given

\* The summary that is kept is what counting again would find, whatever changed while
\* it was counted in portions (getCachedManifestSummaryAsync).
SummaryIsCurrent ==
  CacheHolds => summaryCache.rows = Summary.rows /\ summaryCache.counted = Summary.counted

\* After a folder was reconnected elsewhere its entries and its restore points are of
\* the new place (adoptFolder).
RowsMoveTogether ==
  /\ \A id \in FolderIds : \A n \in DOMAIN Entries(manifest, id) :
       manifest[id][n].root \in {"none", Folder(id).path}
  /\ \A i \in DOMAIN restorePoints :
       restorePoints[i].folder \in FolderIds => restorePoints[i].path = Folder(restorePoints[i].folder).path

\* No file is backed up by two enabled rows, and no manifest is left without its row,
\* where it would be the start of a folder that is given the id again (addFolder).
RowsApart ==
  /\ \A i, j \in DOMAIN folders :
       i # j /\ folders[i].on /\ folders[j].on /\ folders[i].path = folders[j].path
         => folders[i].only # {} /\ folders[j].only # {} /\ folders[i].only \cap folders[j].only = {}
  /\ DOMAIN manifest \subseteq FolderIds

\* A folder that says "paused" is one whose backup a pause stopped
\* (markRunningFoldersPaused).
PausedWasStopped == \A i \in DOMAIN folders : folders[i].state = "paused" => folders[i].id \in stopped

\* A directory that was added as a whole is backed up as a whole.
WholeStaysWhole ==
  \A p \in whole : \E i \in DOMAIN folders : folders[i].on /\ folders[i].path = p /\ folders[i].only = {}

RecordsHold == WholeStaysWhole /\ SummaryIsCurrent /\ RowsMoveTogether /\ RowsApart /\ PausedWasStopped
=============================================================================
