---------------------------- MODULE RestorePoints ----------------------------
(***************************************************************************)
(* What the backup keeps for a restore of the past, and what such a        *)
(* restore takes: the manifest's versions (main/backupManifest.js), the    *)
(* restore points of completed full runs, the retention of                 *)
(* purgeExpiredHistory (main/backupWorker.js) and the plan of              *)
(* main/restorePlanner.js.                                                 *)
(*                                                                         *)
(* How a copy gets to the vault is module VersionedBackup; here a backup   *)
(* of a file is one step.  Every content is the time of its backup, every  *)
(* step but those of a purge, which looks at the clock once, takes a       *)
(* moment, and the past is kept beside the code's own state to compare     *)
(* plans with.  No two versions of a file are of one moment, so that their *)
(* list, which the code sorts by time, is a set.                           *)
(***************************************************************************)
EXTENDS Naturals, FiniteSets, FiniteSetsExt

CONSTANTS Files,
          MaxTime,      \* bound: moments
          VersionAge,   \* backup_version_retention_days
          DeletedAge,   \* backup_deleted_retention_days
          MinVersions,  \* backup_min_versions_per_file
          MaxVersions   \* versions an entry keeps (50)

RetentionAssumption ==
  /\ MaxTime \in Nat /\ VersionAge \in Nat /\ DeletedAge \in Nat
  /\ MinVersions \in Nat \ {0} /\ MaxVersions \in Nat \ {0}

VARIABLES
  now,        \* the time
  entry,      \* per file, its manifest entry
  points,     \* restore points: the times at which full runs completed
  expired,    \* copies moved out of history
  moved,      \* per file, the versions that the purge underway has moved and not recorded
  past,       \* not in the code: what the vault held at each time
  lost,       \* not in the code: per file, the times of which nothing keeps the content
  unrecorded  \* not in the code: copies whose move no purge has recorded

vars == <<now, entry, points, expired, moved, past, lost, unrecorded>>

Times   == 1 .. MaxTime
Nothing == 0

NoEntry == [status |-> "none", remote |-> Nothing, at |-> 0, deletedAt |-> 0, versions |-> {}]
Version == [content : Times, at : Times]

TypeOK ==
  /\ now \in Times \cup {MaxTime + 1}
  /\ \A f \in Files :
       /\ entry[f].status \in {"none", "backed_up", "deleted"}
       /\ entry[f].remote \in Times \cup {Nothing}
       /\ entry[f].at \in Times \cup {0} /\ entry[f].deletedAt \in Times \cup {0}
       /\ entry[f].versions \subseteq Version /\ Cardinality(entry[f].versions) <= MaxVersions
       /\ (entry[f].status = "deleted") <=> (entry[f].deletedAt # 0)
  /\ points \subseteq Times /\ \A p \in points : p < now
  /\ expired \subseteq Times /\ unrecorded \subseteq expired
  /\ moved \in [Files -> SUBSET Version]
  /\ past \in [Times -> [Files -> Times \cup {Nothing}]]
  /\ lost \in [Files -> SUBSET Times]

Init ==
  /\ now = 1
  /\ entry = [f \in Files |-> NoEntry]
  /\ points = {} /\ expired = {} /\ unrecorded = {}
  /\ moved = [f \in Files |-> {}]
  /\ past = [t \in Times |-> [f \in Files |-> Nothing]]
  /\ lost = [f \in Files |-> {}]

-----------------------------------------------------------------------------
(* Backing up. *)

\* What the active area holds, as restores should see it: a deleted file is gone.
Held(e) == IF e.status = "backed_up" THEN e.remote ELSE Nothing

\* A run backs up before its purge, or without one.
NotPurging == \A f \in Files : moved[f] = {}

\* A step of the code that takes one moment and leaves the entries e.
Step(e) ==
  /\ now <= MaxTime /\ NotPurging
  /\ now' = now + 1
  /\ entry' = e
  /\ past' = [past EXCEPT ![now] = [f \in Files |-> Held(e[f])]]

RecordBackedUp(e, content) ==
  [e EXCEPT !.status = "backed_up", !.remote = content, !.at = now, !.deletedAt = 0]

\* Mutant: sorted like a list for display, newest first.
Newest(vs) == CHOOSE v \in vs : \A w \in vs : w.at <= v.at

\* The first of the versions sorted by time.
Oldest(vs) == CHOOSE v \in vs : \A w \in vs : v.at <= w.at

Full(vs) == Cardinality(vs) >= MaxVersions

\* Mutant: nothing makes room.
RoomForAll(vs) == vs

\* Room for one more version: versions.slice(-49).
Room(vs) == IF Full(vs) THEN vs \ {Oldest(vs)} ELSE vs

RecordHistory(e) ==
  [e EXCEPT !.versions = Room(@) \cup {[content |-> e.remote, at |-> now]}]

RecordDeleted(e) ==
  [RecordHistory(e) EXCEPT !.status = "deleted", !.deletedAt = now]

\* The versions that were made after time t.
NextVersions(e, t) == {v \in e.versions : v.at > t}

\* Without a version of it the copy that was there since the last one is lost.
Unversioned(e) == {t \in Times : t < now /\ NextVersions(e, t) = {}}

\* The times before the version that Room drops.
CutOff(e) == IF Full(e.versions) THEN {t \in Times : t < Oldest(e.versions).at} ELSE {}

Lose(f, times) == lost' = [lost EXCEPT ![f] = @ \cup times]

BackUpNewFile(f) ==
  /\ entry[f].status # "backed_up"
  /\ Step([entry EXCEPT ![f] = RecordBackedUp(@, now)])
  /\ UNCHANGED <<points, expired, moved, lost, unrecorded>>

\* The previous copy moves to history, the new one takes its place.
BackUpModifiedFile(f) ==
  /\ entry[f].status = "backed_up"
  /\ Step([entry EXCEPT ![f] = RecordBackedUp(RecordHistory(@), now)])
  /\ Lose(f, CutOff(entry[f]))
  /\ UNCHANGED <<points, expired, moved, unrecorded>>

\* A full pass finds the active copy gone (remote_missing) and uploads the file,
\* unchanged, again: there is nothing to move to history.
RepairMissingCopy(f) ==
  /\ entry[f].status = "backed_up"
  /\ Step([entry EXCEPT ![f] = RecordBackedUp(@, @.remote)])
  /\ Lose(f, Unversioned(entry[f]))
  /\ UNCHANGED <<points, expired, moved, unrecorded>>

\* A full pass meets a file that the watcher has marked dirty: it is planned as a
\* new file and uploaded over its copy, of which history gets nothing.
BackUpMarkedFile(f) ==
  /\ entry[f].status = "backed_up"
  /\ Step([entry EXCEPT ![f] = RecordBackedUp(@, now)])
  /\ Lose(f, Unversioned(entry[f]))
  /\ UNCHANGED <<points, expired, moved, unrecorded>>

DeleteToHistory(f) ==
  /\ entry[f].status = "backed_up"
  /\ Step([entry EXCEPT ![f] = RecordDeleted(@)])
  /\ Lose(f, CutOff(entry[f]))
  /\ UNCHANGED <<points, expired, moved, unrecorded>>

\* A full run of the folder ends well, changed or not.
AddRestorePoint ==
  /\ Step(entry)
  /\ points' = points \cup {now}
  /\ UNCHANGED <<expired, moved, lost, unrecorded>>

-----------------------------------------------------------------------------
(* purgeExpiredHistory, at the end of a run that completed: the versions of *)
(* one file after the other are moved, each with an await, and the file's   *)
(* record follows when all of them were tried.                              *)

Cutoff(e) == IF e.status = "deleted" THEN DeletedAge ELSE VersionAge

\* Which versions are kept: recent ones, the newest few, and the only copy of a
\* deleted file.
Keep(e) ==
  {v \in e.versions :
     \/ v.at + Cutoff(e) >= now
     \/ Cardinality({w \in e.versions : w.at > v.at}) < MinVersions
     \/ e.status = "deleted" /\ Cardinality(e.versions) <= 1}

\* The move of a version: done, or an error after it was done, for which the
\* version stays recorded.  A copy that is not there any more moves nothing.
MoveExpired(f) ==
  /\ \A g \in Files \ {f} : moved[g] = {}
  /\ \E v \in entry[f].versions \ Keep(entry[f]) :
       /\ v.content \notin expired
       /\ expired' = expired \cup {v.content}
       /\ \/ moved' = [moved EXCEPT ![f] = @ \cup {v}] /\ UNCHANGED unrecorded
          \/ unrecorded' = unrecorded \cup {v.content} /\ UNCHANGED moved
  /\ UNCHANGED <<now, entry, points, past, lost>>

\* Mutant: the records of what was moved away stay.
RetainedAll(vs, gone) == vs

Retained(vs, gone) == vs \ gone

RecordRetained(f) ==
  /\ moved[f] # {}
  /\ entry' = [entry EXCEPT ![f].versions = Retained(@, moved[f])]
  /\ moved' = [moved EXCEPT ![f] = {}]
  /\ UNCHANGED <<now, points, expired, past, lost, unrecorded>>

\* A pause or the end of the program between two moves: nothing is recorded.
PurgeStops(f) ==
  /\ moved[f] # {}
  /\ moved' = [moved EXCEPT ![f] = {}]
  /\ unrecorded' = unrecorded \cup {v.content : v \in moved[f]}
  /\ UNCHANGED <<now, entry, points, expired, past, lost>>

Next ==
  \/ \E f \in Files : \/ BackUpNewFile(f) \/ BackUpModifiedFile(f) \/ RepairMissingCopy(f)
                      \/ BackUpMarkedFile(f) \/ DeleteToHistory(f)
                      \/ MoveExpired(f) \/ RecordRetained(f) \/ PurgeStops(f)
  \/ AddRestorePoint

Spec == Init /\ [][Next]_vars

-----------------------------------------------------------------------------
(* Restoring. *)

\* The current copy, if it was there at t and the file was not deleted.
Latest(e, t) ==
  IF (e.deletedAt # 0 /\ e.deletedAt <= t) \/ e.at > t THEN Nothing ELSE e.remote

\* The copy that planPointInTimeRestore selects for a file.
ChooseRemoteForTime(e, t) ==
  IF NextVersions(e, t) # {} THEN Oldest(NextVersions(e, t)).content ELSE Latest(e, t)

\* A restore point that the retention settings still cover.
Covered(p) == p + VersionAge >= now /\ p + DeletedAge >= now

-----------------------------------------------------------------------------

\* A file that was backed up at a covered restore point is restored from that
\* point with the content it had then, whatever was changed, deleted, written
\* again and purged since.  Three things lose the content of a time: a version
\* list with no room, for the times before the version it drops; a copy that was
\* lost and uploaded again, and a file that a full pass met already marked dirty
\* (backupPlanner.js:67), for the times since the last version before.
PointRestoresItsFiles ==
  \A p \in points, f \in Files :
    (Covered(p) /\ past[p][f] # Nothing /\ p \notin lost[f])
      => ChooseRemoteForTime(entry[f], p) = past[p][f]

\* A covered restore point never plans a copy that has left the history, not even
\* while a purge is underway or after one that a pause, a crash or a failing call
\* broke off between its moves and its record; and an older point plans such a
\* copy only in these cases.
PlannedIsKept ==
  \A p \in points, f \in Files :
    LET planned == ChooseRemoteForTime(entry[f], p) IN
    planned \in expired =>
      ~Covered(p) /\ planned \in unrecorded \cup {v.content : v \in moved[f]}

\* A restore point is exact: every file that was backed up at it is restored
\* with the content it had then, as long as the retention settings cover it.
PointIsExact ==
  \A p \in points, f \in Files :
    Covered(p) /\ past[p][f] # Nothing => ChooseRemoteForTime(entry[f], p) = past[p][f]
=============================================================================
