----------------------------- MODULE PackedFiles -----------------------------
(***************************************************************************)
(* Small files in packs: one encrypted bundle holds many of them, and an   *)
(* entry of the manifest or one of its versions names the bundle           *)
(* (main/packStore.js, the packed half of main/backupWorker.js).  Packing  *)
(* is switched off whenever the database is loaded, and a full scan moves  *)
(* what is still packed into the folder tree; a bundle no entry and no     *)
(* version names any more is moved out of the vault.  What a direct upload *)
(* does with one file is VersionedBackup's; here it is one step.           *)
(***************************************************************************)
EXTENDS Naturals, Sequences, FiniteSets, SequencesExt

CONSTANTS Files,       \* the small files of one folder
          MaxContent,  \* bound: changes of the files, the first content counted
          MaxPacks,    \* bound: bundles made
          MinVersions, \* backup_min_versions_per_file
          Failures,    \* what can fail: "upload", "bundle" of new members, "repack"
          Unsettled    \* a full scan may meet an entry that waits for a quick run

PacksAssumption ==
  /\ MaxContent \in Nat \ {0} /\ MaxPacks \in Nat \ {0} /\ MinVersions \in Nat \ {0}
  /\ Failures \subseteq {"upload", "bundle", "repack"} /\ Unsettled \in BOOLEAN

None     == 0
Contents == 0 .. MaxContent
Packs    == 1 .. MaxPacks

VARIABLES local,    \* content of each local file
          newest,   \* the last change; a content is the number of the change it came with
          active,   \* content of its copy in the folder tree of the vault
          entries,  \* its manifest entry
          bundles,  \* what each bundle holds, in the order they were made
          vault,    \* the bundles in the vault
          packing,  \* pack_small_files_enabled
          plan,     \* what the run has to do with each file
          phase,    \* how far the run is
          kept      \* (ghost) contents recorded as backed up and not expired since

vars == <<local, newest, active, entries, bundles, vault, packing, plan, phase, kept>>

NoEntry == [status |-> "none", storage |-> "file", pack |-> None, sig |-> None,
            remote |-> FALSE, versions |-> <<>>]
NoItem  == [kind |-> "none", sig |-> None, previous |-> "none", pack |-> None]

\* A version is a file in the history, or a member of a bundle.
InHistory(c) == [content |-> c, pack |-> None]
InPack(p)    == [content |-> None, pack |-> p]
Holds(f, v)  == IF v.pack = None THEN v.content ELSE bundles[v.pack][f]

Packed(p) == [NoEntry EXCEPT !.status = "backed_up", !.storage = "pack", !.pack = p,
                             !.sig = 1, !.remote = TRUE]

\* New files, or what a version of the program that packs has left: one bundle of all.
Init ==
  /\ local = [f \in Files |-> 1] /\ newest = 1
  /\ active = [f \in Files |-> None] /\ packing \in BOOLEAN
  /\ \/ /\ entries = [f \in Files |-> NoEntry] /\ packing
        /\ bundles = <<>> /\ vault = {} /\ kept = [f \in Files |-> {}]
     \/ /\ entries = [f \in Files |-> Packed(1)]
        /\ bundles = <<local>> /\ vault = {1} /\ kept = [f \in Files |-> {1}]
  /\ plan = [f \in Files |-> NoItem] /\ phase = "idle"

-----------------------------------------------------------------------------
(* The user, the watcher and the start of the program. *)

Marked(e, there) ==
  [e EXCEPT !.status = IF there THEN "dirty"
                       ELSE IF e.status = "none" THEN "none"
                       ELSE IF e.remote \/ e.versions # <<>> THEN "pending" ELSE "deleted"]

\* The watcher marks the entry, or misses the change.
Changes(f, content) ==
  /\ newest < MaxContent
  /\ newest' = newest + 1
  /\ local' = [local EXCEPT ![f] = content]
  /\ entries' \in {entries, [entries EXCEPT ![f] = Marked(@, content # None)]}
  /\ UNCHANGED <<active, bundles, vault, packing, plan, phase, kept>>

Write(f)  == Changes(f, newest')
Delete(f) == local[f] # None /\ Changes(f, None)

\* A version that packs was there before this one; every start switches packing off.
LoadDatabase ==
  /\ phase = "idle" /\ packing
  /\ packing' = FALSE
  /\ UNCHANGED <<local, newest, active, entries, bundles, vault, plan, phase, kept>>

-----------------------------------------------------------------------------
(* Planning. *)

Item(kind, e, sig) ==
  [kind |-> kind, sig |-> sig,
   previous |-> IF e.remote THEN e.storage ELSE "none",
   pack |-> IF e.remote /\ e.storage = "pack" THEN e.pack ELSE None]

ShouldMigratePackedActiveEntry(e) == e.status = "backed_up" /\ e.storage = "pack" /\ ~packing

HasChanged(f) ==
  LET e == entries[f] IN
  e.status # "backed_up" \/ ShouldMigratePackedActiveEntry(e) \/ e.sig # local[f]

\* Only an entry that is backed up tells the upload of a full scan what it replaces.
AddUploadIfNeeded(f) ==
  LET e == entries[f] IN
  Item("upload", [e EXCEPT !.remote = @ /\ e.status = "backed_up"], local[f])

PlannedByScan(f) ==
  IF entries[f].status = "pending" THEN Item("delete", entries[f], None)
  ELSE IF local[f] # None /\ HasChanged(f) THEN AddUploadIfNeeded(f) ELSE NoItem

PlannedFromManifest(f) ==
  LET e == entries[f] IN
  IF e.status = "pending" THEN Item("delete", e, None)
  ELSE IF e.status \notin {"dirty", "failed"} THEN NoItem
  ELSE IF local[f] # None THEN Item("upload", e, local[f])
  ELSE IF e.remote THEN Item("delete", e, None) ELSE NoItem

Waits(e) == e.status \in {"dirty", "failed"}

\* An entry of a file that was never backed up goes with the file.
ToForget(f) == Waits(entries[f]) /\ local[f] = None /\ ~entries[f].remote

Uploads == {f \in Files : plan[f].kind = "upload"}

\* One file alone is not worth a bundle.  (What a full scan does with a file that came
\* back while its deletion was pending: see VersionedBackup.)
PlanFolder(full) ==
  /\ phase = "idle"
  /\ full => \A f \in Files :
       /\ Unsettled \/ ~Waits(entries[f])
       /\ entries[f].status = "pending" => local[f] = None
  /\ entries' = [f \in Files |-> IF ~full /\ ToForget(f) THEN NoEntry ELSE entries[f]]
  /\ plan' = [f \in Files |-> IF full THEN PlannedByScan(f) ELSE PlannedFromManifest(f)]
  /\ \E f \in Files : plan'[f] # NoItem
  /\ phase' = IF packing /\ Cardinality(Uploads') > 1 THEN "pack" ELSE "direct"
  /\ UNCHANGED <<local, newest, active, bundles, vault, packing, kept>>

-----------------------------------------------------------------------------
(* What the manifest records. *)

RecordHistory(e, v) == [e EXCEPT !.versions = Append(@, v)]

RecordBackedUp(e, sig) ==
  [e EXCEPT !.status = "backed_up", !.storage = "file", !.pack = None, !.sig = sig,
            !.remote = TRUE]

RecordPackedBackedUp(e, sig, p) ==
  [e EXCEPT !.status = "backed_up", !.storage = "pack", !.pack = p, !.sig = sig,
            !.remote = TRUE]

RecordDeleted(e, v) == [RecordHistory(e, v) EXCEPT !.status = "deleted"]

\* Mutant: the migrated file is recorded without its version.
MigratedWithoutHistory(e, item) == e
\* What was packed becomes a version that names its bundle.
RecordPackedMigrationHistory(e, item) == RecordHistory(e, InPack(item.pack))

Done(f)  == plan' = [plan EXCEPT ![f] = NoItem]
Keep(f, c) == kept' = [kept EXCEPT ![f] = @ \cup {c}]

\* An upload whose file is gone by then: the copy there is becomes a version.
HandleDisappearedLocalItem(f) ==
  LET e == entries[f] IN
  /\ entries' = [entries EXCEPT ![f] =
       IF ~e.remote THEN NoEntry
       ELSE IF e.storage = "pack" THEN RecordDeleted(e, InPack(e.pack))
       ELSE IF active[f] = None THEN [e EXCEPT !.status = "deleted"]
       ELSE RecordDeleted(e, InHistory(active[f]))]
  /\ active' = [active EXCEPT ![f] =
       IF e.remote /\ e.storage = "file" THEN None ELSE @]
  /\ Done(f)
  /\ UNCHANGED kept

-----------------------------------------------------------------------------
(* The run: bundles, migrations, direct uploads, deletions. *)

\* createPackFile and the two uploads; nothing is recorded yet.
UploadPackedFiles ==
  /\ phase = "pack" /\ Len(bundles) < MaxPacks
  /\ \A f \in Uploads : local[f] # None
  /\ bundles' = Append(bundles, [f \in Files |-> IF f \in Uploads THEN local[f] ELSE None])
  /\ vault' = vault \cup {Len(bundles')}
  /\ phase' = "packed"
  /\ UNCHANGED <<local, newest, active, entries, packing, plan, kept>>

\* The members are recorded together, each with the copy that it replaces.
Replaced(f) ==
  IF plan[f].previous = "pack" THEN <<InPack(plan[f].pack)>>
  ELSE IF plan[f].previous = "file" /\ active[f] # None THEN <<InHistory(active[f])>>
  ELSE <<>>

RecordPacked ==
  LET p == Len(bundles) IN
  /\ phase = "packed"
  /\ entries' = [f \in Files |->
       IF f \notin Uploads THEN entries[f]
       ELSE RecordPackedBackedUp([entries[f] EXCEPT !.versions = @ \o Replaced(f)],
                                 plan[f].sig, p)]
  /\ active' = [f \in Files |->
       IF f \in Uploads /\ plan[f].previous = "file" THEN None ELSE active[f]]
  /\ kept' = [f \in Files |-> kept[f] \cup (IF f \in Uploads THEN {bundles[p][f]} ELSE {})]
  /\ plan' = [f \in Files |-> IF f \in Uploads THEN NoItem ELSE plan[f]]
  /\ phase' = "direct"
  /\ UNCHANGED <<local, newest, bundles, vault, packing>>

\* A bundle that could not be uploaded: its files go one by one.  A previous copy in a
\* bundle is taken for a file of the tree, found missing there and not recorded.
RetryPackedItemsDirect ==
  /\ phase \in {"pack", "packed"}
  /\ \/ "repack" \in Failures
     \/ "bundle" \in Failures /\ \A f \in Uploads : plan[f].previous # "pack"
  /\ plan' = [f \in Files |->
       IF f \in Uploads /\ plan[f].previous = "pack"
       THEN [plan[f] EXCEPT !.previous = "none"] ELSE plan[f]]
  /\ phase' = "direct"
  /\ UNCHANGED <<local, newest, active, entries, bundles, vault, packing, kept>>

\* Before a bundle is made the files that are gone are taken out of it.
SkipDisappeared(f) ==
  /\ phase = "pack" /\ f \in Uploads /\ local[f] = None
  /\ HandleDisappearedLocalItem(f)
  /\ phase' = IF Uploads' = {} THEN "direct" ELSE "pack"
  /\ UNCHANGED <<local, newest, bundles, vault, packing>>

\* The uploads are made in the order of the plan, what is packed first.
ToMigrate == {f \in Uploads : plan[f].previous = "pack"}
IsNext(f) ==
  /\ phase = "direct" /\ f \in Uploads /\ \A g \in Files : plan[g].kind # "migrated"
  /\ f = CHOOSE g \in (IF ToMigrate = {} THEN Uploads ELSE ToMigrate) : TRUE

\* The copy is in the tree; the record of it comes with the next step.
UploadPackedFileMigration(f) ==
  /\ IsNext(f) /\ f \in ToMigrate /\ local[f] # None
  /\ active' = [active EXCEPT ![f] = local[f]]
  /\ plan' = [plan EXCEPT ![f].kind = "migrated"]
  /\ UNCHANGED <<local, newest, entries, bundles, vault, packing, phase, kept>>

RecordMigration(f) ==
  /\ phase = "direct" /\ plan[f].kind = "migrated"
  /\ entries' = [entries EXCEPT ![f] =
       RecordBackedUp(RecordPackedMigrationHistory(@, plan[f]), plan[f].sig)]
  /\ Keep(f, active[f]) /\ Done(f)
  /\ UNCHANGED <<local, newest, active, bundles, vault, packing, phase>>

UploadFails(f) ==
  /\ IsNext(f) /\ "upload" \in Failures
  /\ entries' = [entries EXCEPT ![f].status = "failed"]
  /\ Done(f)
  /\ UNCHANGED <<local, newest, active, bundles, vault, packing, phase, kept>>

\* The batch records a version also when there was nothing to move.
UploadDirect(f) ==
  LET e == entries[f]
      replaced == IF plan[f].previous = "file" THEN RecordHistory(e, InHistory(active[f]))
                  ELSE e
  IN /\ IsNext(f) /\ f \notin ToMigrate /\ local[f] # None
     /\ active' = [active EXCEPT ![f] = local[f]]
     /\ entries' = [entries EXCEPT ![f] = RecordBackedUp(replaced, plan[f].sig)]
     /\ Keep(f, local[f]) /\ Done(f)
     /\ UNCHANGED <<local, newest, bundles, vault, packing, phase>>

UploadOfNothing(f) ==
  /\ IsNext(f) /\ local[f] = None
  /\ HandleDisappearedLocalItem(f)
  /\ UNCHANGED <<local, newest, bundles, vault, packing, phase>>

\* Packed copies are only recorded; a copy in the tree is moved to the history.
DeleteFilesToHistory(f) ==
  LET item == plan[f] e == entries[f] IN
  /\ phase = "direct" /\ item.kind = "delete"
  /\ \A g \in Files : plan[g].kind \in {"none", "delete"}
  /\ entries' = [entries EXCEPT ![f] =
       RecordDeleted(e, IF item.previous = "pack" THEN InPack(item.pack)
                        ELSE InHistory(active[f]))]
  /\ active' = [active EXCEPT ![f] = IF item.previous = "pack" THEN @ ELSE None]
  /\ Done(f)
  /\ UNCHANGED <<local, newest, bundles, vault, packing, phase, kept>>

Worked == phase = "direct" /\ \A f \in Files : plan[f] = NoItem

\* A pause, or a failure of the run as a whole, ends it anywhere.
Stop ==
  /\ phase # "idle"
  /\ phase' = "idle" /\ plan' = [f \in Files |-> NoItem]
  /\ UNCHANGED <<local, newest, active, entries, bundles, vault, packing, kept>>

-----------------------------------------------------------------------------
(* Retention: the oldest versions beyond the minimum, then what nobody names. *)

PurgeExpiredHistory(f) ==
  LET e == entries[f] IN
  /\ Worked /\ Len(e.versions) > MinVersions
  /\ kept' = [kept EXCEPT ![f] = @ \ {Holds(f, Head(e.versions))}]
  /\ entries' = [entries EXCEPT ![f].versions = Tail(@)]
  /\ UNCHANGED <<local, newest, active, bundles, vault, packing, plan, phase>>

PackOfEntry(f) == {entries[f].pack} \ {None}

GetReferencedPackPaths ==
  (UNION {PackOfEntry(f) \cup {v.pack : v \in ToSet(entries[f].versions)} : f \in Files}) \ {None}

PruneUnreferencedPacks ==
  /\ Worked
  /\ vault' = vault \cap GetReferencedPackPaths
  /\ phase' = "idle"
  /\ UNCHANGED <<local, newest, active, entries, bundles, packing, plan, kept>>

Next ==
  \/ \E f \in Files :
       \/ Write(f) \/ Delete(f)
       \/ SkipDisappeared(f)
       \/ UploadPackedFileMigration(f) \/ RecordMigration(f) \/ UploadFails(f)
       \/ UploadDirect(f) \/ UploadOfNothing(f) \/ DeleteFilesToHistory(f)
       \/ PurgeExpiredHistory(f)
  \/ LoadDatabase \/ (\E full \in BOOLEAN : PlanFolder(full))
  \/ UploadPackedFiles \/ RecordPacked \/ RetryPackedItemsDirect
  \/ Stop \/ PruneUnreferencedPacks

Spec == Init /\ [][Next]_vars

-----------------------------------------------------------------------------
(* Properties. *)

Entries == [status : {"none", "backed_up", "dirty", "failed", "pending", "deleted"},
            storage : {"file", "pack"}, pack : Packs \cup {None}, sig : Contents,
            remote : BOOLEAN, versions : Seq([content : Contents, pack : Packs \cup {None}])]

TypeOK ==
  /\ local \in [Files -> Contents] /\ newest \in Contents
  /\ active \in [Files -> Contents] /\ entries \in [Files -> Entries]
  /\ bundles \in Seq([Files -> Contents]) /\ vault \subseteq Packs /\ packing \in BOOLEAN
  /\ plan \in [Files -> [kind : {"none", "upload", "migrated", "delete"}, sig : Contents,
                         previous : {"none", "file", "pack"}, pack : Packs \cup {None}]]
  /\ phase \in {"idle", "pack", "packed", "direct"}
  /\ kept \in [Files -> SUBSET Contents]

\* What can be got back: the copy in the tree, the versions in the history, and the
\* members of the bundles in the vault that the entry or a version of it names.
Restorable(f) ==
  {active[f]} \cup {v.content : v \in ToSet(entries[f].versions)}
    \cup {bundles[p][f] : p \in vault \cap
            (PackOfEntry(f) \cup {v.pack : v \in ToSet(entries[f].versions)})}

\* A content that was once recorded as backed up can be got back until retention lets
\* its version go, however often the file moves between bundles and the tree.
PackedKept == \A f \in Files : kept[f] \subseteq Restorable(f)

\* A bundle that an entry or a version names is in the vault.
NamedPacksStay == GetReferencedPackPaths \subseteq vault

PacksKept == PackedKept /\ NamedPacksStay
=============================================================================
