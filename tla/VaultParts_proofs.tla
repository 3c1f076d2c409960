-------------------------- MODULE VaultParts_proofs ---------------------------
(***************************************************************************)
(* The ways into the vault, as parts of MCRecovery: bundles of small       *)
(* files, with an invariant that says of each file where what was recorded *)
(* of it is; the drive, the rclone processes and the servers, of which     *)
(* what lives is known; the explorer of the vault and the names of         *)
(* computers.  All for any number of files, changes, attempts, processes   *)
(* and requests.  The theorems are PlansAreKept of MCRecovery_proofs and   *)
(* OpenedIsOwnedAlways of Panels_proofs.                                   *)
(***************************************************************************)
EXTENDS MCRecovery, Sequences, FiniteSetTheorems, SequenceTheorems, WellFoundedInduction, TLAPS

-----------------------------------------------------------------------------
(* PackedFiles, one file.  What was recorded of it is a version, or the     *)
(* current copy that its entry names: in the tree, or a member of a bundle. *)
(* An item of the plan names the copy that the entry had when it was made,  *)
(* and the entry keeps it until the item is done.                           *)

PackVersion == [content : Nat, pack : Nat]
Statuses    == {"none", "backed_up", "dirty", "failed", "pending", "deleted"}
PackEntry   == [status : Statuses, storage : {"file", "pack"}, pack : Nat, sig : Nat,
                remote : BOOLEAN, versions : Seq(PackVersion)]
PackItem    == [kind : {"none", "upload", "migrated", "delete"}, sig : Nat,
                previous : {"none", "file", "pack"}, pack : Nat]

\* What the versions of f hold, and the copy that its entry e names.
InVersions(f, e) == {Packed!Holds(f, v) : v \in Packed!ToSet(e.versions)}
Current(f, e, copy) ==
  IF ~e.remote THEN {} ELSE IF e.storage = "pack" THEN {bundles[e.pack][f]} ELSE {copy}

\* The entry e of file f and what was recorded of it, with its copy in the tree.
EntryHolds(f, e, copy, recorded) ==
  /\ recorded \subseteq InVersions(f, e) \cup Current(f, e, copy)
  /\ ~e.remote => recorded = {} /\ e.versions = <<>>
  /\ e.status = "none" => ~e.remote
  /\ e.status = "pending" => e.remote
  /\ e.status = "deleted" => recorded \subseteq InVersions(f, e)

\* The bundles that it names.
EntryNames(e) ==
  /\ e.storage = "pack" => e.pack # 0
  /\ e.pack # 0 => e.pack \in vault
  /\ \A v \in Packed!ToSet(e.versions) : v.pack # 0 => v.pack \in vault

\* The item of the plan.
ItemHolds(f, e, i, copy, recorded) ==
  /\ i.previous = "pack" => e.remote /\ e.storage = "pack" /\ e.pack = i.pack
  /\ i.previous = "file" => e.remote /\ e.storage = "file"
  /\ i.kind = "upload" /\ i.previous = "none" => recorded \subseteq InVersions(f, e)
  /\ i.kind = "migrated" => i.previous = "pack" /\ copy # 0
  /\ i.kind = "delete" => i.previous # "none"

FileHolds(f, e, i, copy, recorded) ==
  /\ e \in PackEntry /\ i \in PackItem /\ copy \in Nat /\ recorded \in SUBSET (Nat \ {0})
  /\ EntryHolds(f, e, copy, recorded) /\ EntryNames(e) /\ ItemHolds(f, e, i, copy, recorded)

PacksTyped ==
  /\ local \in [PackMembers -> Nat] /\ newest \in Nat
  /\ inTree \in [PackMembers -> Nat] /\ entries \in [PackMembers -> PackEntry]
  /\ bundles \in Seq([PackMembers -> Nat]) /\ vault \in SUBSET (1 .. Len(bundles))
  /\ plan \in [PackMembers -> PackItem]
  /\ kept \in [PackMembers -> SUBSET (Nat \ {0})]

\* The bundle that a run has just made, of the files it uploads.
BundleIsMade ==
  phase = "packed" =>
    /\ Len(bundles) \in vault
    /\ \A f \in Packed!Uploads : bundles[Len(bundles)][f] # 0

PacksInv ==
  /\ PacksTyped /\ BundleIsMade
  /\ \A f \in PackMembers : FileHolds(f, entries[f], plan[f], inTree[f], kept[f])

LEMMA AppendedSet ==
  ASSUME NEW T, NEW s \in Seq(T), NEW x \in T
  PROVE  Append(s, x) \in Seq(T) /\ Packed!ToSet(Append(s, x)) = Packed!ToSet(s) \cup {x}
<1>1. Packed!ToSet(Append(s, x)) \subseteq Packed!ToSet(s) \cup {x}
  BY DEF Packed!ToSet
<1>2. Packed!ToSet(s) \subseteq Packed!ToSet(Append(s, x))
  BY DEF Packed!ToSet
<1>3. x \in Packed!ToSet(Append(s, x))
  <2>1. Len(s) + 1 \in DOMAIN Append(s, x) /\ Append(s, x)[Len(s) + 1] = x
    OBVIOUS
  <2>2. QED BY <2>1 DEF Packed!ToSet
<1>4. QED BY <1>1, <1>2, <1>3

LEMMA TailSet ==
  ASSUME NEW T, NEW s \in Seq(T), s # <<>>
  PROVE  /\ Tail(s) \in Seq(T) /\ Packed!ToSet(s) = Packed!ToSet(Tail(s)) \cup {Head(s)}
<1>1. Tail(s) \in Seq(T) /\ Len(Tail(s)) = Len(s) - 1
      /\ \A i \in 1 .. Len(Tail(s)) : Tail(s)[i] = s[i + 1]
  OBVIOUS
<1>2. \A i \in DOMAIN s : s[i] = Head(s) \/ \E j \in DOMAIN Tail(s) : s[i] = Tail(s)[j]
  <2> TAKE i \in DOMAIN s
  <2>1. CASE i = 1
    BY <2>1
  <2>2. CASE i # 1
    <3>1. i - 1 \in DOMAIN Tail(s) /\ Tail(s)[i - 1] = s[i]
      BY <1>1, <2>2
    <3>2. QED BY <3>1
  <2>3. QED BY <2>1, <2>2
<1>3. \A j \in DOMAIN Tail(s) : \E i \in DOMAIN s : Tail(s)[j] = s[i]
  <2> TAKE j \in DOMAIN Tail(s)
  <2>1. j + 1 \in DOMAIN s /\ Tail(s)[j] = s[j + 1]
    BY <1>1
  <2>2. QED BY <2>1
<1>4. \E i \in DOMAIN s : Head(s) = s[i]
  <2>1. 1 \in DOMAIN s /\ Head(s) = s[1]
    OBVIOUS
  <2>2. QED BY <2>1
<1>5. QED BY <1>1, <1>2, <1>3, <1>4 DEF Packed!ToSet

\* What the records of the manifest do to an entry.
LEMMA HistoryRecord ==
  ASSUME NEW e \in PackEntry, NEW v \in PackVersion
  PROVE  LET b == Packed!RecordHistory(e, v) IN
         /\ b \in PackEntry /\ b.status = e.status /\ b.storage = e.storage /\ b.pack = e.pack
         /\ (b.remote <=> e.remote) /\ b.versions = Append(e.versions, v)
<1>1. Append(e.versions, v) \in Seq(PackVersion)
  BY AppendedSet DEF PackEntry
<1>2. QED BY <1>1 DEF Packed!RecordHistory, PackEntry

LEMMA DeletedRecord ==
  ASSUME NEW e \in PackEntry, NEW v \in PackVersion
  PROVE  LET b == Packed!RecordDeleted(e, v) IN
         /\ b \in PackEntry /\ b.status = "deleted" /\ b.storage = e.storage /\ b.pack = e.pack
         /\ (b.remote <=> e.remote) /\ b.versions = Append(e.versions, v)
<1> DEFINE h == Packed!RecordHistory(e, v)
<1>1. /\ h \in PackEntry /\ h.storage = e.storage /\ h.pack = e.pack
      /\ (h.remote <=> e.remote) /\ h.versions = Append(e.versions, v)
  BY HistoryRecord
<1>2. Packed!RecordDeleted(e, v) = [h EXCEPT !.status = "deleted"]
  BY DEF Packed!RecordDeleted
<1> HIDE DEF h
<1>3. QED BY <1>1, <1>2 DEF PackEntry, Statuses

LEMMA BackedUpRecord ==
  ASSUME NEW e \in PackEntry, NEW s \in Nat
  PROVE  LET b == Packed!RecordBackedUp(e, s) IN
         /\ b \in PackEntry /\ b.status = "backed_up" /\ b.storage = "file" /\ b.pack = 0
         /\ b.remote /\ b.versions = e.versions
BY DEF Packed!RecordBackedUp, Packed!None, PackEntry, Statuses

LEMMA StatusRecord ==
  ASSUME NEW e \in PackEntry,
         NEW s \in Statuses
  PROVE  LET b == [e EXCEPT !.status = s] IN
         /\ b \in PackEntry /\ b.status = s /\ b.storage = e.storage /\ b.pack = e.pack
         /\ (b.remote <=> e.remote) /\ b.versions = e.versions
BY DEF PackEntry

LEMMA NothingHolds ==
  ASSUME NEW f, NEW copy \in Nat
  PROVE  FileHolds(f, Packed!NoEntry, Packed!NoItem, copy, {})
<1>1. Packed!NoEntry \in PackEntry /\ Packed!NoItem \in PackItem
  BY DEF Packed!NoEntry, Packed!NoItem, Packed!None, PackEntry, PackItem, Statuses
<1>2. Packed!ToSet(<<>>) = {}
  BY DEF Packed!ToSet
<1>3. QED BY <1>1, <1>2 DEF Packed!NoEntry, Packed!NoItem, Packed!None, FileHolds, EntryHolds,
                           EntryNames, ItemHolds

LEMMA DoneHolds ==
  ASSUME NEW f, NEW e, NEW i, NEW copy, NEW recorded, FileHolds(f, e, i, copy, recorded)
  PROVE  FileHolds(f, e, Packed!NoItem, copy, recorded)
<1>1. Packed!NoItem \in PackItem
  BY DEF Packed!NoItem, Packed!None, PackItem
<1>2. QED BY <1>1 DEF Packed!NoItem, FileHolds, ItemHolds

\* An entry with another status, where that status may be.
LEMMA StatusHolds ==
  ASSUME NEW f, NEW e, NEW i, NEW copy, NEW recorded, FileHolds(f, e, i, copy, recorded),
         NEW s \in Statuses,
         s = "none" => ~e.remote, s = "pending" => e.remote,
         s = "deleted" => recorded \subseteq InVersions(f, e)
  PROVE  FileHolds(f, [e EXCEPT !.status = s], i, copy, recorded)
<1> DEFINE b == [e EXCEPT !.status = s]
<1>1. /\ b \in PackEntry /\ b.status = s /\ b.storage = e.storage /\ b.pack = e.pack
      /\ (b.remote <=> e.remote) /\ b.versions = e.versions
  <2>1. e \in PackEntry
    BY DEF FileHolds
  <2>2. QED BY <2>1, StatusRecord
<1> HIDE DEF b
<1>2. InVersions(f, b) = InVersions(f, e) /\ Current(f, b, copy) = Current(f, e, copy)
  BY <1>1 DEF InVersions, Current
<1>3. EntryHolds(f, b, copy, recorded)
  BY <1>1, <1>2 DEF FileHolds, EntryHolds
<1>4. EntryNames(b) /\ ItemHolds(f, b, i, copy, recorded)
  BY <1>1, <1>2 DEF FileHolds, EntryNames, ItemHolds
<1>5. FileHolds(f, b, i, copy, recorded)
  BY <1>1, <1>3, <1>4 DEF FileHolds
<1>6. QED BY <1>5 DEF b

LEMMA MarkedHolds ==
  ASSUME NEW f, NEW e, NEW i, NEW copy, NEW recorded, FileHolds(f, e, i, copy, recorded),
         NEW there \in BOOLEAN
  PROVE  FileHolds(f, Packed!Marked(e, there), i, copy, recorded)
<1> DEFINE s == IF there THEN "dirty"
                ELSE IF e.status = "none" THEN "none"
                ELSE IF e.remote \/ e.versions # <<>> THEN "pending" ELSE "deleted"
<1>1. Packed!Marked(e, there) = [e EXCEPT !.status = s]
  BY DEF Packed!Marked
<1>2. /\ s \in Statuses
      /\ s = "none" => ~e.remote
      /\ s = "pending" => e.remote
      /\ s = "deleted" => recorded \subseteq InVersions(f, e)
  BY DEF FileHolds, EntryHolds, Statuses
<1> HIDE DEF s
<1>3. QED BY <1>1, <1>2, StatusHolds

\* One version more.
LEMMA VersionHolds ==
  ASSUME NEW f, NEW e \in PackEntry, NEW v \in PackVersion, EntryNames(e),
         NEW b \in PackEntry, b.versions = Append(e.versions, v),
         v.pack # 0 => v.pack \in vault
  PROVE  /\ InVersions(f, b) = InVersions(f, e) \cup {Packed!Holds(f, v)}
         /\ \A w \in Packed!ToSet(b.versions) : w.pack # 0 => w.pack \in vault
<1>1. Packed!ToSet(b.versions) = Packed!ToSet(e.versions) \cup {v}
  BY AppendedSet DEF PackEntry
<1>2. QED BY <1>1 DEF InVersions, EntryNames

\* What a version made of the current copy holds.
LEMMA PackVersionHolds ==
  ASSUME NEW f, NEW e \in PackEntry, EntryNames(e), e.remote, e.storage = "pack", NEW copy
  PROVE  /\ Packed!InPack(e.pack) \in PackVersion /\ Packed!InPack(e.pack).pack \in vault
         /\ Current(f, e, copy) = {Packed!Holds(f, Packed!InPack(e.pack))}
BY DEF EntryNames, PackEntry, PackVersion, Packed!InPack, Packed!None, Packed!Holds, Current

LEMMA FileVersionHolds ==
  ASSUME NEW f, NEW e \in PackEntry, e.storage = "file", NEW copy \in Nat
  PROVE  /\ Packed!InHistory(copy) \in PackVersion /\ Packed!InHistory(copy).pack = 0
         /\ Current(f, e, copy) \subseteq {Packed!Holds(f, Packed!InHistory(copy))}
BY DEF PackEntry, PackVersion, Packed!InHistory, Packed!None, Packed!Holds, Current

\* The current copy becomes a version, and the file is deleted.
LEMMA DeletedHolds ==
  ASSUME NEW f, NEW e, NEW i, NEW copy, NEW recorded, FileHolds(f, e, i, copy, recorded),
         NEW v \in PackVersion, v.pack # 0 => v.pack \in vault,
         Current(f, e, copy) \subseteq {Packed!Holds(f, v)}, e.remote, NEW left \in Nat
  PROVE  FileHolds(f, Packed!RecordDeleted(e, v), Packed!NoItem, left, recorded)
<1> DEFINE b == Packed!RecordDeleted(e, v)
<1>1. /\ b \in PackEntry /\ b.status = "deleted" /\ b.storage = e.storage /\ b.pack = e.pack
      /\ (b.remote <=> e.remote) /\ b.versions = Append(e.versions, v)
  BY DeletedRecord DEF FileHolds
<1> HIDE DEF b
<1>2. /\ InVersions(f, b) = InVersions(f, e) \cup {Packed!Holds(f, v)}
      /\ \A w \in Packed!ToSet(b.versions) : w.pack # 0 => w.pack \in vault
  BY <1>1, VersionHolds DEF FileHolds
<1>3. recorded \subseteq InVersions(f, b)
  BY <1>2 DEF FileHolds, EntryHolds
<1>4. EntryHolds(f, b, left, recorded) /\ EntryNames(b)
  BY <1>1, <1>2, <1>3 DEF FileHolds, EntryHolds, EntryNames
<1>5. Packed!NoItem \in PackItem /\ ItemHolds(f, b, Packed!NoItem, left, recorded)
  BY DEF Packed!NoItem, Packed!None, PackItem, ItemHolds
<1>6. FileHolds(f, b, Packed!NoItem, left, recorded)
  BY <1>1, <1>4, <1>5 DEF FileHolds
<1>7. QED BY <1>6 DEF b

\* A new current copy, when the versions hold all there was.
LEMMA BackedUpHolds ==
  ASSUME NEW f, NEW e \in PackEntry, NEW recorded \in SUBSET (Nat \ {0}),
         recorded \subseteq InVersions(f, e),
         \A w \in Packed!ToSet(e.versions) : w.pack # 0 => w.pack \in vault,
         NEW s \in Nat, NEW copy \in Nat \ {0}
  PROVE  FileHolds(f, Packed!RecordBackedUp(e, s), Packed!NoItem, copy, recorded \cup {copy})
<1> DEFINE b == Packed!RecordBackedUp(e, s)
<1>1. /\ b \in PackEntry /\ b.status = "backed_up" /\ b.storage = "file" /\ b.pack = 0
      /\ b.remote /\ b.versions = e.versions
  BY BackedUpRecord
<1> HIDE DEF b
<1>2. InVersions(f, b) = InVersions(f, e) /\ Current(f, b, copy) = {copy}
  BY <1>1 DEF InVersions, Current
<1>3. EntryHolds(f, b, copy, recorded \cup {copy}) /\ EntryNames(b)
  BY <1>1, <1>2 DEF EntryHolds, EntryNames
<1>4. /\ Packed!NoItem \in PackItem
      /\ ItemHolds(f, b, Packed!NoItem, copy, recorded \cup {copy})
  BY DEF Packed!NoItem, Packed!None, PackItem, ItemHolds
<1>5. FileHolds(f, b, Packed!NoItem, copy, recorded \cup {copy})
  BY <1>1, <1>3, <1>4 DEF FileHolds
<1>6. QED BY <1>5 DEF b

LEMMA PackedHolds ==
  ASSUME NEW f, NEW e \in PackEntry, NEW recorded \in SUBSET (Nat \ {0}),
         recorded \subseteq InVersions(f, e),
         \A w \in Packed!ToSet(e.versions) : w.pack # 0 => w.pack \in vault,
         NEW s \in Nat, NEW p \in Nat \ {0}, p \in vault, bundles[p][f] \in Nat \ {0},
         NEW copy \in Nat
  PROVE  FileHolds(f, Packed!RecordPackedBackedUp(e, s, p), Packed!NoItem, copy,
                   recorded \cup {bundles[p][f]})
<1> DEFINE b == Packed!RecordPackedBackedUp(e, s, p)
           all == recorded \cup {bundles[p][f]}
<1>1. /\ b \in PackEntry /\ b.status = "backed_up" /\ b.storage = "pack" /\ b.pack = p
      /\ b.remote /\ b.versions = e.versions
  BY DEF Packed!RecordPackedBackedUp, PackEntry, Statuses
<1> HIDE DEF b
<1>2. InVersions(f, b) = InVersions(f, e) /\ Current(f, b, copy) = {bundles[p][f]}
  BY <1>1 DEF InVersions, Current
<1>3. EntryHolds(f, b, copy, all) /\ EntryNames(b)
  BY <1>1, <1>2 DEF EntryHolds, EntryNames
<1>4. Packed!NoItem \in PackItem /\ ItemHolds(f, b, Packed!NoItem, copy, all)
  BY DEF Packed!NoItem, Packed!None, PackItem, ItemHolds
<1>5. all \in SUBSET (Nat \ {0})
  OBVIOUS
<1>6. FileHolds(f, b, Packed!NoItem, copy, all)
  BY <1>1, <1>3, <1>4, <1>5 DEF FileHolds
<1>7. QED BY <1>6 DEF b

\* Planning: the item names the copy that the entry has; an upload that names none
\* replaces nothing that is needed.
LEMMA PlannedItemHolds ==
  ASSUME NEW f, NEW e, NEW j, NEW copy, NEW recorded, FileHolds(f, e, j, copy, recorded),
         NEW d \in PackEntry, d.storage = e.storage, d.pack = e.pack,
         NEW kind \in {"upload", "delete"}, NEW s \in Nat,
         d.remote => e.remote,
         ~d.remote => kind = "upload" /\ recorded \subseteq InVersions(f, e)
  PROVE  FileHolds(f, e, Packed!Item(kind, d, s), copy, recorded)
<1> DEFINE i == Packed!Item(kind, d, s)
<1>1. /\ i \in PackItem /\ i.kind = kind
      /\ i.previous = "none" => ~d.remote
      /\ i.previous = "pack" => d.remote /\ d.storage = "pack" /\ d.pack = i.pack
      /\ i.previous = "file" => d.remote /\ d.storage = "file"
  BY DEF Packed!Item, Packed!None, PackItem, PackEntry
<1> HIDE DEF i
<1>2. ItemHolds(f, e, i, copy, recorded)
  BY <1>1 DEF ItemHolds
<1>3. FileHolds(f, e, i, copy, recorded)
  BY <1>1, <1>2 DEF FileHolds
<1>4. QED BY <1>3 DEF i

LEMMA ScannedHolds ==
  ASSUME PacksInv, NEW f \in PackMembers, entries[f].status \notin {"dirty", "failed"}
  PROVE  FileHolds(f, entries[f], Packed!PlannedByScan(f), inTree[f], kept[f])
<1> DEFINE e == entries[f]
           d == [e EXCEPT !.remote = @ /\ e.status = "backed_up"]
<1>1. /\ FileHolds(f, e, plan[f], inTree[f], kept[f]) /\ e \in PackEntry
      /\ local[f] \in Nat /\ 0 \in Nat
  BY DEF PacksInv, PacksTyped, FileHolds
<1>2. /\ d \in PackEntry /\ d.storage = e.storage /\ d.pack = e.pack
      /\ (d.remote <=> e.remote /\ e.status = "backed_up")
  BY <1>1 DEF PackEntry
<1>3. Packed!AddUploadIfNeeded(f) = Packed!Item("upload", d, local[f])
  BY DEF Packed!AddUploadIfNeeded
<1>4. /\ ~e.remote => kept[f] = {}
      /\ e.status = "deleted" => kept[f] \subseteq InVersions(f, e)
      /\ e.status = "none" => ~e.remote
      /\ e.status = "pending" => e.remote
      /\ e.status \in Statuses
  BY <1>1 DEF FileHolds, EntryHolds, PackEntry
<1> HIDE DEF e, d
<1>5. CASE e.status = "pending"
  <2>1. Packed!PlannedByScan(f) = Packed!Item("delete", e, 0)
    BY <1>5 DEF Packed!PlannedByScan, Packed!None, e
  <2>2. FileHolds(f, e, Packed!Item("delete", e, 0), inTree[f], kept[f])
    BY <1>1, <1>4, <1>5, PlannedItemHolds
  <2>3. QED BY <2>1, <2>2 DEF e
<1>6. CASE e.status # "pending"
  <2>1. ~d.remote => kept[f] \subseteq InVersions(f, e)
    BY <1>2, <1>4, <1>6 DEF Statuses, e
  <2>2. FileHolds(f, e, Packed!Item("upload", d, local[f]), inTree[f], kept[f])
    BY <1>1, <1>2, <2>1, PlannedItemHolds
  <2>3. FileHolds(f, e, Packed!NoItem, inTree[f], kept[f])
    BY <1>1, DoneHolds
  <2>4. Packed!PlannedByScan(f) \in {Packed!NoItem, Packed!Item("upload", d, local[f])}
    BY <1>3, <1>6 DEF Packed!PlannedByScan, e
  <2>5. QED BY <2>2, <2>3, <2>4 DEF e
<1>7. QED BY <1>5, <1>6

LEMMA FromManifestHolds ==
  ASSUME PacksInv, NEW f \in PackMembers
  PROVE  /\ FileHolds(f, entries[f], Packed!PlannedFromManifest(f), inTree[f], kept[f])
         /\ Packed!ToForget(f) =>
              FileHolds(f, Packed!NoEntry, Packed!PlannedFromManifest(f), inTree[f], kept[f])
<1> DEFINE e == entries[f]
<1>1. /\ FileHolds(f, e, plan[f], inTree[f], kept[f]) /\ e \in PackEntry
      /\ local[f] \in Nat /\ inTree[f] \in Nat
  BY DEF PacksInv, PacksTyped, FileHolds
<1>2. /\ ~e.remote => kept[f] = {}
      /\ e.status = "pending" => e.remote
  BY <1>1 DEF FileHolds, EntryHolds
<1> HIDE DEF e
<1>3. FileHolds(f, e, Packed!Item("upload", e, local[f]), inTree[f], kept[f])
  BY <1>1, <1>2, PlannedItemHolds
<1>4. e.remote => FileHolds(f, e, Packed!Item("delete", e, 0), inTree[f], kept[f])
  <2>1. 0 \in Nat
    OBVIOUS
  <2>2. QED BY <1>1, <2>1, PlannedItemHolds
<1>5. FileHolds(f, e, Packed!NoItem, inTree[f], kept[f])
  BY <1>1, DoneHolds
<1>6. \/ Packed!PlannedFromManifest(f) \in {Packed!NoItem, Packed!Item("upload", e, local[f])}
      \/ e.remote /\ Packed!PlannedFromManifest(f) = Packed!Item("delete", e, 0)
  BY <1>2 DEF Packed!PlannedFromManifest, Packed!None, e
<1>7. FileHolds(f, e, Packed!PlannedFromManifest(f), inTree[f], kept[f])
  BY <1>3, <1>4, <1>5, <1>6
<1>8. ASSUME Packed!ToForget(f)
      PROVE  FileHolds(f, Packed!NoEntry, Packed!PlannedFromManifest(f), inTree[f], kept[f])
  <2>1. kept[f] = {} /\ Packed!PlannedFromManifest(f) = Packed!NoItem
    BY <1>2, <1>8 DEF Packed!ToForget, Packed!Waits, Packed!PlannedFromManifest, e
  <2>2. QED BY <1>1, <2>1, NothingHolds
<1>9. QED BY <1>7, <1>8 DEF e

-----------------------------------------------------------------------------
(* PackedFiles, its steps.  Most leave the bundles and move one file.       *)

LEMMA FilesKeepPacks ==
  ASSUME PacksInv, UNCHANGED <<bundles, vault>>,
         local' \in [PackMembers -> Nat], newest' \in Nat,
         NEW e, NEW i, NEW c, NEW k,
         entries' = [f \in PackMembers |-> e[f]], plan' = [f \in PackMembers |-> i[f]],
         inTree' = [f \in PackMembers |-> c[f]], kept' = [f \in PackMembers |-> k[f]],
         \A f \in PackMembers : FileHolds(f, e[f], i[f], c[f], k[f]),
         phase' = "packed" =>
           phase = "packed" /\ \A f \in PackMembers : i[f].kind = "upload" => plan[f].kind = "upload"
  PROVE  PacksInv'
<1>1. \A f \in PackMembers :
        e[f] \in PackEntry /\ i[f] \in PackItem /\ c[f] \in Nat /\ k[f] \in SUBSET (Nat \ {0})
  BY DEF FileHolds
<1>2. PacksTyped'
  BY <1>1 DEF PacksInv, PacksTyped
<1>3. \A f \in PackMembers : FileHolds(f, entries[f], plan[f], inTree[f], kept[f])'
  BY DEF FileHolds, EntryHolds, EntryNames, ItemHolds, InVersions, Current, Packed!Holds
<1>4. BundleIsMade'
  BY DEF PacksInv, BundleIsMade, Packed!Uploads
<1>5. QED BY <1>2, <1>3, <1>4 DEF PacksInv

LEMMA FileKeepsPacks ==
  ASSUME PacksInv, UNCHANGED <<bundles, vault>>,
         local' \in [PackMembers -> Nat], newest' \in Nat,
         NEW f \in PackMembers, NEW e, NEW i, NEW c, NEW k,
         entries' = [entries EXCEPT ![f] = e], plan' = [plan EXCEPT ![f] = i],
         inTree' = [inTree EXCEPT ![f] = c], kept' = [kept EXCEPT ![f] = k],
         FileHolds(f, e, i, c, k),
         phase' = "packed" => phase = "packed" /\ (i.kind = "upload" => plan[f].kind = "upload")
  PROVE  PacksInv'
<1> DEFINE es == [entries EXCEPT ![f] = e]
           is == [plan EXCEPT ![f] = i]
           cs == [inTree EXCEPT ![f] = c]
           ks == [kept EXCEPT ![f] = k]
<1>1. /\ entries' = [g \in PackMembers |-> es[g]] /\ plan' = [g \in PackMembers |-> is[g]]
      /\ inTree' = [g \in PackMembers |-> cs[g]] /\ kept' = [g \in PackMembers |-> ks[g]]
  BY DEF PacksInv, PacksTyped
<1>2. /\ es[f] = e /\ is[f] = i /\ cs[f] = c /\ ks[f] = k
      /\ \A g \in PackMembers : g # f => es[g] = entries[g] /\ is[g] = plan[g]
                                       /\ cs[g] = inTree[g] /\ ks[g] = kept[g]
  BY DEF PacksInv, PacksTyped
<1> HIDE DEF es, is, cs, ks
<1>3. \A g \in PackMembers : FileHolds(g, es[g], is[g], cs[g], ks[g])
  <2> TAKE g \in PackMembers
  <2>1. CASE g = f
    BY <1>2, <2>1
  <2>2. CASE g # f
    BY <1>2, <2>2 DEF PacksInv
  <2>3. QED BY <2>1, <2>2
<1>4. phase' = "packed" =>
        phase = "packed" /\ \A g \in PackMembers : is[g].kind = "upload" => plan[g].kind = "upload"
  BY <1>2
<1>5. QED BY <1>1, <1>3, <1>4, FilesKeepPacks

\* What is unchanged is changed to what it was.
LEMMA SameFiles ==
  ASSUME PacksInv, NEW f \in PackMembers
  PROVE  /\ entries = [entries EXCEPT ![f] = entries[f]] /\ plan = [plan EXCEPT ![f] = plan[f]]
         /\ inTree = [inTree EXCEPT ![f] = inTree[f]] /\ kept = [kept EXCEPT ![f] = kept[f]]
         /\ local \in [PackMembers -> Nat] /\ newest \in Nat
         /\ FileHolds(f, entries[f], plan[f], inTree[f], kept[f])
         /\ entries[f] \in PackEntry /\ plan[f] \in PackItem /\ inTree[f] \in Nat
         /\ local[f] \in Nat /\ kept[f] \in SUBSET (Nat \ {0})
BY DEF PacksInv, PacksTyped

LEMMA NoItemIsDone == Packed!NoItem.kind = "none"
BY DEF Packed!NoItem

LEMMA ChangeKeepsPacks ==
  ASSUME PacksInv, NEW f \in PackMembers, NEW content \in Nat, Packed!Changes(f, content)
  PROVE  PacksInv'
<1>1. /\ newest' = newest + 1 /\ local' = [local EXCEPT ![f] = content]
      /\ entries' \in {entries, [entries EXCEPT ![f] = Packed!Marked(entries[f], content # 0)]}
      /\ UNCHANGED <<inTree, bundles, vault, plan, phase, kept>>
  BY DEF Packed!Changes, Packed!None
<1>2. local' \in [PackMembers -> Nat] /\ newest' \in Nat
  BY <1>1, SameFiles
<1>3. FileHolds(f, Packed!Marked(entries[f], content # 0), plan[f], inTree[f], kept[f])
  BY SameFiles, MarkedHolds
<1>4. /\ plan' = [plan EXCEPT ![f] = plan[f]] /\ inTree' = [inTree EXCEPT ![f] = inTree[f]]
      /\ kept' = [kept EXCEPT ![f] = kept[f]]
  BY <1>1, SameFiles
<1>5. /\ UNCHANGED <<bundles, vault>>
      /\ phase' = "packed" => phase = "packed" /\ (plan[f].kind = "upload" => plan[f].kind = "upload")
  BY <1>1
<1>6. ASSUME NEW e, FileHolds(f, e, plan[f], inTree[f], kept[f]), entries' = [entries EXCEPT ![f] = e]
      PROVE  PacksInv'
  BY <1>2, <1>4, <1>5, <1>6, FileKeepsPacks
<1>7. QED BY <1>1, <1>3, <1>6, SameFiles

\* Every file is planned, by a scan that meets no entry which waits or by the manifest.
LEMMA PlanKeepsPacks ==
  ASSUME PacksInv, ~Unsettled, NEW full \in BOOLEAN, Packed!PlanFolder(full)
  PROVE  PacksInv'
<1> DEFINE es == [f \in PackMembers |-> IF ~full /\ Packed!ToForget(f) THEN Packed!NoEntry
                                       ELSE entries[f]]
           is == [f \in PackMembers |-> IF full THEN Packed!PlannedByScan(f)
                                       ELSE Packed!PlannedFromManifest(f)]
<1>1. /\ entries' = es /\ plan' = is /\ phase' # "packed"
      /\ UNCHANGED <<local, newest, inTree, bundles, vault, kept>>
      /\ full => \A f \in PackMembers : ~Packed!Waits(entries[f])
  BY DEF Packed!PlanFolder
<1>2. \A f \in PackMembers : FileHolds(f, es[f], is[f], inTree[f], kept[f])
  <2> TAKE f \in PackMembers
  <2>1. CASE full
    <3>1. entries[f].status \notin {"dirty", "failed"}
      BY <1>1, <2>1 DEF Packed!Waits
    <3>2. es[f] = entries[f] /\ is[f] = Packed!PlannedByScan(f)
      BY <2>1
    <3>3. QED BY <3>1, <3>2, ScannedHolds
  <2>2. CASE ~full
    <3>1. /\ es[f] = (IF Packed!ToForget(f) THEN Packed!NoEntry ELSE entries[f])
          /\ is[f] = Packed!PlannedFromManifest(f)
      BY <2>2
    <3>2. QED BY <3>1, FromManifestHolds
  <2>3. QED BY <2>1, <2>2
<1>3. /\ inTree' = [f \in PackMembers |-> inTree[f]] /\ kept' = [f \in PackMembers |-> kept[f]]
      /\ local' \in [PackMembers -> Nat] /\ newest' \in Nat
  BY <1>1 DEF PacksInv, PacksTyped
<1>4. entries' = [f \in PackMembers |-> es[f]] /\ plan' = [f \in PackMembers |-> is[f]]
  BY <1>1
<1> HIDE DEF es, is
<1>5. QED BY <1>1, <1>2, <1>3, <1>4, FilesKeepPacks

LEMMA MovedFile ==
  ASSUME PacksInv, UNCHANGED <<local, newest, bundles, vault>>,
         NEW f \in PackMembers, NEW e, NEW i, NEW c, NEW k,
         entries' = [entries EXCEPT ![f] = e], plan' = [plan EXCEPT ![f] = i],
         inTree' = [inTree EXCEPT ![f] = c], kept' = [kept EXCEPT ![f] = k],
         FileHolds(f, e, i, c, k), i.kind # "upload", phase' = "packed" => phase = "packed"
  PROVE  PacksInv'
<1>1. local' \in [PackMembers -> Nat] /\ newest' \in Nat /\ UNCHANGED <<bundles, vault>>
  BY SameFiles
<1>2. phase' = "packed" => phase = "packed" /\ (i.kind = "upload" => plan[f].kind = "upload")
  OBVIOUS
<1>3. QED BY <1>1, <1>2, FileKeepsPacks

\* An upload of a file that is gone, before a bundle or for itself.
LEMMA DisappearedKeepsPacks ==
  ASSUME PacksInv, NEW f \in PackMembers, Packed!HandleDisappearedLocalItem(f),
         UNCHANGED <<local, newest, bundles, vault>>, phase' = "packed" => phase = "packed"
  PROVE  PacksInv'
<1> DEFINE e == entries[f]
           b == IF ~e.remote THEN Packed!NoEntry
                ELSE IF e.storage = "pack" THEN Packed!RecordDeleted(e, Packed!InPack(e.pack))
                ELSE IF inTree[f] = 0 THEN [e EXCEPT !.status = "deleted"]
                ELSE Packed!RecordDeleted(e, Packed!InHistory(inTree[f]))
           c == IF e.remote /\ e.storage = "file" THEN 0 ELSE inTree[f]
<1>1. /\ entries' = [entries EXCEPT ![f] = b] /\ inTree' = [inTree EXCEPT ![f] = c]
      /\ plan' = [plan EXCEPT ![f] = Packed!NoItem] /\ kept' = [kept EXCEPT ![f] = kept[f]]
  BY SameFiles DEF Packed!HandleDisappearedLocalItem, Packed!Done, Packed!None
<1>2. /\ FileHolds(f, e, plan[f], inTree[f], kept[f]) /\ e \in PackEntry /\ EntryNames(e)
      /\ inTree[f] \in Nat /\ 0 \in Nat /\ c \in Nat /\ 0 \notin kept[f]
      /\ kept[f] \subseteq InVersions(f, e) \cup Current(f, e, inTree[f])
      /\ ~e.remote => kept[f] = {}
  BY SameFiles DEF FileHolds, EntryHolds
<1>3. FileHolds(f, b, Packed!NoItem, c, kept[f])
  <2>1. CASE ~e.remote
    <3>1. b = Packed!NoEntry /\ kept[f] = {}
      BY <1>2, <2>1
    <3>2. QED BY <1>2, <3>1, NothingHolds
  <2>2. CASE e.remote /\ e.storage = "pack"
    <3>1. b = Packed!RecordDeleted(e, Packed!InPack(e.pack))
      BY <2>2
    <3> HIDE DEF b, c, e
    <3>2. QED BY <1>2, <2>2, <3>1, PackVersionHolds, DeletedHolds
  <2>3. CASE e.remote /\ e.storage # "pack" /\ inTree[f] = 0
    <3>1. b = [e EXCEPT !.status = "deleted"] /\ c = 0 /\ Current(f, e, inTree[f]) = {0}
      BY <1>2, <2>3 DEF Current, PackEntry
    <3> HIDE DEF b, c, e
    <3>2. "deleted" \in Statuses /\ kept[f] \subseteq InVersions(f, e)
      BY <1>2, <3>1 DEF Statuses
    <3>3. FileHolds(f, [e EXCEPT !.status = "deleted"], plan[f], inTree[f], kept[f])
      BY <1>2, <3>2, StatusHolds
    <3>4. QED BY <2>3, <3>1, <3>3, DoneHolds
  <2>4. CASE e.remote /\ e.storage # "pack" /\ inTree[f] # 0
    <3>1. b = Packed!RecordDeleted(e, Packed!InHistory(inTree[f])) /\ e.storage = "file"
      BY <1>2, <2>4 DEF PackEntry
    <3> HIDE DEF b, c, e
    <3>2. QED BY <1>2, <2>4, <3>1, FileVersionHolds, DeletedHolds
  <2>5. QED BY <2>1, <2>2, <2>3, <2>4
<1> HIDE DEF b, c
<1>4. QED BY <1>1, <1>3, MovedFile, NoItemIsDone

\* The copy of what was packed is in the tree, then it is recorded.
LEMMA MigrationKeepsPacks ==
  ASSUME PacksInv, NEW f \in PackMembers, Packed!UploadPackedFileMigration(f)
  PROVE  PacksInv'
<1> DEFINE i == [plan[f] EXCEPT !.kind = "migrated"]
<1>1. /\ inTree' = [inTree EXCEPT ![f] = local[f]] /\ plan' = [plan EXCEPT ![f] = i]
      /\ UNCHANGED <<local, newest, entries, bundles, vault, phase, kept>>
      /\ plan[f].previous = "pack" /\ local[f] # 0
  BY SameFiles DEF Packed!UploadPackedFileMigration, Packed!ToMigrate, Packed!None
<1>2. i \in PackItem /\ i.kind = "migrated" /\ i.previous = "pack" /\ i.pack = plan[f].pack
  BY <1>1, SameFiles DEF PackItem
<1> HIDE DEF i
<1>3. entries[f].remote /\ entries[f].storage = "pack" /\ entries[f].pack = i.pack
  BY <1>1, <1>2, SameFiles DEF FileHolds, ItemHolds
<1>4. FileHolds(f, entries[f], i, local[f], kept[f])
  <2>1. Current(f, entries[f], local[f]) = Current(f, entries[f], inTree[f])
    BY <1>3 DEF Current
  <2>2. EntryHolds(f, entries[f], local[f], kept[f])
    BY <2>1, SameFiles DEF FileHolds, EntryHolds
  <2>3. ItemHolds(f, entries[f], i, local[f], kept[f])
    BY <1>1, <1>2, <1>3 DEF ItemHolds
  <2>4. QED BY <1>2, <2>2, <2>3, SameFiles DEF FileHolds
<1>5. /\ entries' = [entries EXCEPT ![f] = entries[f]] /\ kept' = [kept EXCEPT ![f] = kept[f]]
      /\ i.kind # "upload" /\ UNCHANGED <<local, newest, bundles, vault>>
      /\ phase' = "packed" => phase = "packed"
  BY <1>1, <1>2, SameFiles
<1>6. ASSUME NEW e, NEW k, FileHolds(f, e, i, local[f], k),
             entries' = [entries EXCEPT ![f] = e], kept' = [kept EXCEPT ![f] = k]
      PROVE  PacksInv'
  BY <1>1, <1>5, <1>6, MovedFile
<1>7. QED BY <1>4, <1>5, <1>6

LEMMA RecordMigrationKeepsPacks ==
  ASSUME PacksInv, NEW f \in PackMembers, Packed!RecordMigration(f)
  PROVE  PacksInv'
<1> DEFINE e == entries[f]
           v == Packed!InPack(plan[f].pack)
           h == Packed!RecordHistory(e, v)
           b == Packed!RecordBackedUp(h, plan[f].sig)
<1>1. /\ entries' = [entries EXCEPT ![f] = b] /\ plan' = [plan EXCEPT ![f] = Packed!NoItem]
      /\ kept' = [kept EXCEPT ![f] = kept[f] \cup {inTree[f]}]
      /\ inTree' = [inTree EXCEPT ![f] = inTree[f]]
      /\ UNCHANGED <<local, newest, bundles, vault, phase>> /\ plan[f].kind = "migrated"
  BY SameFiles DEF Packed!RecordMigration, Packed!RecordPackedMigrationHistory, Packed!Keep,
                   Packed!Done
<1>2. /\ e.remote /\ e.storage = "pack" /\ e.pack = plan[f].pack /\ inTree[f] # 0
      /\ e \in PackEntry /\ EntryNames(e) /\ inTree[f] \in Nat /\ plan[f].sig \in Nat
      /\ kept[f] \subseteq InVersions(f, e) \cup Current(f, e, inTree[f])
      /\ kept[f] \in SUBSET (Nat \ {0})
  BY <1>1, SameFiles DEF FileHolds, EntryHolds, ItemHolds, PackItem
<1> HIDE DEF e
<1>3. v \in PackVersion /\ v.pack \in vault /\ Current(f, e, inTree[f]) = {Packed!Holds(f, v)}
  BY <1>2, PackVersionHolds
<1> HIDE DEF v
<1>4. h \in PackEntry /\ h.versions = Append(e.versions, v)
  BY <1>2, <1>3, HistoryRecord
<1> HIDE DEF h
<1>5. /\ kept[f] \subseteq InVersions(f, h)
      /\ \A w \in Packed!ToSet(h.versions) : w.pack # 0 => w.pack \in vault
  <2>1. /\ InVersions(f, h) = InVersions(f, e) \cup {Packed!Holds(f, v)}
        /\ \A w \in Packed!ToSet(h.versions) : w.pack # 0 => w.pack \in vault
    BY <1>2, <1>3, <1>4, VersionHolds
  <2>2. QED BY <1>2, <1>3, <2>1
<1>6. FileHolds(f, b, Packed!NoItem, inTree[f], kept[f] \cup {inTree[f]})
  BY <1>2, <1>4, <1>5, BackedUpHolds
<1> HIDE DEF b
<1>7. QED BY <1>1, <1>6, MovedFile, NoItemIsDone

LEMMA FailureKeepsPacks ==
  ASSUME PacksInv, NEW f \in PackMembers, Packed!UploadFails(f)
  PROVE  PacksInv'
<1> DEFINE b == [entries[f] EXCEPT !.status = "failed"]
<1>1. /\ entries' = [entries EXCEPT ![f] = b] /\ plan' = [plan EXCEPT ![f] = Packed!NoItem]
      /\ inTree' = [inTree EXCEPT ![f] = inTree[f]] /\ kept' = [kept EXCEPT ![f] = kept[f]]
      /\ UNCHANGED <<local, newest, bundles, vault, phase>>
  BY SameFiles DEF Packed!UploadFails, Packed!Done
<1>2. "failed" \in Statuses
  BY DEF Statuses
<1>3. FileHolds(f, b, plan[f], inTree[f], kept[f])
  BY <1>2, SameFiles, StatusHolds
<1> HIDE DEF b
<1>4. FileHolds(f, b, Packed!NoItem, inTree[f], kept[f])
  BY <1>3, DoneHolds
<1>5. QED BY <1>1, <1>4, MovedFile, NoItemIsDone

\* The copy that is replaced becomes a version, unless the versions hold all there was.
LEMMA UploadKeepsPacks ==
  ASSUME PacksInv, NEW f \in PackMembers, Packed!UploadDirect(f)
  PROVE  PacksInv'
<1> DEFINE e == entries[f]
           v == Packed!InHistory(inTree[f])
           h == IF plan[f].previous = "file" THEN Packed!RecordHistory(e, v) ELSE e
           b == Packed!RecordBackedUp(h, plan[f].sig)
<1>1. /\ entries' = [entries EXCEPT ![f] = b] /\ plan' = [plan EXCEPT ![f] = Packed!NoItem]
      /\ kept' = [kept EXCEPT ![f] = kept[f] \cup {local[f]}]
      /\ inTree' = [inTree EXCEPT ![f] = local[f]]
      /\ UNCHANGED <<local, newest, bundles, vault, phase>>
      /\ plan[f].kind = "upload" /\ plan[f].previous # "pack" /\ local[f] # 0
  <2>1. /\ entries' = [entries EXCEPT ![f] = b] /\ inTree' = [inTree EXCEPT ![f] = local[f]]
        /\ Packed!IsNext(f) /\ f \notin Packed!ToMigrate /\ local[f] # 0
        /\ Packed!Keep(f, local[f]) /\ Packed!Done(f)
        /\ UNCHANGED <<local, newest, bundles, vault, phase>>
    BY Zenon DEF Packed!UploadDirect, Packed!None
  <2> HIDE DEF b
  <2>2. plan[f].kind = "upload" /\ plan[f].previous # "pack"
    BY <2>1, Zenon DEF Packed!IsNext, Packed!ToMigrate, Packed!Uploads
  <2>3. QED BY <2>1, <2>2 DEF Packed!Keep, Packed!Done
<1>2. /\ plan[f].previous = "file" => e.storage = "file"
      /\ plan[f].previous # "file" => kept[f] \subseteq InVersions(f, e)
      /\ e \in PackEntry /\ EntryNames(e) /\ inTree[f] \in Nat /\ plan[f].sig \in Nat
      /\ kept[f] \subseteq InVersions(f, e) \cup Current(f, e, inTree[f])
      /\ kept[f] \in SUBSET (Nat \ {0}) /\ local[f] \in Nat \ {0}
  BY <1>1, SameFiles DEF FileHolds, EntryHolds, ItemHolds, PackItem
<1> HIDE DEF e
<1>3. /\ h \in PackEntry /\ kept[f] \subseteq InVersions(f, h)
      /\ \A w \in Packed!ToSet(h.versions) : w.pack # 0 => w.pack \in vault
  <2>1. CASE plan[f].previous # "file"
    <3>1. h = e
      BY <2>1
    <3>2. QED BY <1>2, <2>1, <3>1 DEF EntryNames
  <2>2. CASE plan[f].previous = "file"
    <3>1. /\ v \in PackVersion /\ v.pack = 0
          /\ Current(f, e, inTree[f]) \subseteq {Packed!Holds(f, v)}
      BY <1>2, <2>2, FileVersionHolds
    <3>2. h = Packed!RecordHistory(e, v)
      BY <2>2
    <3> HIDE DEF v, h
    <3>3. h \in PackEntry /\ h.versions = Append(e.versions, v)
      BY <1>2, <3>1, <3>2, HistoryRecord
    <3>4. /\ InVersions(f, h) = InVersions(f, e) \cup {Packed!Holds(f, v)}
          /\ \A w \in Packed!ToSet(h.versions) : w.pack # 0 => w.pack \in vault
      BY <1>2, <3>1, <3>3, VersionHolds
    <3>5. QED BY <1>2, <3>1, <3>3, <3>4
  <2>3. QED BY <2>1, <2>2
<1> HIDE DEF h
<1>4. FileHolds(f, b, Packed!NoItem, local[f], kept[f] \cup {local[f]})
  BY <1>2, <1>3, BackedUpHolds
<1> HIDE DEF b
<1>5. QED BY <1>1, <1>4, MovedFile, NoItemIsDone

LEMMA DeletionKeepsPacks ==
  ASSUME PacksInv, NEW f \in PackMembers, Packed!DeleteFilesToHistory(f)
  PROVE  PacksInv'
<1> DEFINE e == entries[f]
           v == IF plan[f].previous = "pack" THEN Packed!InPack(plan[f].pack)
                ELSE Packed!InHistory(inTree[f])
           b == Packed!RecordDeleted(e, v)
           c == IF plan[f].previous = "pack" THEN inTree[f] ELSE 0
<1>1. /\ entries' = [entries EXCEPT ![f] = b] /\ plan' = [plan EXCEPT ![f] = Packed!NoItem]
      /\ kept' = [kept EXCEPT ![f] = kept[f]] /\ inTree' = [inTree EXCEPT ![f] = c]
      /\ UNCHANGED <<local, newest, bundles, vault, phase>> /\ plan[f].kind = "delete"
  BY SameFiles DEF Packed!DeleteFilesToHistory, Packed!Done, Packed!None
<1>2. /\ FileHolds(f, e, plan[f], inTree[f], kept[f]) /\ e \in PackEntry /\ EntryNames(e)
      /\ inTree[f] \in Nat /\ c \in Nat /\ e.remote
      /\ plan[f].previous = "pack" => e.storage = "pack" /\ e.pack = plan[f].pack
      /\ plan[f].previous # "pack" => e.storage = "file"
  BY <1>1, SameFiles DEF FileHolds, ItemHolds, PackItem
<1> HIDE DEF e
<1>3. /\ v \in PackVersion /\ (v.pack # 0 => v.pack \in vault)
      /\ Current(f, e, inTree[f]) \subseteq {Packed!Holds(f, v)}
  <2>1. CASE plan[f].previous = "pack"
    <3>1. v = Packed!InPack(e.pack)
      BY <1>2, <2>1
    <3> HIDE DEF v
    <3>2. QED BY <1>2, <2>1, <3>1, PackVersionHolds
  <2>2. CASE plan[f].previous # "pack"
    <3>1. v = Packed!InHistory(inTree[f])
      BY <2>2
    <3> HIDE DEF v
    <3>2. QED BY <1>2, <2>2, <3>1, FileVersionHolds
  <2>3. QED BY <2>1, <2>2
<1> HIDE DEF v, c
<1>4. FileHolds(f, b, Packed!NoItem, c, kept[f])
  BY <1>2, <1>3, DeletedHolds
<1> HIDE DEF b
<1>5. QED BY <1>1, <1>4, MovedFile, NoItemIsDone

\* The members of a bundle are recorded together.
LEMMA PackedFileHolds ==
  ASSUME PacksInv, phase = "packed", NEW f \in Packed!Uploads
  PROVE  LET p == Len(bundles)
             h == [entries[f] EXCEPT !.versions = @ \o Packed!Replaced(f)]
         IN FileHolds(f, Packed!RecordPackedBackedUp(h, plan[f].sig, p), Packed!NoItem,
                      IF plan[f].previous = "file" THEN 0 ELSE inTree[f],
                      kept[f] \cup {bundles[p][f]})
<1> DEFINE e == entries[f]
           p == Len(bundles)
           h == [e EXCEPT !.versions = @ \o Packed!Replaced(f)]
           c == IF plan[f].previous = "file" THEN 0 ELSE inTree[f]
<1>1. f \in PackMembers /\ plan[f].kind = "upload"
  BY DEF Packed!Uploads
<1>2. /\ e \in PackEntry /\ EntryNames(e) /\ inTree[f] \in Nat /\ plan[f].sig \in Nat /\ c \in Nat
      /\ kept[f] \in SUBSET (Nat \ {0}) /\ kept[f] \subseteq InVersions(f, e) \cup Current(f, e, inTree[f])
      /\ plan[f].previous \in {"none", "file", "pack"} /\ e.versions \in Seq(PackVersion)
      /\ plan[f].previous = "none" => kept[f] \subseteq InVersions(f, e)
      /\ plan[f].previous = "pack" => e.remote /\ e.storage = "pack" /\ e.pack = plan[f].pack
      /\ plan[f].previous = "file" => e.remote /\ e.storage = "file"
  BY <1>1, SameFiles DEF FileHolds, EntryHolds, ItemHolds, PackItem, PackEntry
<1>3. /\ p \in Nat /\ p \in Nat \ {0} /\ p \in vault
      /\ bundles[p][f] \in Nat \ {0}
  <2>1. p \in 1 .. Len(bundles) /\ p \in vault /\ bundles[p][f] # 0
    BY DEF PacksInv, BundleIsMade, PacksTyped
  <2>2. bundles[p] \in [PackMembers -> Nat]
    BY <2>1 DEF PacksInv, PacksTyped
  <2>3. QED BY <1>1, <2>1, <2>2
<1>4. \A v \in PackVersion : e.versions \o <<v>> = Append(e.versions, v)
  BY <1>2
<1>5. e.versions \o <<>> = e.versions
  BY <1>2
<1>6. e.versions \o Packed!Replaced(f) \in Seq(PackVersion)
      => h \in PackEntry /\ h.versions = e.versions \o Packed!Replaced(f)
  BY <1>2 DEF PackEntry
<1> HIDE DEF e, h, c, p
<1> DEFINE good == /\ h \in PackEntry /\ kept[f] \subseteq InVersions(f, h)
                   /\ \A w \in Packed!ToSet(h.versions) : w.pack # 0 => w.pack \in vault
<1>7. good
  <2>1. ASSUME NEW v \in PackVersion, v.pack # 0 => v.pack \in vault,
               Current(f, e, inTree[f]) \subseteq {Packed!Holds(f, v)}, Packed!Replaced(f) = <<v>>
        PROVE  good
    <3>1. h \in PackEntry /\ h.versions = Append(e.versions, v)
      BY <1>2, <1>4, <1>6, <2>1, AppendedSet
    <3>2. /\ InVersions(f, h) = InVersions(f, e) \cup {Packed!Holds(f, v)}
          /\ \A w \in Packed!ToSet(h.versions) : w.pack # 0 => w.pack \in vault
      BY <1>2, <2>1, <3>1, VersionHolds
    <3>3. QED BY <1>2, <2>1, <3>1, <3>2
  <2>2. ASSUME kept[f] \subseteq InVersions(f, e), Packed!Replaced(f) = <<>>
        PROVE  good
    <3>1. h \in PackEntry /\ h.versions = e.versions
      BY <1>2, <1>5, <1>6, <2>2
    <3>2. QED BY <1>2, <2>2, <3>1 DEF InVersions, EntryNames
  <2>3. CASE plan[f].previous = "pack"
    <3>1. Packed!Replaced(f) = <<Packed!InPack(e.pack)>>
      BY <1>2, <2>3 DEF Packed!Replaced
    <3>2. /\ Packed!InPack(e.pack) \in PackVersion /\ Packed!InPack(e.pack).pack \in vault
          /\ Current(f, e, inTree[f]) = {Packed!Holds(f, Packed!InPack(e.pack))}
      BY <1>2, <2>3, PackVersionHolds
    <3>3. QED BY <2>1, <3>1, <3>2
  <2>4. CASE plan[f].previous = "file" /\ inTree[f] # 0
    <3>1. Packed!Replaced(f) = <<Packed!InHistory(inTree[f])>>
      BY <2>4 DEF Packed!Replaced, Packed!None
    <3>2. /\ Packed!InHistory(inTree[f]) \in PackVersion /\ Packed!InHistory(inTree[f]).pack = 0
          /\ Current(f, e, inTree[f]) \subseteq {Packed!Holds(f, Packed!InHistory(inTree[f]))}
      BY <1>2, <2>4, FileVersionHolds
    <3>3. QED BY <2>1, <3>1, <3>2
  <2>5. CASE plan[f].previous = "file" /\ inTree[f] = 0
    <3>1. Packed!Replaced(f) = <<>>
      BY <2>5 DEF Packed!Replaced, Packed!None
    <3>2. Current(f, e, inTree[f]) = {0}
      BY <1>2, <2>5 DEF Current
    <3>3. QED BY <1>2, <2>2, <3>1, <3>2
  <2>6. CASE plan[f].previous = "none"
    <3>1. Packed!Replaced(f) = <<>>
      BY <2>6 DEF Packed!Replaced
    <3>2. QED BY <1>2, <2>2, <2>6, <3>1
  <2>7. QED BY <1>2, <2>3, <2>4, <2>5, <2>6
<1>8. FileHolds(f, Packed!RecordPackedBackedUp(h, plan[f].sig, p), Packed!NoItem, c,
                kept[f] \cup {bundles[p][f]})
  BY <1>2, <1>3, <1>7, PackedHolds
<1>9. QED BY <1>8 DEF h, c, p, e

LEMMA RecordPackedKeepsPacks ==
  ASSUME PacksInv, Packed!RecordPacked
  PROVE  PacksInv'
<1> DEFINE p == Len(bundles)
           es == [f \in PackMembers |->
                    IF f \notin Packed!Uploads THEN entries[f]
                    ELSE Packed!RecordPackedBackedUp(
                           [entries[f] EXCEPT !.versions = @ \o Packed!Replaced(f)], plan[f].sig, p)]
           cs == [f \in PackMembers |->
                    IF f \in Packed!Uploads /\ plan[f].previous = "file" THEN 0 ELSE inTree[f]]
           ks == [f \in PackMembers |->
                    kept[f] \cup (IF f \in Packed!Uploads THEN {bundles[p][f]} ELSE {})]
           is == [f \in PackMembers |-> IF f \in Packed!Uploads THEN Packed!NoItem ELSE plan[f]]
<1>1. /\ entries' = es /\ inTree' = cs /\ kept' = ks /\ plan' = is /\ phase = "packed"
      /\ phase' # "packed" /\ UNCHANGED <<local, newest, bundles, vault>>
  BY DEF Packed!RecordPacked, Packed!None
<1>2. \A f \in PackMembers : FileHolds(f, es[f], is[f], cs[f], ks[f])
  <2> TAKE f \in PackMembers
  <2>1. CASE f \in Packed!Uploads
    <3>1. /\ es[f] = Packed!RecordPackedBackedUp(
                        [entries[f] EXCEPT !.versions = @ \o Packed!Replaced(f)], plan[f].sig, p)
          /\ is[f] = Packed!NoItem /\ cs[f] = (IF plan[f].previous = "file" THEN 0 ELSE inTree[f])
          /\ ks[f] = kept[f] \cup {bundles[p][f]}
      BY <2>1
    <3> HIDE DEF es, is, cs, ks
    <3>2. QED BY <1>1, <2>1, <3>1, PackedFileHolds
  <2>2. CASE f \notin Packed!Uploads
    <3>1. es[f] = entries[f] /\ is[f] = plan[f] /\ cs[f] = inTree[f] /\ ks[f] = kept[f]
      BY <2>2
    <3> HIDE DEF es, is, cs, ks
    <3>2. QED BY <3>1, SameFiles
  <2>3. QED BY <2>1, <2>2
<1>3. /\ entries' = [f \in PackMembers |-> es[f]] /\ plan' = [f \in PackMembers |-> is[f]]
      /\ inTree' = [f \in PackMembers |-> cs[f]] /\ kept' = [f \in PackMembers |-> ks[f]]
  BY <1>1
<1> HIDE DEF es, is, cs, ks
<1>4. local' \in [PackMembers -> Nat] /\ newest' \in Nat
  BY <1>1 DEF PacksInv, PacksTyped
<1>5. QED BY <1>1, <1>2, <1>3, <1>4, FilesKeepPacks

\* The bundles in the vault stay as they are, and those that are named stay in it.
LEMMA BundlesKeepPacks ==
  ASSUME PacksInv, UNCHANGED <<local, newest, inTree, entries, plan, kept>>,
         bundles' \in Seq([PackMembers -> Nat]), vault' \in SUBSET (1 .. Len(bundles')),
         \A p \in vault : bundles'[p] = bundles[p],
         \A f \in PackMembers :
           /\ entries[f].pack # 0 => entries[f].pack \in vault'
           /\ \A v \in Packed!ToSet(entries[f].versions) : v.pack # 0 => v.pack \in vault',
         BundleIsMade'
  PROVE  PacksInv'
<1>1. PacksTyped'
  BY DEF PacksInv, PacksTyped
<1>2. ASSUME NEW f \in PackMembers
      PROVE  FileHolds(f, entries[f], plan[f], inTree[f], kept[f])'
  <2> DEFINE e == entries[f]
  <2>1. FileHolds(f, e, plan[f], inTree[f], kept[f]) /\ EntryNames(e)
    BY DEF PacksInv, FileHolds
  <2>2. \A v \in Packed!ToSet(e.versions) : Packed!Holds(f, v)' = Packed!Holds(f, v)
    BY <2>1 DEF EntryNames, Packed!Holds, Packed!None
  <2>3. InVersions(f, e)' = InVersions(f, e)
    BY <2>2 DEF InVersions
  <2>4. e.remote => Current(f, e, inTree[f])' = Current(f, e, inTree[f])
    BY <2>1 DEF EntryNames, Current
  <2>5. ~e.remote => kept[f] = {}
    BY <2>1 DEF FileHolds, EntryHolds
  <2>6. EntryHolds(f, e, inTree[f], kept[f])'
    BY <2>1, <2>3, <2>4, <2>5 DEF FileHolds, EntryHolds
  <2>7. EntryNames(e)'
    BY <2>1 DEF EntryNames
  <2>8. ItemHolds(f, e, plan[f], inTree[f], kept[f])'
    BY <2>1, <2>3 DEF FileHolds, ItemHolds
  <2>9. QED BY <2>1, <2>6, <2>7, <2>8 DEF FileHolds
<1>3. QED BY <1>1, <1>2 DEF PacksInv

LEMMA BundleKeepsPacks ==
  ASSUME PacksInv, Packed!UploadPackedFiles
  PROVE  PacksInv'
<1> DEFINE new == [f \in PackMembers |-> IF f \in Packed!Uploads THEN local[f] ELSE 0]
<1>1. /\ bundles' = Append(bundles, new) /\ vault' = vault \cup {Len(bundles')}
      /\ \A f \in Packed!Uploads : local[f] # 0
      /\ UNCHANGED <<local, newest, inTree, entries, packing, plan, kept>>
  BY DEF Packed!UploadPackedFiles, Packed!None
<1>2. new \in [PackMembers -> Nat] /\ bundles \in Seq([PackMembers -> Nat])
  BY DEF PacksInv, PacksTyped
<1>3. \A f \in Packed!Uploads : new[f] # 0
  BY <1>1 DEF Packed!Uploads
<1> HIDE DEF new
<1>4. /\ bundles' \in Seq([PackMembers -> Nat]) /\ Len(bundles') = Len(bundles) + 1
      /\ bundles'[Len(bundles')] = new /\ \A p \in 1 .. Len(bundles) : bundles'[p] = bundles[p]
  <2> DEFINE T == [PackMembers -> Nat]
  <2> HIDE DEF T
  <2>1. ASSUME NEW s \in Seq(T), NEW x \in T
        PROVE  /\ Append(s, x) \in Seq(T) /\ Len(Append(s, x)) = Len(s) + 1
               /\ Append(s, x)[Len(Append(s, x))] = x
               /\ \A p \in 1 .. Len(s) : Append(s, x)[p] = s[p]
    OBVIOUS
  <2>2. new \in T /\ bundles \in Seq(T)
    BY <1>2 DEF T
  <2>3. QED BY <1>1, <2>1, <2>2 DEF T
<1>5. vault' \in SUBSET (1 .. Len(bundles')) /\ \A p \in vault : bundles'[p] = bundles[p]
  <2>1. vault \subseteq 1 .. Len(bundles) /\ Len(bundles) \in Nat
    BY <1>2 DEF PacksInv, PacksTyped
  <2>2. vault' = vault \cup {Len(bundles) + 1} /\ Len(bundles') = Len(bundles) + 1
    BY <1>1, <1>4
  <2>3. vault' \in SUBSET (1 .. Len(bundles'))
    <3> DEFINE n == Len(bundles)
    <3>1. \A p \in vault : p \in 1 .. n
      BY <2>1
    <3> HIDE DEF n
    <3>2. n \in Nat /\ vault' = vault \cup {n + 1} /\ Len(bundles') = n + 1
      BY <2>1, <2>2 DEF n
    <3>3. \A p \in vault' : p \in 1 .. n + 1
      BY <3>1, <3>2
    <3>4. QED BY <3>2, <3>3
  <2>4. QED BY <1>4, <2>1, <2>3
<1>6. \A f \in PackMembers :
        /\ entries[f].pack # 0 => entries[f].pack \in vault'
        /\ \A v \in Packed!ToSet(entries[f].versions) : v.pack # 0 => v.pack \in vault'
  BY <1>1, SameFiles DEF FileHolds, EntryNames
<1>7. BundleIsMade'
  BY <1>1, <1>3, <1>4 DEF BundleIsMade, Packed!Uploads
<1>8. UNCHANGED <<local, newest, inTree, entries, plan, kept>>
  BY <1>1
<1>9. QED BY <1>4, <1>5, <1>6, <1>7, <1>8, BundlesKeepPacks

LEMMA PruneKeepsPacks ==
  ASSUME PacksInv, Packed!PruneUnreferencedPacks
  PROVE  PacksInv'
<1>1. /\ vault' = vault \cap Packed!GetReferencedPackPaths /\ phase' = "idle"
      /\ UNCHANGED <<local, newest, inTree, entries, bundles, plan, kept>>
  BY DEF Packed!PruneUnreferencedPacks
<1>2. /\ bundles' \in Seq([PackMembers -> Nat]) /\ vault' \in SUBSET (1 .. Len(bundles'))
      /\ \A p \in vault : bundles'[p] = bundles[p]
  BY <1>1 DEF PacksInv, PacksTyped
<1>3. \A f \in PackMembers :
        /\ entries[f].pack # 0 => entries[f].pack \in Packed!GetReferencedPackPaths
        /\ \A v \in Packed!ToSet(entries[f].versions) :
             v.pack # 0 => v.pack \in Packed!GetReferencedPackPaths
  <2> SUFFICES ASSUME NEW f \in PackMembers, NEW p,
                      \/ p = entries[f].pack
                      \/ \E v \in Packed!ToSet(entries[f].versions) : p = v.pack,
                      p # 0
               PROVE  p \in Packed!GetReferencedPackPaths
    OBVIOUS
  <2>1. p \in Packed!PackOfEntry(f) \cup {v.pack : v \in Packed!ToSet(entries[f].versions)}
    BY DEF Packed!PackOfEntry, Packed!None
  <2>2. QED BY <2>1 DEF Packed!GetReferencedPackPaths, Packed!None
<1>4. \A f \in PackMembers :
        /\ entries[f].pack # 0 => entries[f].pack \in vault'
        /\ \A v \in Packed!ToSet(entries[f].versions) : v.pack # 0 => v.pack \in vault'
  BY <1>1, <1>3, SameFiles DEF FileHolds, EntryNames
<1>5. BundleIsMade' /\ UNCHANGED <<local, newest, inTree, entries, plan, kept>>
  BY <1>1 DEF BundleIsMade
<1>6. QED BY <1>2, <1>4, <1>5, BundlesKeepPacks

LEMMA StopKeepsPacks ==
  ASSUME PacksInv, Packed!Stop
  PROVE  PacksInv'
<1> DEFINE is == [f \in PackMembers |-> Packed!NoItem]
<1>1. /\ plan' = [f \in PackMembers |-> is[f]] /\ phase' # "packed"
      /\ entries' = [f \in PackMembers |-> entries[f]] /\ inTree' = [f \in PackMembers |-> inTree[f]]
      /\ kept' = [f \in PackMembers |-> kept[f]] /\ UNCHANGED <<bundles, vault>>
      /\ local' \in [PackMembers -> Nat] /\ newest' \in Nat
  BY DEF Packed!Stop, PacksInv, PacksTyped
<1>2. \A f \in PackMembers : is[f] = Packed!NoItem
  OBVIOUS
<1> HIDE DEF is
<1>3. \A f \in PackMembers : FileHolds(f, entries[f], is[f], inTree[f], kept[f])
  BY <1>2, SameFiles, DoneHolds
<1>4. QED BY <1>1, <1>3, FilesKeepPacks

\* The oldest version goes, with what it holds.
LEMMA ExpiryKeepsPacks ==
  ASSUME Packed!PacksAssumption, PacksInv, NEW f \in PackMembers, Packed!PurgeExpiredHistory(f)
  PROVE  PacksInv'
<1> DEFINE e == entries[f]
           b == [e EXCEPT !.versions = Tail(@)]
           k == kept[f] \ {Packed!Holds(f, Head(e.versions))}
<1>1. /\ Len(e.versions) > MinVersions /\ kept' = [kept EXCEPT ![f] = k]
      /\ entries' = [entries EXCEPT ![f] = b] /\ plan[f] = Packed!NoItem
      /\ UNCHANGED <<local, newest, inTree, bundles, vault, plan, phase>>
  BY DEF Packed!PurgeExpiredHistory, Packed!Worked
<1>2. /\ FileHolds(f, e, plan[f], inTree[f], kept[f]) /\ e \in PackEntry
      /\ e.versions \in Seq(PackVersion) /\ kept[f] \in SUBSET (Nat \ {0})
  BY SameFiles DEF PackEntry
<1>3. e.versions # <<>>
  BY <1>1, <1>2 DEF Packed!PacksAssumption
<1>4. /\ Tail(e.versions) \in Seq(PackVersion)
      /\ Packed!ToSet(e.versions) = Packed!ToSet(Tail(e.versions)) \cup {Head(e.versions)}
  BY <1>2, <1>3, TailSet
<1>5. /\ b \in PackEntry /\ b.status = e.status /\ b.storage = e.storage /\ b.pack = e.pack
      /\ (b.remote <=> e.remote) /\ b.versions = Tail(e.versions)
  BY <1>2, <1>4 DEF PackEntry
<1> HIDE DEF e, b
<1>6. /\ InVersions(f, e) = InVersions(f, b) \cup {Packed!Holds(f, Head(e.versions))}
      /\ Current(f, b, inTree[f]) = Current(f, e, inTree[f])
  BY <1>4, <1>5 DEF InVersions, Current
<1>7. EntryHolds(f, b, inTree[f], k)
  BY <1>2, <1>3, <1>5, <1>6 DEF FileHolds, EntryHolds
<1>8. EntryNames(b)
  BY <1>2, <1>4, <1>5 DEF FileHolds, EntryNames
<1>9. ItemHolds(f, b, Packed!NoItem, inTree[f], k) /\ Packed!NoItem \in PackItem
  BY DEF Packed!NoItem, Packed!None, PackItem, ItemHolds
<1>10. FileHolds(f, b, Packed!NoItem, inTree[f], k)
  BY <1>2, <1>5, <1>7, <1>8, <1>9 DEF FileHolds
<1>11. plan' = [plan EXCEPT ![f] = Packed!NoItem] /\ inTree' = [inTree EXCEPT ![f] = inTree[f]]
  BY <1>1, SameFiles
<1> HIDE DEF k
<1>12. QED BY <1>1, <1>10, <1>11, MovedFile, NoItemIsDone

LEMMA PacksInit == Packed!PacksAssumption /\ Packed!Init => PacksInv
<1> SUFFICES ASSUME Packed!PacksAssumption, Packed!Init PROVE PacksInv
  OBVIOUS
<1> DEFINE one == Packed!Packed(1)
<1>1. /\ local = [f \in PackMembers |-> 1] /\ newest = 1 /\ inTree = [f \in PackMembers |-> 0]
      /\ plan = [f \in PackMembers |-> Packed!NoItem] /\ phase = "idle"
  BY DEF Packed!Init, Packed!None
<1>2. /\ Packed!NoEntry \in PackEntry /\ Packed!NoItem \in PackItem
      /\ \A f \in PackMembers : FileHolds(f, Packed!NoEntry, Packed!NoItem, 0, {})
  BY NothingHolds DEF FileHolds
<1>3. /\ one \in PackEntry /\ one.status = "backed_up" /\ one.storage = "pack" /\ one.pack = 1
      /\ one.remote /\ one.versions = <<>>
  <2>1. Packed!NoEntry.versions = <<>>
    BY DEF Packed!NoEntry
  <2>2. QED BY <1>2, <2>1 DEF Packed!Packed, PackEntry, Statuses
<1>4. BundleIsMade
  BY <1>1 DEF BundleIsMade
<1>5. CASE /\ entries = [f \in PackMembers |-> Packed!NoEntry]
           /\ bundles = <<>> /\ vault = {} /\ kept = [f \in PackMembers |-> {}]
  <2>1. PacksTyped
    BY <1>1, <1>2, <1>5 DEF PacksTyped
  <2>2. QED BY <1>1, <1>2, <1>4, <1>5, <2>1 DEF PacksInv
<1>6. CASE /\ entries = [f \in PackMembers |-> one]
           /\ bundles = <<local>> /\ vault = {1} /\ kept = [f \in PackMembers |-> {1}]
  <2> HIDE DEF one
  <2>1. PacksTyped
    BY <1>1, <1>2, <1>3, <1>6 DEF PacksTyped
  <2>2. Packed!ToSet(<<>>) = {}
    BY DEF Packed!ToSet
  <2>3. ASSUME NEW f \in PackMembers PROVE FileHolds(f, one, Packed!NoItem, 0, {1})
    <3>1. Current(f, one, 0) = {1}
      BY <1>1, <1>3, <1>6 DEF Current
    <3>2. EntryHolds(f, one, 0, {1})
      BY <1>3, <3>1 DEF EntryHolds
    <3>3. EntryNames(one)
      BY <1>3, <1>6, <2>2 DEF EntryNames
    <3>4. ItemHolds(f, one, Packed!NoItem, 0, {1})
      BY DEF ItemHolds, Packed!NoItem
    <3>5. QED BY <1>2, <1>3, <3>2, <3>3, <3>4 DEF FileHolds
  <2>4. QED BY <1>1, <1>4, <1>6, <2>1, <2>3 DEF PacksInv
<1>7. QED BY <1>5, <1>6 DEF Packed!Init

LEMMA PacksStep ==
  ASSUME Packed!PacksAssumption, "repack" \notin Failures, ~Unsettled, PacksInv,
         [Packed!Next]_(Packed!vars)
  PROVE  PacksInv'
<1>1. ASSUME NEW f \in PackMembers, Packed!Write(f) \/ Packed!Delete(f) PROVE PacksInv'
  <2>1. newest' \in Nat /\ 0 \in Nat
    BY <1>1, SameFiles DEF Packed!Write, Packed!Delete, Packed!Changes
  <2>2. Packed!Changes(f, newest') \/ Packed!Changes(f, 0)
    BY <1>1 DEF Packed!Write, Packed!Delete, Packed!None
  <2>3. ASSUME Packed!Changes(f, newest') PROVE PacksInv'
    BY <2>1, <2>3, ChangeKeepsPacks
  <2>4. QED BY <2>1, <2>2, <2>3, ChangeKeepsPacks
<1>2. ASSUME NEW f \in PackMembers, Packed!SkipDisappeared(f) \/ Packed!UploadOfNothing(f)
      PROVE  PacksInv'
  BY <1>2, DisappearedKeepsPacks DEF Packed!SkipDisappeared, Packed!UploadOfNothing
<1>3. ASSUME NEW f \in PackMembers,
             \/ Packed!UploadPackedFileMigration(f) \/ Packed!RecordMigration(f)
             \/ Packed!UploadFails(f) \/ Packed!UploadDirect(f)
             \/ Packed!DeleteFilesToHistory(f) \/ Packed!PurgeExpiredHistory(f)
      PROVE  PacksInv'
  BY <1>3, MigrationKeepsPacks, RecordMigrationKeepsPacks, FailureKeepsPacks, UploadKeepsPacks,
     DeletionKeepsPacks, ExpiryKeepsPacks
<1>4. CASE Packed!LoadDatabase
  <2>1. UNCHANGED <<local, newest, inTree, entries, bundles, vault, plan, phase, kept>>
    BY <1>4 DEF Packed!LoadDatabase
  <2>2. \A f \in PackMembers :
          /\ entries[f].pack # 0 => entries[f].pack \in vault
          /\ \A v \in Packed!ToSet(entries[f].versions) : v.pack # 0 => v.pack \in vault
    BY SameFiles DEF FileHolds, EntryNames
  <2>3. BundleIsMade'
    BY <2>1 DEF PacksInv, BundleIsMade, Packed!Uploads
  <2>4. QED BY <2>1, <2>2, <2>3, BundlesKeepPacks DEF PacksInv, PacksTyped
<1>5. ASSUME NEW full \in BOOLEAN, Packed!PlanFolder(full) PROVE PacksInv'
  BY <1>5, PlanKeepsPacks
<1>6. CASE Packed!UploadPackedFiles \/ Packed!RecordPacked
  BY <1>6, BundleKeepsPacks, RecordPackedKeepsPacks
<1>7. CASE Packed!RetryPackedItemsDirect
  <2>1. /\ \A f \in Packed!Uploads : plan[f].previous # "pack"
        /\ plan' = [f \in PackMembers |->
             IF f \in Packed!Uploads /\ plan[f].previous = "pack"
             THEN [plan[f] EXCEPT !.previous = "none"] ELSE plan[f]]
        /\ phase' # "packed" /\ UNCHANGED <<local, newest, inTree, entries, bundles, vault, kept>>
    BY <1>7 DEF Packed!RetryPackedItemsDirect
  <2>2. UNCHANGED plan
    BY <2>1 DEF PacksInv, PacksTyped
  <2>3. \A f \in PackMembers :
          /\ entries[f].pack # 0 => entries[f].pack \in vault
          /\ \A v \in Packed!ToSet(entries[f].versions) : v.pack # 0 => v.pack \in vault
    BY SameFiles DEF FileHolds, EntryNames
  <2>4. BundleIsMade'
    BY <2>1 DEF BundleIsMade
  <2>5. QED BY <2>1, <2>2, <2>3, <2>4, BundlesKeepPacks DEF PacksInv, PacksTyped
<1>8. CASE Packed!Stop \/ Packed!PruneUnreferencedPacks
  BY <1>8, StopKeepsPacks, PruneKeepsPacks
<1>9. CASE UNCHANGED Packed!vars
  <2>1. UNCHANGED <<local, newest, inTree, entries, bundles, vault, packing, plan, phase, kept>>
    BY <1>9 DEF Packed!vars
  <2>2. \A f \in PackMembers :
          /\ entries[f].pack # 0 => entries[f].pack \in vault
          /\ \A v \in Packed!ToSet(entries[f].versions) : v.pack # 0 => v.pack \in vault
    BY SameFiles DEF FileHolds, EntryNames
  <2>3. BundleIsMade'
    BY <2>1 DEF PacksInv, BundleIsMade, Packed!Uploads
  <2>4. QED BY <2>1, <2>2, <2>3, BundlesKeepPacks DEF PacksInv, PacksTyped
<1>10. QED
  BY <1>1, <1>2, <1>3, <1>4, <1>5, <1>6, <1>7, <1>8, <1>9 DEF Packed!Next

LEMMA PacksAreKept == ASSUME PacksInv PROVE Packed!PacksKept
<1>1. ASSUME NEW f \in PackMembers PROVE kept[f] \subseteq Packed!Restorable(f)
  <2> DEFINE e == entries[f]
             named == Packed!PackOfEntry(f) \cup {v.pack : v \in Packed!ToSet(e.versions)}
  <2>1. /\ kept[f] \subseteq InVersions(f, e) \cup Current(f, e, inTree[f])
        /\ e.storage = "pack" => e.pack # 0
        /\ e.pack # 0 => e.pack \in vault
        /\ \A v \in Packed!ToSet(e.versions) : v.pack # 0 => v.pack \in vault
    BY SameFiles DEF FileHolds, EntryHolds, EntryNames
  <2>2. Packed!Restorable(f) = {inTree[f]} \cup {v.content : v \in Packed!ToSet(e.versions)}
                                 \cup {bundles[p][f] : p \in vault \cap named}
    BY DEF Packed!Restorable
  <2>3. ASSUME NEW v \in Packed!ToSet(e.versions) PROVE Packed!Holds(f, v) \in Packed!Restorable(f)
    <3>1. CASE v.pack = 0
      BY <2>2, <3>1 DEF Packed!Holds, Packed!None
    <3>2. CASE v.pack # 0
      <4>1. v.pack \in vault \cap named /\ Packed!Holds(f, v) = bundles[v.pack][f]
        BY <2>1, <3>2 DEF Packed!Holds, Packed!None
      <4>2. QED BY <2>2, <4>1
    <3>3. QED BY <3>1, <3>2
  <2>4. Current(f, e, inTree[f]) \subseteq Packed!Restorable(f)
    <3>1. CASE e.storage = "pack"
      <4>1. e.pack \in vault \cap named
        BY <2>1, <3>1 DEF Packed!PackOfEntry, Packed!None
      <4>2. QED BY <2>2, <3>1, <4>1 DEF Current
    <3>2. CASE e.storage # "pack"
      BY <2>2, <3>2 DEF Current
    <3>3. QED BY <3>1, <3>2
  <2>5. QED BY <2>1, <2>3, <2>4 DEF InVersions
<1>2. Packed!NamedPacksStay
  <2> SUFFICES ASSUME NEW p \in Packed!GetReferencedPackPaths PROVE p \in vault
    BY DEF Packed!NamedPacksStay
  <2>1. PICK f \in PackMembers :
          p # 0 /\ p \in Packed!PackOfEntry(f) \cup {v.pack : v \in Packed!ToSet(entries[f].versions)}
    BY DEF Packed!GetReferencedPackPaths, Packed!None
  <2>2. QED BY <2>1, SameFiles DEF Packed!PackOfEntry, FileHolds, EntryNames
<1>3. QED BY <1>1, <1>2 DEF Packed!PacksKept, Packed!PackedKept

-----------------------------------------------------------------------------
(* VaultMounts.  One attempt at a time leaves traces, and the process that *)
(* lives is the active one.                                                *)

\* Something of attempt a is still to happen.
Traces(a) == process[a] \in {"alive", "ended"} \/ timer[a] \in {"armed", "waiting", "listing"}

DriveTyped ==
  /\ process \in [Drive!Attempts -> {"none", "alive", "ended", "closed"}]
  /\ timer \in [Drive!Attempts -> {"none", "armed", "waiting", "listing", "done"}]
  /\ serving \subseteq {a \in Drive!Attempts : process[a] = "alive"}

DriveInv ==
  /\ DriveTyped
  /\ \A a, b \in Drive!Attempts : Traces(a) /\ Traces(b) => a = b
  /\ letter = activeMount /\ letters \subseteq {letter}
  /\ activeMount # 0 => activeMount \in Drive!Attempts /\ process[activeMount] \in {"alive", "ended"}
  /\ \A a \in Drive!Attempts : process[a] = "alive" => activeMount = a
  /\ letters # {} => mountStatus = "mounted"
  /\ mountStatus = "mounted" => activeMount # 0 /\ activeMount \in settled /\ timer[activeMount] = "done"

LEMMA DriveInit == Drive!MountsAssumption /\ Drive!Init => DriveInv
BY DEF Drive!MountsAssumption, Drive!Init, Drive!Attempts, Drive!None, DriveInv, DriveTyped, Traces

\* A process is killed: it has ended, and serves nothing.
LEMMA KillHolds ==
  ASSUME DriveTyped, NEW a \in Drive!Attempts, Drive!Kill(a)
  PROVE  /\ process' \in [Drive!Attempts -> {"none", "alive", "ended", "closed"}]
         /\ process'[a] # "alive" /\ (process[a] = "ended" => process'[a] = "ended")
         /\ process[a] \notin {"alive", "ended"} => process'[a] \notin {"alive", "ended"}
         /\ \A b \in Drive!Attempts \ {a} : process'[b] = process[b]
         /\ serving' \subseteq {b \in Drive!Attempts : process'[b] = "alive"}
BY DEF DriveTyped, Drive!Kill

\* The page asks for a drive when nothing of an earlier attempt is left.
LEMMA MountHolds ==
  ASSUME DriveInv, Drive!MountsAssumption, ~Overlaps, NEW a \in Drive!Attempts, Drive!Mount(a)
  PROVE  DriveInv'
<1>1. a # 0
  BY DEF Drive!MountsAssumption, Drive!Attempts
<1>2. /\ \A b \in Drive!Attempts \ {a} : process'[b] = process[b] /\ timer'[b] = timer[b]
      /\ process'[a] = "alive" /\ timer'[a] = "armed"
      /\ \A b \in Drive!Attempts : process[b] \in {"none", "closed"} /\ timer[b] \in {"none", "done"}
      /\ letters' = {} /\ letter' = a /\ activeMount' = a /\ mountStatus' = "mounting"
  BY DEF DriveInv, DriveTyped, Drive!Mount, Drive!Quiet
<1>3. DriveTyped'
  BY DEF DriveInv, DriveTyped, Drive!Mount
<1>4. QED BY <1>1, <1>2, <1>3 DEF DriveInv, Traces

\* The process serves, or ends without a word from the program.
LEMMA ServeHolds ==
  ASSUME DriveInv, NEW a \in Drive!Attempts,
         Drive!Serve(a) \/ Drive!Dies(a)
  PROVE  DriveInv'
<1>1. CASE Drive!Serve(a)
  <2>1. DriveTyped'
    BY <1>1 DEF DriveInv, DriveTyped, Drive!Serve
  <2>2. QED BY <1>1, <2>1 DEF DriveInv, Traces, Drive!Serve
<1>2. CASE Drive!Dies(a)
  <2>1. /\ UNCHANGED <<settled, timer, activeMount, letter, mountStatus, letters>>
        /\ process[a] = "alive" /\ process' = [process EXCEPT ![a] = "ended"]
        /\ serving' = serving \ {a}
    BY <1>2 DEF Drive!Dies, Drive!Kill
  <2>2. process'[a] = "ended" /\ \A b \in Drive!Attempts \ {a} : process'[b] = process[b]
    BY <2>1 DEF DriveInv, DriveTyped
  <2>3. DriveTyped'
    BY <2>1 DEF DriveInv, DriveTyped
  <2>4. \A b \in Drive!Attempts : Traces(b)' => Traces(b)
    BY <2>1, <2>2 DEF Traces
  <2>5. QED BY <2>1, <2>2, <2>3, <2>4 DEF DriveInv
<1>3. QED BY <1>1, <1>2

\* An attempt ends: nothing is mounted then, and no letter stays.
LEMMA AttemptEnds ==
  ASSUME DriveInv, DriveTyped', NEW a \in Drive!Attempts, Traces(a),
         \A b \in Drive!Attempts \ {a} : process'[b] = process[b] /\ timer'[b] = timer[b],
         process'[a] # "alive", activeMount' = 0, letter' = 0, letters' = {},
         mountStatus' # "mounted"
  PROVE  DriveInv'
<1>1. \A b \in Drive!Attempts : Traces(b)' => Traces(b) \/ b = a
  BY DEF Traces
<1>2. \A b \in Drive!Attempts : process[b] = "alive" => b = a
  BY DEF DriveInv, Traces
<1>3. \A b \in Drive!Attempts : Traces(b)' => b = a
  BY <1>1 DEF DriveInv
<1>4. QED BY <1>2, <1>3 DEF DriveInv

LEMMA EndingHolds ==
  ASSUME DriveInv, NEW a \in Drive!Attempts,
         \/ Drive!SpawnFails(a) \/ Drive!WinfspMissing(a) \/ Drive!Closed(a) \/ Drive!GivesUp(a)
  PROVE  DriveInv'
<1>1. Traces(a)
  BY DEF Traces, Drive!SpawnFails, Drive!WinfspMissing, Drive!Closed, Drive!GivesUp
<1>2. letters \subseteq {letter}
  BY DEF DriveInv
<1>3. CASE Drive!SpawnFails(a)
  <2>1. DriveTyped' /\ process'[a] = "closed" /\ \A b \in Drive!Attempts \ {a} : process'[b] = process[b]
    BY <1>3 DEF DriveInv, DriveTyped, Drive!SpawnFails
  <2>2. timer' = timer /\ activeMount' = 0 /\ letter' = 0 /\ letters' = {} /\ mountStatus' = "error"
    BY <1>2, <1>3 DEF Drive!SpawnFails, Drive!CleanupMountState, Drive!None
  <2>3. QED BY <1>1, <2>1, <2>2, AttemptEnds
<1>4. CASE Drive!WinfspMissing(a)
  <2>1. DriveTyped' /\ process'[a] # "alive" /\ \A b \in Drive!Attempts \ {a} : process'[b] = process[b]
    BY <1>4, KillHolds DEF DriveInv, DriveTyped, Drive!WinfspMissing
  <2>2. timer' = timer /\ activeMount' = 0 /\ letter' = 0 /\ letters' = letters /\ mountStatus' = "error"
    BY <1>4 DEF Drive!WinfspMissing, Drive!None
  <2>3. letters = {}
    BY <1>4 DEF DriveInv, Drive!WinfspMissing
  <2>4. QED BY <1>1, <2>1, <2>2, <2>3, AttemptEnds
<1>5. CASE Drive!Closed(a)
  <2>1. DriveTyped' /\ process'[a] = "closed" /\ \A b \in Drive!Attempts \ {a} : process'[b] = process[b]
    BY <1>5 DEF DriveInv, DriveTyped, Drive!Closed
  <2>2. timer' = timer /\ activeMount' = 0 /\ letter' = 0 /\ letters' = {} /\ mountStatus' = "unmounted"
    BY <1>2, <1>5 DEF Drive!Closed, Drive!CleanupMountState, Drive!None
  <2>3. QED BY <1>1, <2>1, <2>2, AttemptEnds
<1>6. CASE Drive!GivesUp(a)
  <2>1. /\ process'[a] # "alive" /\ \A b \in Drive!Attempts \ {a} : process'[b] = process[b]
        /\ timer' = [timer EXCEPT ![a] = "done"]
    BY <1>6, KillHolds DEF DriveInv, Drive!GivesUp
  <2>2. DriveTyped' /\ \A b \in Drive!Attempts \ {a} : timer'[b] = timer[b]
    BY <1>6, <2>1, KillHolds DEF DriveInv, DriveTyped, Drive!GivesUp
  <2>3. activeMount' = 0 /\ letter' = 0 /\ letters' = {} /\ mountStatus' = "error"
    BY <1>2, <1>6 DEF Drive!GivesUp, Drive!CleanupMountState, Drive!None
  <2>4. QED BY <1>1, <2>1, <2>2, <2>3, AttemptEnds
<1>7. QED BY <1>3, <1>4, <1>5, <1>6

\* The timer goes on; what it shows as a drive is served by the active process.
LEMMA TimerHolds ==
  ASSUME DriveInv, Drive!MountsAssumption, NEW a \in Drive!Attempts,
         \/ Drive!TimerFires(a) \/ Drive!BackendReady(a) \/ Drive!ShowDrive(a)
  PROVE  DriveInv'
<1>1. /\ UNCHANGED <<process, serving, activeMount, letter>>
      /\ timer[a] \in {"armed", "waiting", "listing"}
      /\ \E t \in {"waiting", "listing", "done"} : timer' = [timer EXCEPT ![a] = t]
  BY DEF Drive!TimerFires, Drive!BackendReady, Drive!ShowDrive
<1>2. DriveTyped' /\ \A b \in Drive!Attempts \ {a} : timer'[b] = timer[b]
  BY <1>1 DEF DriveInv, DriveTyped
<1>3. \A b \in Drive!Attempts : Traces(b)' => Traces(b)
  BY <1>1, <1>2 DEF Traces
<1>4. \A b \in Drive!Attempts : process[b] = "alive" => b = a
  BY <1>1 DEF DriveInv, Traces
<1>5. CASE Drive!TimerFires(a) \/ Drive!BackendReady(a)
  <2>1. UNCHANGED <<settled, mountStatus, letters>>
    BY <1>5 DEF Drive!TimerFires, Drive!BackendReady
  <2>2. mountStatus = "mounted" => activeMount # a
    BY <1>1 DEF DriveInv
  <2>3. QED BY <1>1, <1>2, <1>3, <2>1, <2>2 DEF DriveInv
<1>6. CASE Drive!ShowDrive(a)
  <2>1. /\ letters' = letters \cup {a} /\ settled' = settled \cup {a} /\ mountStatus' = "mounted"
        /\ timer' = [timer EXCEPT ![a] = "done"] /\ serving # {}
    BY <1>6 DEF Drive!ShowDrive
  <2>2. process[a] = "alive" /\ activeMount = a /\ letter = a
    BY <1>4, <2>1 DEF DriveInv, DriveTyped
  <2>3. timer'[a] = "done"
    BY <2>1 DEF DriveInv, DriveTyped
  <2>4. activeMount # 0
    BY <2>2 DEF Drive!MountsAssumption, Drive!Attempts
  <2>5. QED BY <1>1, <1>2, <1>3, <2>1, <2>2, <2>3, <2>4 DEF DriveInv
<1>7. QED BY <1>5, <1>6

\* Unmount ends the active process and takes its letter away.
LEMMA UnmountHolds == ASSUME DriveInv, Drive!Unmount PROVE DriveInv'
<1>1. activeMount \in Drive!Attempts /\ Traces(activeMount)
  BY DEF DriveInv, Traces, Drive!Unmount, Drive!None
<1>2. Drive!Kill(activeMount) /\ timer' = timer /\ activeMount' = 0 /\ letter' = 0
      /\ letters' = letters \ {letter} /\ mountStatus' = "unmounted"
  BY DEF Drive!Unmount, Drive!None, Drive!CleanupMountState
<1>3. /\ DriveTyped' /\ process'[activeMount] # "alive" /\ letters' = {}
      /\ \A b \in Drive!Attempts \ {activeMount} : process'[b] = process[b]
  BY <1>1, <1>2, KillHolds DEF DriveInv, DriveTyped
<1>4. QED BY <1>1, <1>2, <1>3, AttemptEnds

LEMMA DriveStepHolds ==
  ASSUME DriveInv, Drive!MountsAssumption, ~Overlaps, [Drive!Next]_(Drive!mountVars)
  PROVE  DriveInv'
<1>1. CASE Drive!Unmount
  BY <1>1, UnmountHolds
<1>2. CASE \E a \in Drive!Attempts : \/ Drive!Mount(a) \/ Drive!Serve(a) \/ Drive!Dies(a)
                                     \/ Drive!SpawnFails(a) \/ Drive!WinfspMissing(a)
                                     \/ Drive!Closed(a) \/ Drive!GivesUp(a)
                                     \/ Drive!TimerFires(a) \/ Drive!BackendReady(a)
                                     \/ Drive!ShowDrive(a)
  BY <1>2, MountHolds, ServeHolds, EndingHolds, TimerHolds
<1>3. CASE UNCHANGED Drive!mountVars
  BY <1>3 DEF Drive!mountVars, DriveInv, DriveTyped, Traces
<1>4. QED BY <1>1, <1>2, <1>3 DEF Drive!Next

LEMMA DriveIsOwnedNow == DriveInv => Drive!DriveIsOwned
BY DEF DriveInv, Drive!DriveIsOwned, Drive!None

-----------------------------------------------------------------------------
(* RcloneProcesses.  A transfer that lives is registered, and only a        *)
(* transfer has a port.                                                     *)

RunState == [state : {"none", "running", "dying", "gone"}, command : Processes!Commands,
             operation : Processes!Operations, port : Nat, limit : Nat, cancelled : BOOLEAN,
             answer : {"none", "ok", "error", "cancelled", "timeout"}]

RunKeepsPort(r) ==
  /\ run[r].state = "none" => run[r].port = 0
  /\ run[r].port # 0 => run[r].command = "transfer"
  /\ run[r].command = "transfer" /\ run[r].state \in {"running", "dying"} => run[r].answer = "none"
  /\ run[r].state = "gone" => run[r].answer # "none"

PortsInv ==
  /\ run \in [Runs -> RunState] /\ bwlimit \in Nat
  /\ \A r \in Runs : RunKeepsPort(r)
  /\ Processes!PortsApart

\* The servers: one start of each is under way.
WebState   == [at : {"none", "probing", "found", "listening", "closed"}, port : Nat]
Pending(s) == web[s].at \in {"probing", "found"}

ServersInv ==
  /\ web \in [Processes!Servers -> WebState]
  /\ share \in [Processes!Servers -> {"none", "starting", "serving", "dying", "gone"}]
  /\ webServer \in Processes!Servers \cup {0} /\ handle \in Processes!Servers \cup {0}
  /\ \A s, t \in Processes!Servers : Pending(s) /\ (Pending(t) \/ web[t].at = "listening") => s = t
  /\ \A s \in Processes!Servers : web[s].at = "listening" => webServer = s
  /\ \A s \in Processes!Servers : share[s] \in {"starting", "serving"} => handle = s
  /\ \A s \in Processes!Servers : share[s] = "serving" => shown = s
  /\ \A s \in Processes!Servers : handle # 0 => share[s] # "dying"

LEMMA PortsInit ==
  ASSUME Processes!RunsAssumption, Processes!Init
  PROVE  PortsInv
<1>1. \A r \in Runs : run[r] = Processes!NotRun
  BY DEF Processes!Init
<1>2. Processes!NotRun \in RunState
  BY DEF Processes!NotRun, RunState, Processes!Commands, Processes!Operations
<1>3. run \in [Runs -> RunState] /\ bwlimit = 0
  BY <1>2 DEF Processes!Init
<1>4. QED
  BY <1>1, <1>3 DEF PortsInv, RunKeepsPort, Processes!NotRun, Processes!PortsApart

LEMMA SmallestPort ==
  ASSUME NEW S \in SUBSET Nat, S # {}
  PROVE  Processes!Min(S) \in S
<1>1. IsWellFoundedOn(OpToRel(<, Nat), Nat)
  BY NatLessThanWellFounded
<1>2. PICK m \in S : \A y \in S : <<y, m>> \notin OpToRel(<, Nat)
  BY <1>1, WFMin
<1>3. \A y \in S : ~(y < m)
  BY <1>2 DEF OpToRel
<1>4. \A y \in S : m <= y
  BY <1>3
<1>5. QED BY <1>4 DEF Processes!Min

\* There are as many ports as calls: one that has not begun finds a port that is free.
LEMMA PortIsFree ==
  ASSUME Processes!RunsAssumption, PortsInv, NEW r \in Runs, run[r].state = "none"
  PROVE  /\ Processes!GetFreeRcPort \in Nat
         /\ \A q \in Processes!Registered : run[q].port # Processes!GetFreeRcPort
<1> DEFINE K == Processes!Registered
           T == {run[q].port : q \in K}
           n == Cardinality(Runs)
           free == 1 .. n \ T
<1>1. IsFiniteSet(Runs) /\ K \subseteq Runs \ {r} /\ \A q \in K : run[q].port \in Nat
  <2>1. IsFiniteSet(Runs)
    BY DEF Processes!RunsAssumption, Processes!IsFiniteSet, IsFiniteSet
  <2>2. QED BY <2>1 DEF Processes!Registered, PortsInv, RunState
<1>2. n \in Nat /\ Processes!MaxPort = n
  BY <1>1, FS_CardinalityType DEF Processes!MaxPort, Processes!Cardinality, Cardinality
<1>3. /\ IsFiniteSet(Runs \ {r}) /\ Cardinality(Runs \ {r}) = n - 1
      /\ IsFiniteSet(1 .. n) /\ Cardinality(1 .. n) = n
  <2>1. IsFiniteSet(Runs \ {r}) /\ Cardinality(Runs \ {r}) = n - 1
    BY <1>1, FS_RemoveElement
  <2>2. IsFiniteSet(1 .. n) /\ Cardinality(1 .. n) = (IF 1 > n THEN 0 ELSE n - 1 + 1)
    BY <1>2, FS_Interval
  <2>3. n - 1 + 1 = n /\ (1 > n => n = 0)
    BY <1>2
  <2>4. QED BY <2>1, <2>2, <2>3
<1>4. IsFiniteSet(K) /\ Cardinality(K) <= n - 1 /\ Cardinality(K) \in Nat
  <2>1. IsFiniteSet(K) /\ Cardinality(K) <= Cardinality(Runs \ {r})
    BY <1>1, <1>3, FS_Subset
  <2>2. QED BY <1>3, <2>1, FS_CardinalityType
<1>5. IsFiniteSet(T) /\ Cardinality(T) <= Cardinality(K) /\ Cardinality(T) \in Nat
  <2> DEFINE f == [q \in K |-> run[q].port]
  <2>1. f \in Surjection(K, T)
    BY DEF Surjection
  <2>2. IsFiniteSet(T) /\ Cardinality(T) <= Cardinality(K)
    BY <1>4, <2>1, FS_Surjection
  <2>3. QED BY <2>2, FS_CardinalityType
<1> HIDE DEF K, T
<1>6. free # {}
  <2>1. SUFFICES ASSUME free = {} PROVE FALSE
    OBVIOUS
  <2>2. 1 .. n \subseteq T
    BY <2>1
  <2>3. Cardinality(1 .. n) <= Cardinality(T)
    BY <1>5, <2>2, FS_Subset
  <2>4. QED BY <1>2, <1>3, <1>4, <1>5, <2>3
<1>7. Processes!GetFreeRcPort = Processes!Min(free)
  BY <1>2 DEF Processes!GetFreeRcPort, K, T
<1>8. free \in SUBSET Nat
  OBVIOUS
<1>9. Processes!Min(free) \in free
  BY <1>6, <1>8, SmallestPort
<1>10. QED BY <1>7, <1>8, <1>9 DEF K, T

\* One call changes: it keeps its port, and is dying only without one.
LEMMA CallMoves ==
  ASSUME PortsInv, NEW r \in Runs, run' \in [Runs -> RunState], bwlimit' = bwlimit,
         \A q \in Runs \ {r} : run'[q] = run[q], run'[r].port = run[r].port, RunKeepsPort(r)',
         run'[r].port # 0 => run'[r].state = run[r].state \/ run'[r].state = "gone"
  PROVE  PortsInv'
<1>1. \A q \in Runs : RunKeepsPort(q)'
  BY DEF PortsInv, RunKeepsPort
<1>2. Processes!PortsApart'
  BY DEF PortsInv, Processes!PortsApart
<1>3. QED BY <1>1, <1>2 DEF PortsInv

LEMMA SpawnHolds ==
  ASSUME Processes!RunsAssumption, PortsInv, NEW r \in Runs, Processes!Spawn(r)
  PROVE  PortsInv'
<1>1. run[r].state = "none" /\ bwlimit' = bwlimit
  BY DEF Processes!Spawn
<1>2. Processes!GetFreeRcPort \in Nat /\ \A q \in Processes!Registered : run[q].port # Processes!GetFreeRcPort
  BY <1>1, PortIsFree
<1>3. Processes!GetCurrentBwlimit \in Nat
  BY DEF Processes!GetCurrentBwlimit, Processes!GetSmartBwlimit, Processes!Idle, Processes!Working, PortsInv
<1>4. PICK c \in Processes!Commands, o \in Processes!Operations :
        run' = [run EXCEPT ![r] =
                  [Processes!NotRun EXCEPT !.state = "running", !.command = c, !.operation = o,
                       !.port = IF c = "transfer" THEN Processes!GetFreeRcPort ELSE 0,
                       !.limit = IF c = "transfer" THEN Processes!GetCurrentBwlimit ELSE 0]]
  BY DEF Processes!Spawn
<1>5. PICK u \in RunState :
        /\ run' = [run EXCEPT ![r] = u]
        /\ u.state = "running" /\ u.answer = "none" /\ u.command = c
        /\ u.port = (IF c = "transfer" THEN Processes!GetFreeRcPort ELSE 0)
  <2> DEFINE port  == IF c = "transfer" THEN Processes!GetFreeRcPort ELSE 0
             limit == IF c = "transfer" THEN Processes!GetCurrentBwlimit ELSE 0
             fresh == Processes!NotRun
             call  == [fresh EXCEPT !.state = "running", !.command = c, !.operation = o,
                                    !.port = port, !.limit = limit]
  <2>1. port \in Nat /\ limit \in Nat
    BY <1>2, <1>3
  <2>2. run' = [run EXCEPT ![r] = call]
    BY <1>4
  <2>3. fresh \in RunState /\ fresh.answer = "none"
    BY DEF Processes!NotRun, RunState, Processes!Commands, Processes!Operations
  <2>4. port = (IF c = "transfer" THEN Processes!GetFreeRcPort ELSE 0)
    OBVIOUS
  <2> HIDE DEF port, limit, fresh
  <2>5. /\ call \in RunState /\ call.state = "running" /\ call.answer = "none" /\ call.command = c
        /\ call.port = port
    BY <2>1, <2>3 DEF RunState
  <2> HIDE DEF call
  <2>6. QED BY <2>2, <2>4, <2>5
<1>7. run' \in [Runs -> RunState] /\ run'[r] = u /\ \A q \in Runs \ {r} : run'[q] = run[q]
  BY <1>5 DEF PortsInv
<1>8. \A q \in Runs : RunKeepsPort(q)'
  BY <1>5, <1>7 DEF PortsInv, RunKeepsPort
<1>9. \A q \in Runs \ {r} : u.port # 0 /\ run[q].port = u.port => run[q].state = "gone"
  BY <1>2, <1>5 DEF PortsInv, RunKeepsPort, RunState, Processes!Registered, Processes!IsTransfer
<1>10. Processes!PortsApart'
  BY <1>7, <1>9 DEF PortsInv, Processes!PortsApart
<1>11. QED BY <1>1, <1>7, <1>8, <1>10 DEF PortsInv

\* The promise of a call is settled once.
LEMMA SettleHolds ==
  ASSUME PortsInv, NEW r \in Runs, run[r].state \in {"running", "dying"},
         NEW state \in {"gone", "dying"}, NEW answer \in {"ok", "error", "cancelled", "timeout"},
         Processes!Settle(r, state, answer), state = "dying" => run[r].command # "transfer"
  PROVE  PortsInv'
<1>1. run \in [Runs -> RunState] /\ run[r] \in RunState /\ RunKeepsPort(r) /\ bwlimit' = bwlimit
  BY DEF PortsInv, Processes!Settle
<1>2. PICK u \in RunState :
        /\ run' = [run EXCEPT ![r] = u]
        /\ u.state = state /\ u.command = run[r].command /\ u.port = run[r].port /\ u.answer # "none"
  <2> DEFINE call == [run[r] EXCEPT !.state = state, !.answer = IF @ = "none" THEN answer ELSE @]
  <2>1. run' = [run EXCEPT ![r] = call]
    BY DEF Processes!Settle
  <2>2. /\ call \in RunState /\ call.state = state /\ call.command = run[r].command
        /\ call.port = run[r].port /\ call.answer # "none"
    BY <1>1 DEF RunState
  <2> HIDE DEF call
  <2>3. QED BY <2>1, <2>2
<1>3. run' \in [Runs -> RunState] /\ run'[r] = u /\ \A q \in Runs \ {r} : run'[q] = run[q]
  BY <1>1, <1>2
<1>4. RunKeepsPort(r)'
  BY <1>1, <1>2, <1>3 DEF RunKeepsPort
<1>5. run'[r].port # 0 => run'[r].state = "gone"
  BY <1>1, <1>2, <1>3 DEF RunKeepsPort
<1>6. QED BY <1>1, <1>2, <1>3, <1>4, <1>5, CallMoves

\* Calls are told something: none of them gets another port or answer.
LEMMA CallsHear ==
  ASSUME PortsInv, run' \in [Runs -> RunState], bwlimit' \in Nat,
         \A q \in Runs :
           /\ run'[q].port = run[q].port /\ run'[q].command = run[q].command
           /\ run'[q].answer = run[q].answer
           /\ \/ run'[q].state = run[q].state
              \/ run'[q].state = "dying" /\ q \in Processes!Registered
  PROVE  PortsInv'
<1>1. \A q \in Processes!Registered : run[q].state \notin {"none", "gone"} /\ run[q].answer = "none"
  BY DEF PortsInv, RunKeepsPort, Processes!Registered
<1>2. \A q \in Runs : RunKeepsPort(q)'
  BY <1>1 DEF PortsInv, RunKeepsPort
<1>3. Processes!PortsApart'
  BY <1>1 DEF PortsInv, Processes!PortsApart
<1>4. QED BY <1>2, <1>3 DEF PortsInv

LEMMA PushHolds ==
  ASSUME PortsInv, NEW limit \in Nat, Processes!Push(limit), bwlimit' \in Nat
  PROVE  PortsInv'
<1>1. PICK hears \in SUBSET Runs :
        run' = [r \in Runs |-> IF r \in hears THEN [run[r] EXCEPT !.limit = limit] ELSE run[r]]
  BY DEF Processes!Push, Processes!Registered
<1>2. \A q \in Runs :
        /\ run'[q] \in RunState /\ run'[q].port = run[q].port /\ run'[q].command = run[q].command
        /\ run'[q].answer = run[q].answer /\ run'[q].state = run[q].state
  BY <1>1 DEF PortsInv, RunState
<1>3. run' \in [Runs -> RunState]
  BY <1>1, <1>2
<1>4. QED BY <1>2, <1>3, CallsHear

LEMMA CancelHolds ==
  ASSUME PortsInv, NEW o, Processes!CancelOperation(o)
  PROVE  PortsInv'
<1>1. PICK hit \in SUBSET Processes!Registered, killed \in SUBSET Processes!Registered :
        run' = [r \in Runs |-> IF r \notin hit THEN run[r]
                               ELSE [run[r] EXCEPT !.cancelled = TRUE,
                                                   !.state = IF r \in killed THEN "dying" ELSE @]]
  <2> DEFINE hit == {r \in Processes!Registered : run[r].operation = o /\ ~run[r].cancelled}
  <2>1. hit \in SUBSET Processes!Registered /\ \A S \in SUBSET hit : S \in SUBSET Processes!Registered
    OBVIOUS
  <2>2. QED BY <2>1 DEF Processes!CancelOperation
<1>2. \A q \in Runs :
        /\ run'[q] \in RunState /\ run'[q].port = run[q].port /\ run'[q].command = run[q].command
        /\ run'[q].answer = run[q].answer
        /\ \/ run'[q].state = run[q].state
           \/ run'[q].state = "dying" /\ q \in Processes!Registered
  BY <1>1 DEF PortsInv, RunState
<1>3. run' \in [Runs -> RunState] /\ bwlimit' \in Nat
  BY <1>1, <1>2 DEF Processes!CancelOperation, PortsInv
<1>4. QED BY <1>2, <1>3, CallsHear

LEMMA PortsStepHolds ==
  ASSUME Processes!RunsAssumption, PortsInv, [Processes!Next]_(Processes!rcloneVars)
  PROVE  PortsInv'
<1>1. ASSUME NEW r \in Runs, Processes!Spawn(r) PROVE PortsInv'
  BY <1>1, SpawnHolds
<1>2. ASSUME NEW r \in Runs, Processes!Closes(r) \/ Processes!SpawnFails(r) \/ Processes!TimesOut(r)
      PROVE  PortsInv'
  <2>1. CASE Processes!Closes(r)
    <3>1. PICK code \in {"ok", "error"} :
            Processes!Settle(r, "gone", IF run[r].cancelled THEN "cancelled" ELSE code)
      BY <2>1 DEF Processes!Closes
    <3>2. (IF run[r].cancelled THEN "cancelled" ELSE code) \in {"ok", "error", "cancelled", "timeout"}
      OBVIOUS
    <3>3. QED BY <2>1, <3>1, <3>2, SettleHolds DEF Processes!Closes
  <2>2. CASE Processes!SpawnFails(r)
    BY <2>2, SettleHolds DEF Processes!SpawnFails
  <2>3. CASE Processes!TimesOut(r)
    BY <2>3, SettleHolds DEF Processes!TimesOut
  <2>4. QED BY <1>2, <2>1, <2>2, <2>3
<1>3. ASSUME NEW limit \in Limits, Processes!SetBwlimit(limit) PROVE PortsInv'
  BY <1>3, PushHolds DEF Processes!RunsAssumption, Processes!SetBwlimit
<1>4. CASE Processes!MonitorTicks
  <2>1. Processes!GetSmartBwlimit \in Nat
    BY DEF Processes!GetSmartBwlimit, Processes!Idle, Processes!Working
  <2>2. QED BY <1>4, <2>1, PushHolds DEF Processes!MonitorTicks, PortsInv
<1>5. CASE Processes!SetSmart \/ Processes!LeaveOrReturn \/ UNCHANGED Processes!rcloneVars
  BY <1>5 DEF Processes!SetSmart, Processes!LeaveOrReturn, Processes!rcloneVars, PortsInv,
              RunKeepsPort, Processes!PortsApart
<1>6. QED BY <1>1, <1>2, <1>3, <1>4, <1>5, CancelHolds DEF Processes!Next

-----------------------------------------------------------------------------
(* The two servers. *)

LEMMA ServersInit ==
  ASSUME Processes!ServersAssumption, Processes!ServerInit
  PROVE  ServersInv
<1>1. [at |-> "none", port |-> 0] \in WebState
  BY DEF WebState
<1>2. \A s \in Processes!Servers : web[s] = [at |-> "none", port |-> 0] /\ share[s] = "none"
  BY DEF Processes!ServerInit
<1>3. QED
  BY <1>1, <1>2 DEF Processes!ServerInit, ServersInv, Pending, Processes!None

\* The shared folder moves: what is begun or serves is the handle, and nothing dies beside it.
LEMMA WebStays ==
  ASSUME ServersInv, UNCHANGED Processes!webVars,
         share' \in [Processes!Servers -> {"none", "starting", "serving", "dying", "gone"}],
         handle' \in Processes!Servers \cup {0},
         \A s \in Processes!Servers :
           /\ share'[s] \in {"starting", "serving"} => handle' = s
           /\ share'[s] = "serving" => shown' = s
           /\ handle' # 0 => share'[s] # "dying"
  PROVE  ServersInv'
BY DEF ServersInv, Pending, Processes!webVars

LEMMA ShareHolds ==
  ASSUME ServersInv, Processes!ServersAssumption, ~Overlaps, NEW s \in Processes!Servers,
         Processes!StartShare(s) \/ Processes!ShareServes(s) \/ Processes!ShareCloses(s)
  PROVE  ServersInv'
<1>1. CASE Processes!StartShare(s)
  <2>1. UNCHANGED Processes!webVars /\ handle = 0 /\ handle' = s /\ share' = [share EXCEPT ![s] = "starting"]
        /\ \A t \in Processes!Servers : share[t] # "dying"
    BY <1>1 DEF Processes!StartShare, Processes!None
  <2>2. \A t \in Processes!Servers : share[t] \notin {"starting", "serving"}
    BY <2>1 DEF ServersInv, Processes!ServersAssumption, Processes!Servers
  <2>3. QED BY <2>1, <2>2, WebStays DEF ServersInv
<1>2. CASE Processes!ShareServes(s)
  BY <1>2, WebStays DEF Processes!ShareServes, ServersInv
<1>3. CASE Processes!ShareCloses(s)
  <2>1. UNCHANGED Processes!webVars /\ share' = [share EXCEPT ![s] = "gone"]
        /\ handle' = (IF handle = s THEN 0 ELSE handle) /\ shown' = 0
    BY <1>3 DEF Processes!ShareCloses, Processes!None
  <2>2. \A t \in Processes!Servers : share[t] = "serving" => t = s
    <3>1. SUFFICES ASSUME NEW t \in Processes!Servers, share[t] = "serving", t # s PROVE FALSE
      OBVIOUS
    <3>2. handle = t /\ t # 0
      BY <3>1 DEF ServersInv, Processes!ServersAssumption, Processes!Servers
    <3>3. share[s] # "dying" /\ share[s] \notin {"starting", "serving"}
      BY <3>1, <3>2 DEF ServersInv
    <3>4. QED BY <1>3, <3>3 DEF Processes!ShareCloses
  <2>3. QED BY <2>1, <2>2, WebStays DEF ServersInv
<1>4. QED BY <1>1, <1>2, <1>3

LEMMA StopShareHolds ==
  ASSUME ServersInv, Processes!StopShare
  PROVE  ServersInv'
<1>1. /\ UNCHANGED Processes!webVars /\ handle' = 0
      /\ share' = (IF handle = 0 THEN share ELSE [share EXCEPT ![handle] = "dying"])
  BY DEF Processes!StopShare, Processes!None
<1>2. \A t \in Processes!Servers : share'[t] \notin {"starting", "serving"}
  BY <1>1 DEF ServersInv, Processes!Servers
<1>3. QED BY <1>1, <1>2, WebStays DEF ServersInv

\* The web restore moves: what listens is webServer.
LEMMA ShareStays ==
  ASSUME ServersInv, UNCHANGED Processes!shareVars, web' \in [Processes!Servers -> WebState],
         webServer' \in Processes!Servers \cup {0},
         \A s \in Processes!Servers : web'[s].at = "listening" => webServer' = s,
         \A s, t \in Processes!Servers : Pending(s)' /\ (Pending(t)' \/ web'[t].at = "listening") => s = t
  PROVE  ServersInv'
BY DEF ServersInv, Processes!shareVars

LEMMA WebHolds ==
  ASSUME ServersInv, Processes!ServersAssumption, ~Overlaps, NEW s \in Processes!Servers,
         \/ Processes!StartWeb(s) \/ Processes!FindFreePort(s) \/ Processes!WebListens(s)
         \/ Processes!WebFails(s)
  PROVE  ServersInv'
<1>1. /\ UNCHANGED Processes!shareVars
      /\ \E at \in {"probing", "found", "listening", "closed"}, port \in Nat :
           web' = [web EXCEPT ![s] = [at |-> at, port |-> port]]
  <2>1. PICK at \in {"none", "probing", "found", "listening", "closed"}, port \in Nat :
          web[s] = [at |-> at, port |-> port]
    BY DEF ServersInv, WebState
  <2>2. QED
    BY <2>1 DEF Processes!StartWeb, Processes!FindFreePort, Processes!WebListens, Processes!WebFails
<1>2. PICK at \in {"probing", "found", "listening", "closed"}, port \in Nat :
        web' = [web EXCEPT ![s] = [at |-> at, port |-> port]]
  BY <1>1
<1>3. /\ web' \in [Processes!Servers -> WebState]
      /\ web'[s].at = at /\ \A t \in Processes!Servers \ {s} : web'[t] = web[t]
  BY <1>2 DEF ServersInv, WebState
<1>4. CASE Processes!StartWeb(s)
  <2>1. webServer' = webServer /\ \A t \in Processes!Servers : ~Pending(t) /\ web[t].at # "listening"
    BY <1>4 DEF ServersInv, Processes!StartWeb, Pending, Processes!None, Processes!ServersAssumption,
                Processes!Servers
  <2>2. at = "probing"
    BY <1>3, <1>4 DEF ServersInv, WebState, Processes!StartWeb
  <2>3. QED BY <1>1, <1>3, <2>1, <2>2, ShareStays DEF ServersInv, Pending
<1>5. CASE Processes!FindFreePort(s)
  <2>1. webServer' = webServer /\ Pending(s) /\ at = "found"
    BY <1>3, <1>5 DEF ServersInv, Processes!FindFreePort, Pending
  <2>2. QED BY <1>1, <1>3, <2>1, ShareStays DEF ServersInv, Pending
<1>6. CASE Processes!WebListens(s)
  <2>1. webServer' = s /\ Pending(s) /\ at = "listening"
    BY <1>3, <1>6 DEF ServersInv, WebState, Processes!WebListens, Pending
  <2>2. QED BY <1>1, <1>3, <2>1, ShareStays DEF ServersInv, Pending
<1>7. CASE Processes!WebFails(s)
  <2>1. webServer' = 0 /\ Pending(s) /\ at = "closed"
    BY <1>3, <1>7 DEF ServersInv, WebState, Processes!WebFails, Processes!None, Pending
  <2>2. QED BY <1>1, <1>3, <2>1, ShareStays DEF ServersInv, Pending
<1>8. QED BY <1>4, <1>5, <1>6, <1>7

LEMMA StopWebHolds ==
  ASSUME ServersInv, Processes!StopWeb
  PROVE  ServersInv'
<1>1. /\ UNCHANGED Processes!shareVars /\ webServer' = 0
      /\ web' = (IF webServer = 0 THEN web ELSE [web EXCEPT ![webServer].at = "closed"])
  BY DEF Processes!StopWeb, Processes!None
<1>2. /\ web' \in [Processes!Servers -> WebState]
      /\ \A s \in Processes!Servers : web'[s].at = web[s].at \/ web'[s].at = "closed"
      /\ \A s \in Processes!Servers : web'[s].at # "listening"
  <2>1. CASE webServer = 0
    BY <1>1, <2>1 DEF ServersInv, Processes!Servers
  <2>2. CASE webServer # 0
    <3>1. webServer \in Processes!Servers
      BY <2>2 DEF ServersInv
    <3>2. PICK at \in {"none", "probing", "found", "listening", "closed"}, port \in Nat :
            web[webServer] = [at |-> at, port |-> port]
      BY <3>1 DEF ServersInv, WebState
    <3>3. web' = [web EXCEPT ![webServer] = [at |-> "closed", port |-> port]]
      <4>1. web' = [web EXCEPT ![webServer].at = "closed"]
        BY <1>1, <2>2
      <4>2. [web[webServer] EXCEPT !.at = "closed"] = [at |-> "closed", port |-> port]
        BY <3>2
      <4>3. QED BY <4>1, <4>2
    <3>4. [at |-> "closed", port |-> port] \in WebState
      BY DEF WebState
    <3>5. QED BY <3>1, <3>3, <3>4 DEF ServersInv
  <2>3. QED BY <2>1, <2>2
<1>3. QED BY <1>1, <1>2, ShareStays DEF ServersInv, Pending

LEMMA ServerStepHolds ==
  ASSUME ServersInv, Processes!ServersAssumption, ~Overlaps, [Processes!ServerNext]_(Processes!serverVars)
  PROVE  ServersInv'
<1>1. CASE \/ Processes!OtherProgramListens
           \/ \E d \in Downloads : \/ Processes!AskForDownload(d) \/ Processes!DownloadBegins(d)
                                   \/ Processes!BrowserCloses(d) \/ Processes!DownloadEnds(d)
           \/ UNCHANGED Processes!serverVars
  <2>1. UNCHANGED <<web, webServer, share, handle, shown>>
    BY <1>1 DEF Processes!OtherProgramListens, Processes!AskForDownload, Processes!DownloadBegins,
                Processes!BrowserCloses, Processes!DownloadEnds, Processes!serverVars,
                Processes!webVars, Processes!shareVars
  <2>2. QED BY <2>1 DEF ServersInv, Pending
<1>2. QED BY <1>1, WebHolds, ShareHolds, StopWebHolds, StopShareHolds DEF Processes!ServerNext

LEMMA OpenIsKnownNow == ServersInv => Processes!OpenIsKnown
BY DEF ServersInv, Processes!OpenIsKnown, Processes!Listening

-----------------------------------------------------------------------------
(* VaultExplorer.  What a listing, a cache or an answer holds of the tree   *)
(* is there, and the explorer waits for one request.                        *)

\* What the tree may show of a path: nothing that was deleted and not stored again.
Fresh(p, files) == files \subseteq Explorer!Items(p) /\ files \cap gone = {}

Shows   == SUBSET (Stored \cup {"sub"})
Listing == [direct : Shows \cup {Unread}, packed : (SUBSET Stored) \cup {Unread}, cached : BOOLEAN,
            arrived : SUBSET {"direct", "packed"}]

ListingHolds(p) ==
  /\ inflight[p].direct # Unread => Fresh(p, inflight[p].direct)
  /\ inflight[p].packed # Unread => inflight[p].packed \subseteq Stored
  /\ "direct" \in inflight[p].arrived => inflight[p].direct # Unread
  /\ "packed" \in inflight[p].arrived => inflight[p].packed # Unread
  /\ ~Explorer!UnderWay(p) => inflight[p] = Explorer!NoListing

VaultInv ==
  /\ stored \subseteq Stored /\ bundled \subseteq Stored /\ stored \subseteq entriesOf
  /\ stored \cap gone = {} /\ ("sub" \in gone => stored \cap InSub = {})

CachesInv ==
  /\ \A p \in Explorer!Paths : directCache[p] # Unread => Fresh(p, directCache[p])
  /\ packedCache # Unread => packedCache \subseteq Stored
  /\ inflight \in [Explorer!Paths -> Listing] /\ directCache \in [Explorer!Paths -> Shows \cup {Unread}]
  /\ \A p \in Explorer!Paths : ListingHolds(p)

\* The request that the explorer waits for, and the answer to it.
Asking    == {q \in asked : q.id = explorer.id}
Answering == {a \in answers : a.id = explorer.id}

RequestsInv ==
  /\ explorer \in [path : Explorer!Paths, id : Nat, loading : BOOLEAN, direct : Shows, packed : Shows]
  /\ \A q \in asked : q.id \in Nat /\ q.id <= explorer.id /\ q.path \in Explorer!Paths
  /\ \A a \in answers : a.id \in Nat /\ a.id <= explorer.id
  /\ \A q \in Asking : q.path = explorer.path /\ explorer.loading /\ Answering = {}
  /\ \A a, b \in Answering : a = b
  /\ \A a \in Answering : /\ explorer.loading /\ Fresh(explorer.path, a.direct)
                         /\ a.packed \subseteq Explorer!Items(explorer.path)

ShownInv ==
  /\ explorer.direct \cup explorer.packed \subseteq Explorer!Items(explorer.path)
  /\ deleting.stage # "publishing" => explorer.direct \cap gone = {}
  /\ deleting \in [item : Stored \cup {"sub", Unread}, path : Explorer!Paths,
                   stage : {"none", "moving", "publishing"}]
  /\ deleting.stage # "none" => asked = {} /\ ~explorer.loading
  /\ deleting # Explorer!None => deleting.stage # "none"

ExplorerInv == VaultInv /\ CachesInv /\ RequestsInv /\ ShownInv

LEMMA UnderIsShown ==
  ASSUME Explorer!ExplorerAssumption, NEW p \in Explorer!Paths, NEW files \in SUBSET Stored
  PROVE  /\ Explorer!Under(p, files) \subseteq Explorer!Items(p)
         /\ Explorer!Items(p) \in Shows
BY DEF Explorer!ExplorerAssumption, Explorer!Under, Explorer!Items, Shows

LEMMA TreeIsFresh ==
  ASSUME Explorer!ExplorerAssumption, VaultInv, NEW p \in Explorer!Paths
  PROVE  Fresh(p, Explorer!Under(p, stored))
<1>1. Explorer!Under(p, stored) \subseteq Explorer!Items(p)
  BY UnderIsShown DEF VaultInv
<1>2. Explorer!Under(p, stored) \cap gone = {}
  BY DEF VaultInv, Explorer!Under
<1>3. QED BY <1>1, <1>2 DEF Fresh

LEMMA NothingListed ==
  /\ Explorer!NoListing \in Listing /\ Explorer!NoListing.direct = Unread
  /\ Explorer!NoListing.packed = Unread /\ Explorer!NoListing.arrived = {}
<1>1. {} \in SUBSET {"direct", "packed"} /\ Unread \in Shows \cup {Unread}
      /\ Unread \in (SUBSET Stored) \cup {Unread}
  OBVIOUS
<1>2. Explorer!NoListing = [direct |-> Unread, packed |-> Unread, cached |-> FALSE, arrived |-> {}]
  BY DEF Explorer!NoListing
<1> DEFINE D == Shows \cup {Unread}  Q == (SUBSET Stored) \cup {Unread}  A == SUBSET {"direct", "packed"}
           nothing == {}
<1>3. Unread \in D /\ Unread \in Q /\ nothing \in A
  BY <1>1
<1>4. Explorer!NoListing = [direct |-> Unread, packed |-> Unread, cached |-> FALSE, arrived |-> nothing]
  BY <1>2
<1>5. Listing = [direct : D, packed : Q, cached : BOOLEAN, arrived : A]
  BY DEF Listing
<1>6. nothing = {}
  OBVIOUS
<1> HIDE DEF D, Q, A, nothing
<1>7. Explorer!NoListing \in [direct : D, packed : Q, cached : BOOLEAN, arrived : A]
  BY <1>3, <1>4
<1>8. /\ Explorer!NoListing.direct = Unread /\ Explorer!NoListing.packed = Unread
      /\ Explorer!NoListing.arrived = nothing
  BY <1>4
<1>9. QED BY <1>5, <1>6, <1>7, <1>8

LEMMA ExplorerInit ==
  ASSUME Explorer!ExplorerAssumption, Explorer!ExplorerInit
  PROVE  ExplorerInv
<1>1. VaultInv
  BY DEF Explorer!ExplorerInit, VaultInv
<1>2. CachesInv
  <2>1. Explorer!NoListing \in Listing
    BY NothingListed
  <2>2. \A p \in Explorer!Paths : inflight[p] = Explorer!NoListing /\ directCache[p] = Unread
    BY DEF Explorer!ExplorerInit
  <2>3. inflight \in [Explorer!Paths -> Listing] /\ packedCache = Unread
        /\ directCache \in [Explorer!Paths -> Shows \cup {Unread}]
    BY <2>1 DEF Explorer!ExplorerInit
  <2>4. \A p \in Explorer!Paths : ListingHolds(p)
    BY <2>2, NothingListed DEF ListingHolds
  <2>5. QED BY <2>2, <2>3, <2>4 DEF CachesInv
<1>3. asked = {} /\ answers = {} /\ deleting = Explorer!None /\ gone = {}
      /\ explorer = [path |-> "folder", id |-> 0, loading |-> FALSE, direct |-> {}, packed |-> {}]
  BY DEF Explorer!ExplorerInit
<1>4. RequestsInv
  BY <1>3 DEF RequestsInv, Asking, Answering, Explorer!Paths, Shows
<1>5. ShownInv
  BY <1>3 DEF ShownInv, Explorer!None, Explorer!Paths
<1>6. QED BY <1>1, <1>2, <1>4, <1>5 DEF ExplorerInv

\* What a step of a listing leaves alone.
ListingStays ==
  /\ UNCHANGED <<stored, bundled, entriesOf, gone, explorer, deleting>>

\* A listing of one path is read further.
LEMMA ListingMoves ==
  ASSUME ExplorerInv, NEW p \in Explorer!Paths, NEW u \in Listing, inflight' = [inflight EXCEPT ![p] = u],
         ListingStays, UNCHANGED <<asked, answers>>, Explorer!UnderWay(p),
         u.direct # Unread => Fresh(p, u.direct),
         u.packed # Unread => u.packed \subseteq Stored,
         "direct" \in u.arrived => u.direct # Unread,
         "packed" \in u.arrived => u.packed # Unread,
         \/ directCache' = directCache
         \/ u.direct # Unread /\ directCache' = [directCache EXCEPT ![p] = u.direct],
         \/ packedCache' = packedCache
         \/ packedCache' \subseteq Stored
  PROVE  ExplorerInv'
<1>1. VaultInv' /\ RequestsInv' /\ ShownInv'
  BY DEF ExplorerInv, VaultInv, RequestsInv, ShownInv, Asking, Answering, Fresh, ListingStays
<1>2. /\ inflight' \in [Explorer!Paths -> Listing] /\ inflight'[p] = u
      /\ \A q \in Explorer!Paths \ {p} : inflight'[q] = inflight[q]
  BY DEF ExplorerInv, CachesInv
<1>3. \A q \in Explorer!Paths : Explorer!UnderWay(q)' <=> Explorer!UnderWay(q)
  BY DEF Explorer!UnderWay
<1>4. ListingHolds(p)'
  BY <1>2, <1>3 DEF ListingHolds, Fresh, ListingStays
<1>5. \A q \in Explorer!Paths : ListingHolds(q)'
  BY <1>2, <1>3, <1>4 DEF ExplorerInv, CachesInv, ListingHolds, Fresh, ListingStays
<1>6. directCache' \in [Explorer!Paths -> Shows \cup {Unread}]
  BY DEF ExplorerInv, CachesInv, Listing
<1>7. \A q \in Explorer!Paths : directCache'[q] # Unread => Fresh(q, directCache[q])'
  BY DEF ExplorerInv, CachesInv, Fresh, ListingStays
<1>8. packedCache' # Unread => packedCache' \subseteq Stored
  BY DEF ExplorerInv, CachesInv
<1>9. CachesInv'
  BY <1>2, <1>5, <1>6, <1>7, <1>8 DEF CachesInv
<1>10. QED BY <1>1, <1>9 DEF ExplorerInv

LEMMA ReadsHold ==
  ASSUME Explorer!ExplorerAssumption, ExplorerInv, NEW p \in Explorer!Paths,
         \/ Explorer!ReadDirect(p) \/ Explorer!DirectArrives(p)
         \/ Explorer!ReadPacked(p) \/ Explorer!PackedArrives(p)
  PROVE  ExplorerInv'
<1>1. inflight[p] \in Listing /\ ListingHolds(p) /\ VaultInv /\ bundled \subseteq Stored
      /\ (packedCache # Unread => packedCache \subseteq Stored)
  BY DEF ExplorerInv, CachesInv, VaultInv
<1>2. CASE Explorer!ReadDirect(p)
  <2>1. ListingStays /\ UNCHANGED <<asked, answers>> /\ Explorer!UnderWay(p) /\ inflight[p].direct = Unread
        /\ UNCHANGED <<directCache, packedCache>>
    BY <1>2 DEF Explorer!ReadDirect, ListingStays
  <2>2. PICK u \in {[inflight[p] EXCEPT !.direct = Explorer!Under(p, stored)],
                    [inflight[p] EXCEPT !.direct = {}, !.cached = TRUE]} :
          inflight' = [inflight EXCEPT ![p] = u]
    BY <1>2 DEF Explorer!ReadDirect
  <2>3. Fresh(p, Explorer!Under(p, stored)) /\ Fresh(p, {}) /\ Explorer!Under(p, stored) \in Shows
    BY <1>1, TreeIsFresh, UnderIsShown DEF Fresh, Shows
  <2>4. /\ u \in Listing /\ Fresh(p, u.direct)
        /\ u.packed = inflight[p].packed /\ u.arrived = inflight[p].arrived
    BY <1>1, <2>3 DEF Listing, Shows
  <2>5. "direct" \notin u.arrived
    BY <1>1, <2>1, <2>4 DEF ListingHolds
  <2>6. QED BY <1>1, <2>1, <2>2, <2>4, <2>5, ListingMoves DEF ListingHolds
<1>3. CASE Explorer!DirectArrives(p)
  <2>1. ListingStays /\ UNCHANGED <<asked, answers>> /\ Explorer!UnderWay(p) /\ inflight[p].direct # Unread
        /\ packedCache' = packedCache
        /\ (directCache' = directCache \/ directCache' = [directCache EXCEPT ![p] = inflight[p].direct])
    BY <1>3 DEF Explorer!DirectArrives, ListingStays
  <2>2. PICK u \in {[inflight[p] EXCEPT !.arrived = @ \cup {"direct"}]} :
          inflight' = [inflight EXCEPT ![p] = u]
    BY <1>3 DEF Explorer!DirectArrives
  <2>3. /\ u \in Listing /\ u.direct = inflight[p].direct
        /\ u.packed = inflight[p].packed /\ u.arrived = inflight[p].arrived \cup {"direct"}
    BY <1>1 DEF Listing
  <2>4. QED BY <1>1, <2>1, <2>2, <2>3, ListingMoves DEF ListingHolds
<1>4. CASE Explorer!ReadPacked(p)
  <2>1. ListingStays /\ UNCHANGED <<asked, answers>> /\ Explorer!UnderWay(p) /\ inflight[p].packed = Unread
        /\ UNCHANGED <<directCache, packedCache>>
    BY <1>4 DEF Explorer!ReadPacked, ListingStays
  <2>2. PICK files \in {{}, packedCache, bundled} :
          files \subseteq Stored /\ inflight' = [inflight EXCEPT ![p].packed = files]
    BY <1>1, <1>4 DEF Explorer!ReadPacked
  <2>3. PICK u \in {[inflight[p] EXCEPT !.packed = files]} : inflight' = [inflight EXCEPT ![p] = u]
    BY <2>2
  <2>4. /\ u \in Listing /\ u.direct = inflight[p].direct
        /\ u.packed = files /\ u.arrived = inflight[p].arrived
    BY <1>1, <2>2 DEF Listing
  <2>5. "packed" \notin u.arrived
    BY <1>1, <2>1, <2>4 DEF ListingHolds
  <2>6. QED BY <1>1, <2>1, <2>2, <2>3, <2>4, <2>5, ListingMoves DEF ListingHolds
<1>5. CASE Explorer!PackedArrives(p)
  <2>1. ListingStays /\ UNCHANGED <<asked, answers>> /\ Explorer!UnderWay(p) /\ inflight[p].packed # Unread
        /\ directCache' = directCache
        /\ (packedCache' = packedCache \/ packedCache' = inflight[p].packed)
    BY <1>5 DEF Explorer!PackedArrives, ListingStays
  <2>2. PICK u \in {[inflight[p] EXCEPT !.arrived = @ \cup {"packed"}]} :
          inflight' = [inflight EXCEPT ![p] = u]
    BY <1>5 DEF Explorer!PackedArrives
  <2>3. /\ u \in Listing /\ u.direct = inflight[p].direct
        /\ u.packed = inflight[p].packed /\ u.arrived = inflight[p].arrived \cup {"packed"}
    BY <1>1 DEF Listing
  <2>4. QED BY <1>1, <2>1, <2>2, <2>3, ListingMoves DEF ListingHolds
<1>6. QED BY <1>2, <1>3, <1>4, <1>5

\* A listing is there: the one request of the explorer, if it was for this path, is answered.
LEMMA ListedHolds ==
  ASSUME Explorer!ExplorerAssumption, ExplorerInv, NEW p \in Explorer!Paths, Explorer!Listed(p)
  PROVE  ExplorerInv'
<1> DEFINE answer(q) == [id |-> q.id, direct |-> inflight[p].direct,
                         packed |-> Explorer!Under(p, inflight[p].packed) \ inflight[p].direct]
<1>1. /\ ListingStays /\ UNCHANGED <<directCache, packedCache>>
      /\ inflight[p].arrived = {"direct", "packed"}
      /\ answers' = answers \cup {answer(q) : q \in {r \in asked : r.path = p}}
      /\ asked' = {q \in asked : q.path # p}
      /\ inflight' = [inflight EXCEPT ![p] = Explorer!NoListing]
  BY DEF Explorer!Listed, ListingStays
<1>2. Fresh(p, inflight[p].direct) /\ inflight[p].packed \subseteq Stored
  BY <1>1 DEF ExplorerInv, CachesInv, ListingHolds
<1>3. \A q : /\ answer(q).id = q.id /\ Fresh(p, answer(q).direct)
             /\ answer(q).packed \subseteq Explorer!Items(p)
  BY <1>2, UnderIsShown
<1>4. \A q, r : q.id = r.id => answer(q) = answer(r)
  OBVIOUS
<1> HIDE DEF answer
<1>5. VaultInv' /\ ShownInv'
  BY <1>1 DEF ExplorerInv, VaultInv, ShownInv, ListingStays
<1>6. CachesInv'
  <2>1. /\ inflight' \in [Explorer!Paths -> Listing] /\ inflight'[p] = Explorer!NoListing
        /\ \A q \in Explorer!Paths \ {p} : inflight'[q] = inflight[q]
    BY <1>1, NothingListed DEF ExplorerInv, CachesInv
  <2>2. \A q \in Explorer!Paths \ {p} : Explorer!UnderWay(q)' <=> Explorer!UnderWay(q)
    BY <1>1 DEF Explorer!UnderWay
  <2>3. ListingHolds(p)'
    BY <2>1, NothingListed DEF ListingHolds
  <2>4. \A q \in Explorer!Paths : ListingHolds(q)'
    BY <1>1, <2>1, <2>2, <2>3 DEF ExplorerInv, CachesInv, ListingHolds, Fresh, ListingStays
  <2>5. QED BY <1>1, <2>1, <2>4 DEF ExplorerInv, CachesInv, Fresh, ListingStays
<1>7. RequestsInv'
  <2>1. \A a \in Answering' : a \in Answering \/ \E q \in Asking : q.path = p /\ a = answer(q)
    BY <1>1, <1>3 DEF Answering, Asking, ListingStays
  <2>2. \A q \in Asking' : q \in Asking /\ q.path # p
    BY <1>1 DEF Asking, ListingStays
  <2>3. RequestsInv /\ explorer' = explorer /\ gone' = gone
    BY <1>1 DEF ExplorerInv, ListingStays
  <2>4. \A q \in Asking' : q.path = explorer'.path /\ explorer'.loading /\ Answering' = {}
    BY <2>1, <2>2, <2>3 DEF RequestsInv
  <2>5. \A a, b \in Answering' : a = b
    <3>1. \A q \in Asking : q.id = explorer.id /\ Answering = {}
      BY <2>3 DEF RequestsInv, Asking
    <3>2. QED BY <1>4, <2>1, <2>3, <3>1 DEF RequestsInv
  <2>6. \A a \in Answering' : /\ explorer'.loading /\ Fresh(explorer.path, a.direct)'
                             /\ a.packed \subseteq Explorer!Items(explorer'.path)
    BY <1>3, <2>1, <2>3 DEF RequestsInv, Fresh
  <2>7. \A a \in answers' : a.id \in Nat /\ a.id <= explorer'.id
    BY <1>1, <1>3, <2>3 DEF RequestsInv
  <2>8. QED BY <1>1, <2>3, <2>4, <2>5, <2>6, <2>7 DEF RequestsInv
<1>8. QED BY <1>5, <1>6, <1>7 DEF ExplorerInv

LEMMA AnsweredHolds ==
  ASSUME ExplorerInv, NEW a \in answers, Explorer!Answered(a)
  PROVE  ExplorerInv'
<1>1. UNCHANGED <<stored, bundled, entriesOf, directCache, packedCache, inflight, asked, deleting, gone>>
      /\ answers' = answers \ {a}
  BY DEF Explorer!Answered
<1>2. VaultInv' /\ CachesInv'
  BY <1>1 DEF ExplorerInv, VaultInv, CachesInv, ListingHolds, Fresh, Explorer!UnderWay
<1>3. CASE a.id # explorer.id
  <2>1. explorer' = explorer
    BY <1>3 DEF Explorer!Answered, Explorer!IsCurrent
  <2>2. Answering' = Answering /\ Asking' = Asking
    BY <1>1, <1>3, <2>1 DEF Answering, Asking
  <2>3. RequestsInv' /\ ShownInv'
    BY <1>1, <2>1, <2>2 DEF ExplorerInv, RequestsInv, ShownInv, Fresh
  <2>4. QED BY <1>2, <2>3 DEF ExplorerInv
<1>4. CASE a.id = explorer.id
  <2>1. explorer' = [explorer EXCEPT !.loading = FALSE, !.direct = a.direct, !.packed = a.packed]
    BY <1>4 DEF Explorer!Answered, Explorer!IsCurrent
  <2>2. /\ explorer.loading /\ Fresh(explorer.path, a.direct)
        /\ a.packed \subseteq Explorer!Items(explorer.path) /\ a \in Answering
    BY <1>4 DEF ExplorerInv, RequestsInv, Answering
  <2>3. explorer.path \in Explorer!Paths /\ a.direct \in Shows /\ a.packed \in Shows
    BY <2>2 DEF ExplorerInv, RequestsInv, Fresh, Shows, Explorer!Items, Explorer!Under
  <2>4. /\ explorer' \in [path : Explorer!Paths, id : Nat, loading : BOOLEAN, direct : Shows, packed : Shows]
        /\ explorer'.path = explorer.path /\ explorer'.id = explorer.id /\ explorer'.loading = FALSE
        /\ explorer'.direct = a.direct /\ explorer'.packed = a.packed
    BY <2>1, <2>3 DEF ExplorerInv, RequestsInv
  <2>5. Asking' = {} /\ Answering' = {}
    BY <1>1, <2>2, <2>4 DEF ExplorerInv, RequestsInv, Asking, Answering
  <2>6. RequestsInv'
    BY <1>1, <2>4, <2>5 DEF ExplorerInv, RequestsInv
  <2>7. ShownInv'
    BY <1>1, <2>2, <2>4 DEF ExplorerInv, ShownInv, Fresh
  <2>8. QED BY <1>2, <2>6, <2>7 DEF ExplorerInv
<1>5. QED BY <1>3, <1>4

\* The explorer asks anew: what is still on its way to it has an earlier number.
LEMMA LoadHolds ==
  ASSUME ExplorerInv, NEW p \in Explorer!Paths, Explorer!Load(p), deleting' = Explorer!None,
         UNCHANGED <<stored, bundled, entriesOf, directCache, packedCache, answers, gone>>
  PROVE  ExplorerInv'
<1>1. /\ asked' = asked \cup {[id |-> explorer.id + 1, path |-> p]}
      /\ explorer' = [path |-> p, id |-> explorer.id + 1, loading |-> TRUE, direct |-> {}, packed |-> {}]
      /\ inflight' = (IF Explorer!UnderWay(p) THEN inflight
                     ELSE [inflight EXCEPT ![p].direct = directCache[p],
                                           ![p].cached = directCache[p] # Unread])
  BY DEF Explorer!Load, Explorer!Request, Explorer!UnderWay
<1>2. VaultInv'
  BY DEF ExplorerInv, VaultInv
<1>3. /\ explorer' \in [path : Explorer!Paths, id : Nat, loading : BOOLEAN, direct : Shows, packed : Shows]
      /\ explorer.id \in Nat /\ explorer'.id = explorer.id + 1 /\ explorer'.loading = TRUE /\ explorer'.path = p
      /\ explorer'.direct = {} /\ explorer'.packed = {}
  BY <1>1 DEF ExplorerInv, RequestsInv, Shows
<1>4. ShownInv'
  BY <1>3 DEF ShownInv, Explorer!None, Explorer!Paths
<1>5. RequestsInv'
  <2>1. \A q \in asked' : q \in asked \/ (q.id = explorer.id + 1 /\ q.path = p)
    BY <1>1
  <2>2. Answering' = {} /\ \A q \in Asking' : q.path = p
    BY <1>3, <2>1 DEF ExplorerInv, RequestsInv, Asking, Answering
  <2>3. \A q \in asked' : q.id \in Nat /\ q.id <= explorer'.id /\ q.path \in Explorer!Paths
    BY <1>3, <2>1 DEF ExplorerInv, RequestsInv
  <2>4. \A a \in answers' : a.id \in Nat /\ a.id <= explorer'.id
    BY <1>3 DEF ExplorerInv, RequestsInv
  <2>5. QED BY <1>3, <2>2, <2>3, <2>4 DEF RequestsInv
<1>6. CachesInv'
  <2>1. \A q \in Explorer!Paths \ {p} : Explorer!UnderWay(q)' <=> Explorer!UnderWay(q)
    BY <1>1 DEF Explorer!UnderWay
  <2>2. Explorer!UnderWay(p)'
    <3> DEFINE q == [id |-> explorer.id + 1, path |-> p]
    <3>1. q \in asked' /\ q.path = p
      BY <1>1
    <3> HIDE DEF q
    <3>2. QED BY <3>1 DEF Explorer!UnderWay
  <2>3. PICK u \in Listing :
          /\ inflight' = [inflight EXCEPT ![p] = u]
          /\ u.direct # Unread => Fresh(p, u.direct)
          /\ u.packed # Unread => u.packed \subseteq Stored
          /\ "direct" \in u.arrived => u.direct # Unread
          /\ "packed" \in u.arrived => u.packed # Unread
    <3>1. CASE Explorer!UnderWay(p)
      <4>1. inflight' = [inflight EXCEPT ![p] = inflight[p]] /\ inflight[p] \in Listing /\ ListingHolds(p)
        BY <1>1, <3>1 DEF ExplorerInv, CachesInv
      <4>2. QED BY <4>1 DEF ListingHolds
    <3>2. CASE ~Explorer!UnderWay(p)
      <4>1. inflight[p] = Explorer!NoListing /\ directCache[p] \in Shows \cup {Unread}
            /\ (directCache[p] # Unread => Fresh(p, directCache[p]))
        BY <3>2 DEF ExplorerInv, CachesInv, ListingHolds
      <4>2. PICK u \in {[inflight[p] EXCEPT !.direct = directCache[p],
                                            !.cached = directCache[p] # Unread]} :
              inflight' = [inflight EXCEPT ![p] = u]
        BY <1>1, <3>2
      <4>3. inflight[p] \in Listing /\ inflight[p].packed = Unread /\ inflight[p].arrived = {}
        BY <4>1, NothingListed DEF ExplorerInv, CachesInv
      <4>4. /\ u \in Listing /\ u.direct = directCache[p] /\ u.packed = Unread /\ u.arrived = {}
        BY <4>1, <4>2, <4>3 DEF Listing
      <4>5. QED BY <4>1, <4>2, <4>4
    <3>3. QED BY <3>1, <3>2
  <2>4. /\ inflight' \in [Explorer!Paths -> Listing] /\ inflight'[p] = u
        /\ \A q \in Explorer!Paths \ {p} : inflight'[q] = inflight[q]
    BY <2>3 DEF ExplorerInv, CachesInv
  <2>5. ListingHolds(p)'
    BY <2>2, <2>3, <2>4 DEF ListingHolds, Fresh
  <2>6. \A q \in Explorer!Paths : ListingHolds(q)'
    BY <2>1, <2>4, <2>5 DEF ExplorerInv, CachesInv, ListingHolds, Fresh
  <2>7. QED BY <2>4, <2>6 DEF ExplorerInv, CachesInv, Fresh
<1>7. QED BY <1>2, <1>4, <1>5, <1>6 DEF ExplorerInv

\* The backup stores a file, which the tree may show again.
LEMMA StoresHold ==
  ASSUME ExplorerInv, NEW f \in Stored, Explorer!BackUp(f)
  PROVE  ExplorerInv'
<1>1. UNCHANGED <<directCache, packedCache, inflight, asked, answers, explorer, deleting>>
      /\ gone' \subseteq gone
  BY DEF Explorer!BackUp
<1>2. \A p, files : Fresh(p, files) => Fresh(p, files)'
  BY <1>1 DEF Fresh
<1>3. VaultInv'
  BY DEF ExplorerInv, VaultInv, Explorer!BackUp, Explorer!Under
<1>4. Asking' = Asking /\ Answering' = Answering /\ \A p \in Explorer!Paths : ListingHolds(p) => ListingHolds(p)'
  BY <1>1, <1>2 DEF Asking, Answering, ListingHolds, Explorer!UnderWay, Fresh
<1>5. CachesInv'
  BY <1>1, <1>4 DEF ExplorerInv, CachesInv, Fresh
<1>6. RequestsInv'
  BY <1>1, <1>4 DEF ExplorerInv, RequestsInv, Fresh
<1>7. ShownInv'
  BY <1>1 DEF ExplorerInv, ShownInv
<1>8. QED BY <1>3, <1>5, <1>6, <1>7 DEF ExplorerInv

\* A deletion begins, is made, or fails, while nothing is read.
LEMMA DeletionHolds ==
  ASSUME Explorer!ExplorerAssumption, ~Impatient, ExplorerInv,
         \/ \E i \in Stored \cup {"sub"} : Explorer!DeleteRemote(i)
         \/ Explorer!Moved \/ Explorer!MoveFails
  PROVE  ExplorerInv'
<1>1. UNCHANGED <<inflight, asked, answers, explorer, bundled>>
  BY DEF Explorer!DeleteRemote, Explorer!Moved, Explorer!MoveFails
<1>2. CASE (\E i \in Stored \cup {"sub"} : Explorer!DeleteRemote(i)) \/ Explorer!MoveFails
  <2>1. UNCHANGED <<stored, entriesOf, directCache, packedCache, gone>>
    BY <1>2 DEF Explorer!DeleteRemote, Explorer!MoveFails
  <2>2. VaultInv' /\ RequestsInv'
    BY <1>1, <2>1 DEF ExplorerInv, VaultInv, RequestsInv, Fresh, Asking, Answering
  <2>3. CachesInv'
    BY <1>1, <2>1 DEF ExplorerInv, CachesInv, ListingHolds, Fresh, Explorer!UnderWay
  <2>4. ShownInv'
    <3>1. CASE Explorer!MoveFails
      BY <1>1, <2>1, <3>1 DEF ExplorerInv, ShownInv, Explorer!MoveFails, Explorer!None, Explorer!Paths
    <3>2. CASE \E i \in Stored \cup {"sub"} : Explorer!DeleteRemote(i)
      <4>1. PICK i \in Stored \cup {"sub"} :
              /\ deleting' = [item |-> i, path |-> explorer.path, stage |-> "moving"]
              /\ deleting = Explorer!None /\ asked = {} /\ ~explorer.loading
        BY <3>2 DEF Explorer!DeleteRemote
      <4>2. QED BY <1>1, <2>1, <4>1 DEF ExplorerInv, ShownInv, RequestsInv, Explorer!None
    <3>3. QED BY <1>2, <3>1, <3>2
  <2>5. QED BY <2>2, <2>3, <2>4 DEF ExplorerInv
<1>3. CASE Explorer!Moved
  <2>1. /\ deleting.stage = "moving" /\ deleting' = [deleting EXCEPT !.stage = "publishing"]
        /\ stored' = stored \ Explorer!FilesOf(deleting.item)
        /\ entriesOf' = entriesOf \ Explorer!FilesOf(deleting.item)
        /\ gone' = gone \cup {deleting.item} \cup Explorer!FilesOf(deleting.item)
        /\ directCache' = [p \in Explorer!Paths |-> Unread] /\ packedCache' = Unread
    BY <1>3 DEF Explorer!Moved, Explorer!Forget
  <2>2. asked = {} /\ ~explorer.loading /\ Answering = {} /\ Asking = {}
    BY <2>1 DEF ExplorerInv, ShownInv, RequestsInv, Asking
  <2>3. deleting.item \in Stored \cup {"sub", Unread}
    BY DEF ExplorerInv, ShownInv
  <2>4. VaultInv'
    <3>1. CASE deleting.item = "sub"
      BY <1>1, <2>1, <3>1 DEF ExplorerInv, VaultInv, Explorer!FilesOf, Explorer!ExplorerAssumption
    <3>2. CASE deleting.item # "sub"
      BY <1>1, <2>1, <3>2 DEF ExplorerInv, VaultInv, Explorer!FilesOf
    <3>3. QED BY <3>1, <3>2
  <2>5. Asking' = {} /\ Answering' = {}
    BY <1>1, <2>2 DEF Asking, Answering
  <2>6. RequestsInv'
    BY <1>1, <2>5 DEF ExplorerInv, RequestsInv
  <2>7. CachesInv'
    <3>1. \A p \in Explorer!Paths : inflight'[p] = Explorer!NoListing
      BY <1>1, <2>2 DEF ExplorerInv, CachesInv, ListingHolds, Explorer!UnderWay
    <3>2. \A p \in Explorer!Paths : ListingHolds(p)'
      BY <3>1, NothingListed DEF ListingHolds
    <3>3. QED BY <1>1, <2>1, <3>2 DEF ExplorerInv, CachesInv
  <2>8. ShownInv'
    BY <1>1, <2>1, <2>2 DEF ExplorerInv, ShownInv
  <2>9. QED BY <2>4, <2>6, <2>7, <2>8 DEF ExplorerInv
<1>4. QED BY <1>2, <1>3

LEMMA ExpiryHolds ==
  ASSUME ExplorerInv, Explorer!CacheExpires
  PROVE  ExplorerInv'
<1>1. UNCHANGED <<stored, bundled, entriesOf, inflight, asked, answers, explorer, deleting, gone>>
      /\ (packedCache' = packedCache \/ packedCache' = Unread)
      /\ \/ directCache' = directCache
         \/ \E p \in Explorer!Paths : directCache' = [directCache EXCEPT ![p] = Unread]
  BY DEF Explorer!CacheExpires
<1>2. VaultInv' /\ RequestsInv' /\ ShownInv'
  BY <1>1 DEF ExplorerInv, VaultInv, RequestsInv, ShownInv, Asking, Answering, Fresh
<1>3. CachesInv'
  BY <1>1 DEF ExplorerInv, CachesInv, ListingHolds, Fresh, Explorer!UnderWay
<1>4. QED BY <1>2, <1>3 DEF ExplorerInv

LEMMA ExplorerStepHolds ==
  ASSUME Explorer!ExplorerAssumption, ~Impatient, ExplorerInv, [Explorer!ExplorerStep]_(Explorer!explorerVars)
  PROVE  ExplorerInv'
<1>1. ASSUME NEW p \in Explorer!Paths, Explorer!Open(p) PROVE ExplorerInv'
  BY <1>1, LoadHolds DEF Explorer!Open
<1>2. CASE Explorer!Published
  <2>1. deleting.path \in Explorer!Paths
    BY DEF ExplorerInv, ShownInv
  <2>2. QED BY <1>2, <2>1, LoadHolds DEF Explorer!Published
<1>3. CASE Explorer!ToggleFolder \/ UNCHANGED Explorer!explorerVars
  <2>1. UNCHANGED <<stored, bundled, entriesOf, directCache, packedCache, inflight, asked, answers,
                    explorer, deleting, gone>>
    BY <1>3 DEF Explorer!ToggleFolder, Explorer!explorerVars
  <2>2. QED BY <2>1 DEF ExplorerInv, VaultInv, RequestsInv, ShownInv, CachesInv, Asking, Answering,
                        ListingHolds, Fresh, Explorer!UnderWay
<1>4. QED
  BY <1>1, <1>2, <1>3, ReadsHold, ListedHolds, AnsweredHolds, StoresHold, DeletionHolds, ExpiryHolds
     DEF Explorer!ExplorerStep

LEMMA ExplorerKeepsNow == ExplorerInv => Explorer!ExplorerKeeps
BY DEF ExplorerInv, VaultInv, ShownInv, Explorer!ExplorerKeeps, Explorer!ExplorerIsCurrent,
       Explorer!RecordsFollow, Explorer!None

-----------------------------------------------------------------------------
(* The names of computers: the publish that is last in order, or the shared *)
(* name when there is none, has the name given last.                        *)

Publish == [label : Labels, stage : {"waiting", "writing"}, local : Labels \cup {NoLabel},
            remote : Labels \cup {NoLabel}]

NamesInv ==
  /\ publishing \in Seq(Publish)
  /\ localName \in Labels \cup {NoLabel} /\ remoteName \in Labels \cup {NoLabel}
  /\ panelName = localName
  /\ lastGiven.name \in Labels \cup {NoLabel} /\ lastGiven.here \in BOOLEAN
  /\ lastGiven.name = NoLabel => lastGiven.here
  /\ lastGiven.here => localName = lastGiven.name
  /\ publishing = <<>> => remoteName = lastGiven.name
  /\ publishing # <<>> =>
       /\ syncs = {} /\ lastGiven.here
       /\ publishing[Len(publishing)].label = lastGiven.name
  /\ \A s \in syncs : s.remote = lastGiven.name /\ (lastGiven.here => s.local = lastGiven.name)

LEMMA NamesInit == Explorer!AliasInit => NamesInv
BY DEF Explorer!AliasInit, NamesInv

\* The user names the computer, here or at another one.
LEMMA NamingHolds ==
  ASSUME Explorer!ExplorerAssumption, NameHabits = {}, NamesInv, NEW label \in Labels \cup {NoLabel},
         Explorer!SaveAlias(label) \/ (label \in Labels /\ Explorer!OtherPCNames(label))
  PROVE  NamesInv'
<1>1. CASE Explorer!SaveAlias(label)
  <2> DEFINE last == [label |-> label, stage |-> "waiting", local |-> NoLabel, remote |-> NoLabel]
  <2>1. /\ label \in Labels /\ localName' = label /\ panelName' = label /\ UNCHANGED <<remoteName, syncs>>
        /\ lastGiven' = [name |-> label, here |-> TRUE] /\ publishing' = Append(publishing, last)
        /\ syncs = {}
    BY <1>1 DEF Explorer!SaveAlias, Explorer!Apply
  <2>2. last \in Publish /\ last.label = label
    BY <2>1 DEF Publish
  <2> HIDE DEF last
  <2>3. publishing \in Seq(Publish)
    BY DEF NamesInv
  <2>4. /\ publishing' \in Seq(Publish) /\ publishing' # <<>>
        /\ publishing'[Len(publishing')] = last
    BY <2>1, <2>2, <2>3
  <2>5. lastGiven'.name = label /\ lastGiven'.here = TRUE /\ syncs' = {} /\ label # NoLabel
    BY <2>1 DEF Explorer!ExplorerAssumption
  <2>6. QED BY <2>1, <2>2, <2>4, <2>5 DEF NamesInv
<1>2. CASE label \in Labels /\ Explorer!OtherPCNames(label)
  <2>1. /\ remoteName' = label /\ lastGiven' = [name |-> label, here |-> FALSE] /\ syncs = {}
        /\ publishing = <<>> /\ UNCHANGED <<localName, panelName, syncs, publishing>>
    BY <1>2 DEF Explorer!OtherPCNames, Explorer!AliasIdle
  <2>2. lastGiven'.name = label /\ lastGiven'.here = FALSE /\ label # NoLabel
    BY <1>2, <2>1 DEF Explorer!ExplorerAssumption
  <2>3. QED BY <1>2, <2>1, <2>2 DEF NamesInv
<1>3. QED BY <1>1, <1>2

\* The first publish in order reads the shared names, and writes them with its own.
LEMMA PublishHolds ==
  ASSUME NameHabits = {}, NamesInv, NEW n \in Explorer!PublishTurns,
         Explorer!PublishReads(n) \/ Explorer!PublishWrites(n)
  PROVE  NamesInv'
<1>1. n = 1 /\ publishing # <<>> /\ publishing \in Seq(Publish)
  BY DEF Explorer!PublishTurns, NamesInv
<1>2. /\ Len(publishing) \in Nat \ {0} /\ DOMAIN publishing = 1 .. Len(publishing)
      /\ \A i \in 1 .. Len(publishing) : publishing[i] \in Publish
  BY <1>1
<1>3. CASE Explorer!PublishReads(n)
  <2>1. UNCHANGED <<localName, remoteName, panelName, syncs, lastGiven>>
        /\ localName \in Labels \cup {NoLabel} /\ remoteName \in Labels \cup {NoLabel}
    BY <1>3 DEF Explorer!PublishReads, NamesInv
  <2>2. PICK u \in {[publishing[1] EXCEPT !.stage = "writing", !.local = localName, !.remote = remoteName]} :
          publishing' = [publishing EXCEPT ![1] = u]
    <3>1. PICK read \in {remoteName} :
            publishing' = [publishing EXCEPT ![1].stage = "writing", ![1].local = localName,
                                             ![1].remote = read]
      BY <1>1, <1>3 DEF Explorer!PublishReads, Explorer!RemoteRead
    <3>2. 1 \in DOMAIN publishing
      BY <1>2
    <3>3. QED BY <3>1, <3>2
  <2>3. u \in Publish /\ u.label = publishing[1].label
    <3>1. PICK p \in {publishing[1]} : p \in Publish
      BY <1>2
    <3>2. u = [p EXCEPT !.stage = "writing", !.local = localName, !.remote = remoteName]
      BY <2>2, <3>1
    <3>3. u \in Publish /\ u.label = p.label
      BY <2>1, <3>1, <3>2 DEF Publish
    <3>4. QED BY <3>1, <3>3
  <2>4. /\ publishing' \in Seq(Publish) /\ publishing' # <<>> /\ Len(publishing') = Len(publishing)
        /\ publishing'[Len(publishing)].label = publishing[Len(publishing)].label
    <3>1. DOMAIN publishing' = 1 .. Len(publishing) /\ publishing'[1] = u
          /\ \A i \in 1 .. Len(publishing) : i # 1 => publishing'[i] = publishing[i]
      BY <1>2, <2>2
    <3>2. publishing' = [i \in 1 .. Len(publishing) |-> publishing'[i]]
          /\ \A i \in 1 .. Len(publishing) : publishing'[i] \in Publish
      BY <1>2, <2>2, <2>3, <3>1
    <3>3. publishing' \in Seq(Publish) /\ Len(publishing') = Len(publishing)
      BY <1>2, <3>2
    <3>4. publishing' # <<>>
      BY <1>2, <3>3
    <3>5. publishing'[Len(publishing)].label = publishing[Len(publishing)].label
      <4>1. CASE Len(publishing) = 1
        BY <2>3, <3>1, <4>1
      <4>2. CASE Len(publishing) # 1
        BY <1>2, <3>1, <4>2
      <4>3. QED BY <4>1, <4>2
    <3>6. QED BY <3>3, <3>4, <3>5
  <2>5. QED BY <1>1, <2>1, <2>4 DEF NamesInv
<1>4. CASE Explorer!PublishWrites(n)
  <2>1. /\ UNCHANGED <<localName, panelName, syncs, lastGiven>> /\ remoteName' = publishing[1].label
        /\ publishing' = [k \in 1 .. Len(publishing) - 1 |-> publishing[IF k < 1 THEN k ELSE k + 1]]
    BY <1>1, <1>4 DEF Explorer!PublishWrites, Explorer!Apply
  <2>2. publishing' = [k \in 1 .. Len(publishing) - 1 |-> publishing[k + 1]]
    BY <1>2, <2>1
  <2>3. publishing' \in Seq(Publish) /\ Len(publishing') = Len(publishing) - 1
    BY <1>2, <2>2
  <2>4. publishing[1].label \in Labels
    BY <1>2 DEF Publish
  <2>5. CASE Len(publishing) = 1
    <3>1. publishing' = <<>>
      BY <2>3, <2>5, EmptySeq
    <3>2. remoteName' = lastGiven'.name
      BY <1>1, <2>1, <2>5 DEF NamesInv
    <3>3. QED BY <2>1, <2>3, <2>4, <3>1, <3>2 DEF NamesInv
  <2>6. CASE Len(publishing) # 1
    <3> DEFINE n1 == Len(publishing) - 1
    <3>1. n1 \in 1 .. n1 /\ n1 + 1 = Len(publishing)
      BY <1>2, <2>6
    <3>2. publishing'[n1] = publishing[n1 + 1]
      BY <2>2, <3>1
    <3>3. publishing' # <<>> /\ publishing'[Len(publishing')] = publishing[Len(publishing)]
      BY <1>2, <2>3, <3>1, <3>2
    <3>4. syncs = {} /\ lastGiven.here /\ publishing'[Len(publishing')].label = lastGiven.name
      BY <1>1, <3>3 DEF NamesInv
    <3>5. QED BY <2>1, <2>3, <2>4, <3>3, <3>4 DEF NamesInv
  <2>7. QED BY <2>5, <2>6
<1>5. QED BY <1>3, <1>4

\* A synchronisation has read the name given last, and ends with it.
LEMMA SyncHolds ==
  ASSUME NameHabits = {}, NamesInv,
         Explorer!SyncStarts \/ \E s \in syncs : Explorer!SyncEnds(s)
  PROVE  NamesInv'
<1>1. CASE Explorer!SyncStarts
  <2>1. /\ publishing = <<>> /\ UNCHANGED <<localName, remoteName, panelName, publishing, lastGiven>>
        /\ \E k : syncs' = syncs \cup {[round |-> k, local |-> localName, remote |-> remoteName]}
    BY <1>1 DEF Explorer!SyncStarts, Explorer!RemoteRead
  <2>2. \A s \in syncs' : s \in syncs \/ (s.local = localName /\ s.remote = remoteName)
    BY <2>1
  <2>3. QED BY <2>1, <2>2 DEF NamesInv
<1>2. CASE \E s \in syncs : Explorer!SyncEnds(s)
  <2>1. PICK s \in syncs : Explorer!SyncEnds(s)
    BY <1>2
  <2>2. s.remote = lastGiven.name /\ publishing = <<>> /\ remoteName = lastGiven.name
        /\ (lastGiven.name = NoLabel => s.local = NoLabel)
    BY DEF NamesInv
  <2>3. Explorer!Merged(s.local, s.remote) = lastGiven.name
    BY <2>2 DEF Explorer!Merged
  <2>4. /\ syncs' \subseteq syncs /\ localName' = lastGiven.name /\ panelName' = lastGiven.name
        /\ remoteName' = lastGiven.name /\ UNCHANGED <<publishing, lastGiven>>
    BY <2>1, <2>2, <2>3 DEF Explorer!SyncEnds
  <2>5. QED BY <2>2, <2>4 DEF NamesInv
<1>3. QED BY <1>1, <1>2

LEMMA NamesStepHolds ==
  ASSUME Explorer!ExplorerAssumption, NameHabits = {}, NamesInv, [Explorer!AliasStep]_(Explorer!aliasVars)
  PROVE  NamesInv'
<1>1. CASE UNCHANGED Explorer!aliasVars
  BY <1>1 DEF Explorer!aliasVars, NamesInv
<1>2. QED BY <1>1, NamingHolds, PublishHolds, SyncHolds DEF Explorer!AliasStep

LEMMA NameIsKeptNow == NamesInv => Explorer!NameIsKept
BY DEF NamesInv, Explorer!NameIsKept, Explorer!AliasIdle
=============================================================================
