---------------------------- MODULE VaultExplorer ----------------------------
(***************************************************************************)
(* Looking at the vault and deleting from it: the explorer of the backup   *)
(* panel (renderer/apps/LabSuiteBackup.jsx), the listings of main/ipc.js   *)
(* with their caches and shared requests, and the deletion of an item.     *)
(* The vault holds one backup folder with one folder in it; a file is      *)
(* stored in the tree or in a bundle.  And the names that the user gives   *)
(* to computers, which all PCs share (main/aliases.js).                    *)
(***************************************************************************)
EXTENDS Naturals, Sequences, FiniteSets

CONSTANTS Stored,           \* files of the backup folder
          InSub,            \* those in its inner folder
          Unread,           \* what no listing has read yet
          MaxOpens,         \* bound: folders opened in the explorer
          MaxStores,        \* bound: files a backup stores
          Impatient,        \* the user goes on browsing while an item is deleted, and
                            \* deletes while a listing is read
          Labels, NoLabel,  \* names for a computer, and none
          MaxNamings,       \* bound: names given
          MaxSyncs,         \* bound: synchronisations of names
          NameHabits        \* "overlap" names given while they are synchronised, "remove" a
                            \* name is removed, "read" and "write" of the shared file fail

ExplorerAssumption ==
  /\ InSub \subseteq Stored /\ "sub" \notin Stored /\ Unread \notin Stored \cup {"sub"} /\ NoLabel \notin Labels
  /\ MaxOpens \in Nat /\ MaxStores \in Nat /\ MaxNamings \in Nat /\ MaxSyncs \in Nat
  /\ Impatient \in BOOLEAN
  /\ NameHabits \subseteq {"overlap", "remove", "read", "write"}

VARIABLES
  tree, bundled,    \* files stored as such, and in bundles
  enabled,          \* the folder is backed up by this PC
  entriesOf,        \* files whose record in the manifest is left
  directCache,      \* directBrowseCache of each path
  packedCache,      \* packedBrowseCache of the folder
  inflight,         \* restoreListInflight: the listing under way for each path
  asked,            \* requests of the explorer: [id, path]
  answers,          \* listings on their way to it: [id, direct, packed]
  explorer,         \* remotePath, remoteItems and restoreBrowseRequestRef
  deleting,         \* the deletion under way: [item, path, stage]
  gone,             \* items that were deleted and not stored again
  opens, stores     \* bounds

explorerVars == <<tree, bundled, enabled, entriesOf, directCache, packedCache, inflight, asked,
                  answers, explorer, deleting, gone, opens, stores>>

VARIABLES
  localName,        \* computer_aliases of this PC's settings
  remoteName,       \* computer-aliases.json of the vault
  panelName,        \* the name the panel shows
  syncs,            \* synchronisations under way: [stage, local, remote]
  publishing,       \* publishes in order: [label, stage, local, remote]
  lastGiven,        \* the name given last, and whether on this PC: [name, here]
  namings, rounds   \* bounds

aliasVars == <<localName, remoteName, panelName, syncs, publishing, lastGiven, namings, rounds>>

Paths    == {"folder", "sub"}
NoListing == [direct |-> Unread, packed |-> Unread, cached |-> FALSE, arrived |-> {}]
None     == [item |-> Unread, path |-> "folder", stage |-> "none"]

\* What a path shows of a set of files; the inner folder is an item of the folder.
Under(p, files) ==
  IF p = "sub" THEN files \cap InSub
  ELSE (files \ InSub) \cup (IF files \cap InSub = {} THEN {} ELSE {"sub"})
Items(p) == Under(p, Stored)

TypeOK ==
  /\ tree \subseteq Stored /\ bundled \subseteq Stored /\ entriesOf \subseteq Stored
  /\ enabled \in BOOLEAN
  /\ \A p \in Paths : directCache[p] = Unread \/ directCache[p] \subseteq Items(p)
  /\ packedCache = Unread \/ packedCache \subseteq Stored
  /\ \A p \in Paths : inflight[p] # NoListing => inflight[p].arrived \subseteq {"direct", "packed"}
  /\ asked \subseteq [id : 1 .. MaxOpens + MaxStores + 1, path : Paths]
  /\ explorer.path \in Paths /\ explorer.loading \in BOOLEAN
  /\ deleting.stage \in {"none", "moving", "publishing"}
  /\ gone \subseteq Stored \cup {"sub"}
  /\ {localName, remoteName, panelName} \subseteq Labels \cup {NoLabel}
  /\ namings \in 0 .. MaxNamings /\ rounds \in 0 .. MaxSyncs

ExplorerInit ==
  /\ tree \in SUBSET Stored /\ bundled = Stored \ tree /\ enabled \in BOOLEAN
  /\ entriesOf = Stored
  /\ directCache = [p \in Paths |-> Unread] /\ packedCache = Unread
  /\ inflight = [p \in Paths |-> NoListing] /\ asked = {} /\ answers = {}
  /\ explorer = [path |-> "folder", id |-> 0, loading |-> FALSE, direct |-> {}, packed |-> {}]
  /\ deleting = None /\ gone = {} /\ opens = 0 /\ stores = 0

-----------------------------------------------------------------------------
(* Listings.  The tree and the bundles are read side by side.              *)

\* listRestoreDirectory: one that is under way for the path is shared.
Request(p, id) ==
  /\ asked' = asked \cup {[id |-> id, path |-> p]}
  /\ inflight' = IF \E q \in asked : q.path = p THEN inflight
                 ELSE [inflight EXCEPT ![p].direct = directCache[p],
                                       ![p].cached = directCache[p] # Unread]

\* handleLoadRemoteDir
Load(p) ==
  /\ Request(p, explorer.id + 1)
  /\ explorer' = [path |-> p, id |-> explorer.id + 1, loading |-> TRUE, direct |-> {}, packed |-> {}]

Open(p) ==
  /\ opens < MaxOpens /\ opens' = opens + 1
  /\ Impatient \/ deleting = None
  /\ p = "sub" => ~explorer.loading /\ "sub" \in explorer.direct \cup explorer.packed
  /\ Load(p)
  /\ UNCHANGED <<tree, bundled, enabled, entriesOf, directCache, packedCache, answers, deleting,
                 gone, stores>>

UnderWay(p) == \E q \in asked : q.path = p

\* rclone.listRemoteDirStrict, and readPackedEntriesForFolder over the folder's bundles:
\* what it reads, and later that it has it and puts it into the cache.  A tree that cannot
\* be read is shown without its files, and not put into the cache.
ReadDirect(p) ==
  /\ UnderWay(p) /\ inflight[p].direct = Unread
  /\ \/ inflight' = [inflight EXCEPT ![p].direct = Under(p, tree)]
     \/ inflight' = [inflight EXCEPT ![p].direct = {}, ![p].cached = TRUE]
  /\ UNCHANGED <<tree, bundled, enabled, entriesOf, directCache, packedCache, asked, answers,
                 explorer, deleting, gone, opens, stores>>

DirectArrives(p) ==
  /\ UnderWay(p) /\ inflight[p].direct # Unread /\ "direct" \notin inflight[p].arrived
  /\ inflight' = [inflight EXCEPT ![p].arrived = @ \cup {"direct"}]
  /\ directCache' = IF inflight[p].cached THEN directCache
                    ELSE [directCache EXCEPT ![p] = inflight[p].direct]
  /\ UNCHANGED <<tree, bundled, enabled, entriesOf, packedCache, asked, answers, explorer,
                 deleting, gone, opens, stores>>

ReadPacked(p) ==
  /\ UnderWay(p) /\ inflight[p].packed = Unread
  /\ inflight' = [inflight EXCEPT ![p].packed =
                    IF bundled = {} THEN {} ELSE IF packedCache # Unread THEN packedCache
                    ELSE bundled]
  /\ UNCHANGED <<tree, bundled, enabled, entriesOf, directCache, packedCache, asked, answers,
                 explorer, deleting, gone, opens, stores>>

PackedArrives(p) ==
  /\ UnderWay(p) /\ inflight[p].packed # Unread /\ "packed" \notin inflight[p].arrived
  /\ inflight' = [inflight EXCEPT ![p].arrived = @ \cup {"packed"}]
  /\ packedCache' = IF inflight[p].packed = {} THEN packedCache ELSE inflight[p].packed
  /\ UNCHANGED <<tree, bundled, enabled, entriesOf, directCache, asked, answers, explorer,
                 deleting, gone, opens, stores>>

\* Both are there: a name of the tree hides the one of a bundle (buildPackedBrowseItems).
Listed(p) ==
  /\ UnderWay(p) /\ inflight[p].arrived = {"direct", "packed"}
  /\ LET direct == inflight[p].direct IN
       answers' = answers \cup
         {[id |-> q.id, direct |-> direct, packed |-> Under(p, inflight[p].packed) \ direct] :
             q \in {r \in asked : r.path = p}}
  /\ asked' = {q \in asked : q.path # p}
  /\ inflight' = [inflight EXCEPT ![p] = NoListing]
  /\ UNCHANGED <<tree, bundled, enabled, entriesOf, directCache, packedCache, explorer, deleting,
                 gone, opens, stores>>

\* A listing reaches the explorer; only that of the last request counts.
IsCurrent(a) == a.id = explorer.id
Answered(a) ==
  /\ a \in answers /\ answers' = answers \ {a}
  /\ explorer' = IF IsCurrent(a)
                 THEN [explorer EXCEPT !.loading = FALSE, !.direct = a.direct, !.packed = a.packed]
                 ELSE explorer
  /\ UNCHANGED <<tree, bundled, enabled, entriesOf, directCache, packedCache, inflight, asked,
                 deleting, gone, opens, stores>>

CacheExpires ==
  /\ \/ \E p \in Paths : directCache[p] # Unread /\ directCache' = [directCache EXCEPT ![p] = Unread]
                         /\ UNCHANGED packedCache
     \/ packedCache # Unread /\ packedCache' = Unread /\ UNCHANGED directCache
  /\ UNCHANGED <<tree, bundled, enabled, entriesOf, inflight, asked, answers, explorer, deleting,
                 gone, opens, stores>>

-----------------------------------------------------------------------------
(* The backup of the folder, and deletions from the vault.                 *)

\* The backup stores a file as such or in a bundle.
BackUp(f) ==
  /\ enabled /\ stores < MaxStores /\ stores' = stores + 1 /\ f \notin tree
  /\ \/ tree' = tree \cup {f} /\ bundled' = bundled \ {f}
        /\ gone' = gone \ ({f} \cup Under("folder", {f}))
     \/ f \notin bundled /\ bundled' = bundled \cup {f} /\ UNCHANGED <<tree, gone>>
  /\ entriesOf' = entriesOf \cup {f}
  /\ UNCHANGED <<enabled, directCache, packedCache, inflight, asked, answers, explorer, deleting,
                 opens>>

ToggleFolder ==
  /\ deleting = None /\ stores < MaxStores /\ stores' = stores + 1 /\ enabled' = ~enabled
  /\ UNCHANGED <<tree, bundled, entriesOf, directCache, packedCache, inflight, asked, answers,
                 explorer, deleting, gone, opens>>

\* handleDeleteRemoteItem and restore:deleteRemote: never of a folder that is backed up,
\* and never an item that is in a bundle.
Deletable(i) == i \in explorer.direct /\ ~enabled
DeleteRemote(i) ==
  /\ deleting = None /\ ~explorer.loading /\ Deletable(i)
  /\ Impatient \/ asked = {}
  /\ deleting' = [item |-> i, path |-> explorer.path, stage |-> "moving"]
  /\ UNCHANGED <<tree, bundled, enabled, entriesOf, directCache, packedCache, inflight, asked,
                 answers, explorer, gone, opens, stores>>

FilesOf(i) == IF i = "sub" THEN InSub ELSE {i}
Forget     == directCache' = [p \in Paths |-> Unread] /\ packedCache' = Unread

\* It is moved to the trash; cleanupLocalRecordsForDeletedRemotePath, and the caches.
Moved ==
  /\ deleting.stage = "moving" /\ deleting' = [deleting EXCEPT !.stage = "publishing"]
  /\ tree' = tree \ FilesOf(deleting.item) /\ entriesOf' = entriesOf \ FilesOf(deleting.item)
  /\ gone' = gone \cup {deleting.item} \cup FilesOf(deleting.item)
  /\ Forget
  /\ UNCHANGED <<bundled, enabled, inflight, asked, answers, explorer, opens, stores>>

MoveFails ==
  /\ deleting.stage = "moving" /\ deleting' = None
  /\ UNCHANGED <<tree, bundled, enabled, entriesOf, directCache, packedCache, inflight, asked,
                 answers, explorer, gone, opens, stores>>

\* The catalog is published, and the panel reads the folder again.
Published ==
  /\ deleting.stage = "publishing" /\ deleting' = None /\ Load(deleting.path)
  /\ UNCHANGED <<tree, bundled, enabled, entriesOf, directCache, packedCache, answers, gone,
                 opens, stores>>

ExplorerStep ==
  \/ \E p \in Paths : Open(p) \/ ReadDirect(p) \/ DirectArrives(p) \/ ReadPacked(p)
                      \/ PackedArrives(p) \/ Listed(p)
  \/ \E a \in answers : Answered(a)
  \/ \E f \in Stored : BackUp(f)
  \/ \E i \in Stored \cup {"sub"} : DeleteRemote(i)
  \/ CacheExpires \/ ToggleFolder \/ Moved \/ MoveFails \/ Published

-----------------------------------------------------------------------------
(* Names of computers.  One computer is enough: names are merged apart.    *)

AliasInit ==
  /\ localName = NoLabel /\ remoteName = NoLabel /\ panelName = NoLabel
  /\ syncs = {} /\ publishing = <<>> /\ lastGiven = [name |-> NoLabel, here |-> TRUE] /\ namings = 0 /\ rounds = 0

Merged(under, over) == IF over = NoLabel THEN under ELSE over
Apply(name, label)  == label

AliasIdle == syncs = {} /\ publishing = <<>>

\* handleSaveComputerAlias, saveAlias and scheduleAliasPublish
SaveAlias(label) ==
  /\ namings < MaxNamings /\ namings' = namings + 1
  /\ label = NoLabel => "remove" \in NameHabits
  /\ syncs = {} \/ "overlap" \in NameHabits
  /\ localName' = Apply(localName, label) /\ panelName' = label
  /\ lastGiven' = [name |-> label, here |-> TRUE]
  /\ publishing' = Append(publishing,
                     [label |-> label, stage |-> "waiting", local |-> NoLabel, remote |-> NoLabel])
  /\ UNCHANGED <<remoteName, syncs, rounds>>

\* readRemoteAliases: a file that cannot be read is taken for an empty one.
RemoteRead == {remoteName} \cup (IF "read" \in NameHabits THEN {NoLabel} ELSE {})

\* Publishes follow one another.
PublishTurns == IF publishing = <<>> THEN {} ELSE {1}

PublishReads(n) ==
  /\ publishing[n].stage = "waiting"
  /\ \E read \in RemoteRead :
       publishing' = [publishing EXCEPT ![n].stage = "writing", ![n].local = localName,
                                        ![n].remote = read]
  /\ UNCHANGED <<localName, remoteName, panelName, syncs, lastGiven, namings, rounds>>

PublishWrites(n) ==
  /\ publishing[n].stage = "writing"
  /\ publishing' = [k \in 1 .. Len(publishing) - 1 |-> publishing[IF k < n THEN k ELSE k + 1]]
  /\ \/ remoteName' = Apply(Merged(publishing[n].remote, publishing[n].local), publishing[n].label)
     \/ "write" \in NameHabits /\ UNCHANGED remoteName
  /\ UNCHANGED <<localName, panelName, syncs, lastGiven, namings, rounds>>

\* syncAliases: what is under way is shared unless it is forced.
SyncStarts ==
  /\ rounds < MaxSyncs /\ rounds' = rounds + 1
  /\ publishing = <<>> \/ "overlap" \in NameHabits
  /\ \E read \in RemoteRead :
       syncs' = syncs \cup {[round |-> rounds', local |-> localName, remote |-> read]}
  /\ UNCHANGED <<localName, remoteName, panelName, publishing, lastGiven, namings>>

\* performAliasSync: the shared names win, and what only this PC has is published.
SyncEnds(s) ==
  LET name == Merged(s.local, s.remote) IN
  /\ s \in syncs /\ syncs' = syncs \ {s}
  /\ localName' = name /\ panelName' = name
  /\ \/ remoteName' = IF name # s.remote THEN name ELSE remoteName
     \/ "write" \in NameHabits /\ UNCHANGED remoteName
  /\ UNCHANGED <<publishing, lastGiven, namings, rounds>>

\* Another PC names the computer, while this one is at rest.
OtherPCNames(label) ==
  /\ namings < MaxNamings /\ namings' = namings + 1 /\ AliasIdle
  /\ remoteName' = label /\ lastGiven' = [name |-> label, here |-> FALSE]
  /\ UNCHANGED <<localName, panelName, syncs, publishing, rounds>>

AliasStep ==
  \/ \E label \in Labels \cup {NoLabel} : SaveAlias(label)
  \/ \E label \in Labels : OtherPCNames(label)
  \/ \E n \in PublishTurns : PublishReads(n) \/ PublishWrites(n)
  \/ \E s \in syncs : SyncEnds(s)
  \/ SyncStarts

-----------------------------------------------------------------------------
(* Properties *)

\* The explorer shows the path it names, whatever was opened before it and is answered
\* later, and nothing that was deleted before it was read.
ExplorerIsCurrent ==
  ~explorer.loading =>
    /\ explorer.direct \cup explorer.packed \subseteq Items(explorer.path)
    /\ deleting = None => explorer.direct \cap gone = {}

\* A deletion takes no record of a file with it whose copy stays, and what is shown as
\* being in a bundle is not deleted.
RecordsFollow ==
  tree \subseteq entriesOf

\* At rest the name given last, here or on another PC, is the shared one, and one that
\* was given here is the one this PC has and shows, however many were given before it.
NameIsKept ==
  AliasIdle =>
    /\ remoteName = lastGiven.name
    /\ lastGiven.here => localName = lastGiven.name
    /\ panelName = localName

ExplorerKeeps == ExplorerIsCurrent /\ RecordsFollow
=============================================================================
