--------------------------- MODULE RestoreCatalog ---------------------------
(***************************************************************************)
(* Several PCs with one vault: the name each PC is registered under        *)
(* (main/folderIdentity.js and alignDeviceIdentity of                      *)
(* main/backupWorker.js), the restore catalog that each PC publishes whole *)
(* (main/remoteCatalog.js) and the import of a catalog (main/database.js). *)
(*                                                                         *)
(* A PC is its fingerprint.  Each has at most one folder of its own; the   *)
(* record of a folder is kept under the PC that added it.  A copy in the   *)
(* vault is where it is: under computers/<name>.                           *)
(***************************************************************************)
EXTENDS Naturals, FiniteSets

CONSTANTS Machines, HostNames, MaxCommands   \* bound: names, folders and removals by the users

CatalogAssumption == MaxCommands \in Nat /\ "none" \notin HostNames

VARIABLES
  host,      \* per PC, os.hostname()
  names,     \* per PC, device_fingerprints
  folders,   \* per PC, its folder records
  aligning,  \* per PC, the run: where it is and the catalog it has read
  catalog,   \* the published catalog
  tree,      \* per name, the PCs with copies under computers/<name>
  commands

vars == <<host, names, folders, aligning, catalog, tree, commands>>

NoName   == "none"
Maybe    == HostNames \cup {NoName}
NoFolder == [root |-> NoName, enabled |-> FALSE, copies |-> {}]
Folder   == [root : Maybe, enabled : BOOLEAN, copies : SUBSET HostNames]
Idle     == [at |-> "idle", from |-> NoName]

TypeOK ==
  /\ host \in [Machines -> HostNames]
  /\ names \in [Machines -> [Machines -> Maybe]]
  /\ \A p, q \in Machines :
       folders[p][q] \in Folder /\ (folders[p][q].root = NoName => folders[p][q] = NoFolder)
  /\ \A p \in Machines :
       aligning[p].at \in {"idle", "read", "rename", "publish", "copy", "finish"}
         /\ aligning[p].from \in Maybe
  /\ catalog.names \in [Machines -> Maybe] /\ catalog.folders \in [Machines -> Folder]
  /\ tree \in [HostNames -> SUBSET Machines] /\ commands \in 0 .. MaxCommands

Init ==
  /\ host \in [Machines -> HostNames]
  /\ names = [p \in Machines |-> [q \in Machines |-> NoName]]
  /\ folders = [p \in Machines |-> [q \in Machines |-> NoFolder]]
  /\ aligning = [p \in Machines |-> Idle]
  /\ catalog = [written |-> FALSE, names |-> [q \in Machines |-> NoName],
                folders |-> [q \in Machines |-> NoFolder]]
  /\ tree = [n \in HostNames |-> {}] /\ commands = 0

\* The left map, overwritten by what the right one has.
Overlay(m, n) == [q \in Machines |-> IF n[q] = NoName THEN m[q] ELSE n[q]]

Known(p) == [names[p] EXCEPT ![p] = host[p]]

\* The whole catalog is this PC's database, with its own current name; what a
\* publication sends is the database of the moment it starts.
Sent(p, fs) == catalog' = [written |-> TRUE, names |-> Known(p), folders |-> fs]

\* The names are noted after the upload.  Two publications under way at once
\* are left out.
Publish(p, fs) == Sent(p, fs) /\ names' = [names EXCEPT ![p] = Known(p)]

\* The upload fails, or the program ends before the names are noted.
PublishBreaks(p, fs) == names' = names /\ (Sent(p, fs) \/ UNCHANGED catalog)

-----------------------------------------------------------------------------
(* What the user does. *)

Command == commands < MaxCommands /\ commands' = commands + 1

\* The machine gets a new name and is started again.
RenameHost(p) ==
  /\ Command
  /\ \E n \in HostNames \ {host[p]} : host' = [host EXCEPT ![p] = n]
  /\ aligning' = [aligning EXCEPT ![p] = Idle]
  /\ UNCHANGED <<names, folders, catalog, tree>>

\* A new folder goes under the current name; its record is published by the
\* run that follows.
AddFolder(p) ==
  /\ Command
  /\ folders[p][p] = NoFolder
  /\ folders' = [folders EXCEPT ![p][p] = [NoFolder EXCEPT !.root = host[p], !.enabled = TRUE]]
  /\ UNCHANGED <<host, names, aligning, catalog, tree>>

\* findReusableFolder: the imported record of this PC's folder is taken up.
AdoptFolder(p) ==
  /\ folders[p][p] # NoFolder /\ ~folders[p][p].enabled
  /\ folders' = [folders EXCEPT ![p][p].enabled = TRUE]
  /\ Publish(p, folders'[p]) \/ PublishBreaks(p, folders'[p])
  /\ UNCHANGED <<host, aligning, tree, commands>>

\* The manifest of the folder goes too; the copies in the vault stay.
RemoveFolder(p) ==
  /\ Command
  /\ folders[p][p] # NoFolder
  /\ folders' = [folders EXCEPT ![p][p] = NoFolder]
  /\ Publish(p, folders'[p]) \/ PublishBreaks(p, folders'[p])
  /\ UNCHANGED <<host, aligning, tree>>

\* Mutant: every imported record is switched off.
ImportedOff(mine, theirs) == [theirs EXCEPT !.enabled = FALSE]

Imported(mine, theirs) == [theirs EXCEPT !.enabled = mine.enabled]

\* The catalog is merged into this database; a folder that is backed up here
\* stays so, with the path the catalog gives.
ImportRemoteCatalog(p) ==
  /\ catalog.written
  /\ folders' = [folders EXCEPT ![p] = [q \in Machines |->
       IF catalog.folders[q] = NoFolder THEN folders[p][q]
       ELSE [Imported(folders[p][q], catalog.folders[q])
               EXCEPT !.copies = @ \cup folders[p][q].copies]]]
  /\ names' = [names EXCEPT ![p] = Overlay(@, catalog.names)]
  /\ UNCHANGED <<host, aligning, catalog, tree, commands>>

\* The vault is disconnected: the folders are removed, the names stay.
Disconnect(p) ==
  /\ aligning[p] = Idle
  /\ folders' = [folders EXCEPT ![p] = [q \in Machines |-> NoFolder]]
  /\ UNCHANGED <<host, names, aligning, catalog, tree, commands>>

-----------------------------------------------------------------------------
(* A run. *)

GoTo(p, place) == aligning' = [aligning EXCEPT ![p].at = place]

\* The catalog is only read when this PC is not known under its current name.
StartRun(p) ==
  /\ aligning[p] = Idle /\ folders[p][p].enabled
  /\ GoTo(p, IF names[p][p] = host[p] THEN "copy" ELSE "read")
  /\ UNCHANGED <<host, names, folders, catalog, tree, commands>>

\* No catalog, or it cannot be read now: the run goes on without.
ReadFails(p) ==
  /\ aligning[p].at = "read" /\ GoTo(p, "copy")
  /\ UNCHANGED <<host, names, folders, catalog, tree, commands>>

ReadRemote(p) ==
  /\ aligning[p].at = "read" /\ catalog.written
  /\ LET known == Overlay(names[p], catalog.names) IN
     /\ names' = [names EXCEPT ![p] = known]
     /\ aligning' = [aligning EXCEPT ![p] =
          [at |-> IF known[p] = NoName THEN "publish"
                  ELSE IF known[p] = host[p] THEN "copy" ELSE "rename",
           from |-> known[p]]]
  /\ UNCHANGED <<host, folders, catalog, tree, commands>>

FolderMoves(f, old, new) == IF f.root = old THEN [f EXCEPT !.root = new] ELSE f

\* The remote directory is renamed, or that fails and is only logged; the
\* records of all folders under the old name follow, their manifests do not.
RenameRemote(p) ==
  /\ aligning[p].at = "rename"
  /\ LET old == aligning[p].from IN
     /\ tree' \in {tree, [tree EXCEPT ![old] = {}, ![host[p]] = @ \cup tree[old]]}
     /\ folders' = [folders EXCEPT ![p] =
          [q \in Machines |-> FolderMoves(@[q], old, host[p])]]
  /\ names' = [names EXCEPT ![p][p] = host[p]]
  /\ GoTo(p, "publish")
  /\ UNCHANGED <<host, catalog, commands>>

PublishAligned(p) ==
  /\ aligning[p].at = "publish"
  /\ \/ Publish(p, folders[p]) /\ GoTo(p, "copy")
     \/ PublishBreaks(p, folders[p]) /\ aligning' = [aligning EXCEPT ![p] = Idle]
  /\ UNCHANGED <<host, folders, tree, commands>>

\* Copies go where the record says; files that did not change are not copied.
Copy(p) ==
  /\ aligning[p].at = "copy" /\ folders[p][p].enabled
  /\ \E all \in BOOLEAN :
       /\ folders[p][p].copies = {} => all
       /\ IF all
          THEN /\ tree' = [tree EXCEPT ![folders[p][p].root] = @ \cup {p}]
               /\ folders' = [folders EXCEPT ![p][p].copies = @ \cup {folders[p][p].root}]
          ELSE UNCHANGED <<tree, folders>>
  /\ GoTo(p, "finish")
  /\ UNCHANGED <<host, names, catalog, commands>>

Finish(p) ==
  /\ aligning[p].at = "finish"
  /\ Publish(p, folders[p]) \/ PublishBreaks(p, folders[p])
  /\ aligning' = [aligning EXCEPT ![p] = Idle]
  /\ UNCHANGED <<host, folders, tree, commands>>

\* A call fails, the user stops the run or the program ends.
RunEnds(p) ==
  /\ aligning[p] # Idle
  /\ aligning' = [aligning EXCEPT ![p] = Idle]
  /\ UNCHANGED <<host, names, folders, catalog, tree, commands>>

Next ==
  \E p \in Machines :
    \/ RenameHost(p) \/ AddFolder(p) \/ AdoptFolder(p) \/ RemoveFolder(p)
    \/ ImportRemoteCatalog(p) \/ Disconnect(p)
    \/ StartRun(p) \/ ReadFails(p) \/ ReadRemote(p) \/ RenameRemote(p)
    \/ PublishAligned(p) \/ Copy(p) \/ Finish(p) \/ RunEnds(p)

Spec == Init /\ [][Next]_vars

-----------------------------------------------------------------------------

\* An import leaves on what is backed up on this PC, also when the catalog of
\* another PC lists the same folder: only the user ends a backup.
OwnBackupsStay ==
  [][\A p \in Machines :
       folders[p][p].enabled /\ folders'[p][p] # NoFolder => folders'[p][p].enabled]_vars
=============================================================================
