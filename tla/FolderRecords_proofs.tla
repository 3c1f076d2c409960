------------------------ MODULE FolderRecords_proofs ------------------------
(***************************************************************************)
(* Proofs about FolderRecords, as it is composed in MCRecovery: the rows of *)
(* a folder move together, and their summary counts them all while they    *)
(* change under it.  They close the invariant NothingLeftBehind of         *)
(* MCRecovery, whose other parts are in MCRecovery_proofs and              *)
(* Panels_proofs.                                                          *)
(***************************************************************************)
EXTENDS Panels_proofs

-----------------------------------------------------------------------------
(* FolderRecords.  Rows have ids of their own; what an entry, a point and  *)
(* the worker know of a folder's place is what its row says.               *)

RowStates == {"none", "syncing", "paused", "idle"}
RowType   == [id : Nat, path : LocalPaths, remote : LocalPaths, on : BOOLEAN,
              only : SUBSET RowNames, state : RowStates]
EntryStates == {"none", "dirty", "deleted", "deleted_pending_history", "backed_up", "failed"}
RowEntry  == [status : EntryStates, root : LocalPaths \cup {"none"}, kept : BOOLEAN]
RowPoint  == [folder : Nat, path : LocalPaths]

RowsTyped ==
  /\ docFolders \in Seq(RowType) /\ given \in Nat
  /\ \A i \in DOMAIN docFolders : docFolders[i].id \in 1 .. given
  /\ \A i, j \in DOMAIN docFolders : docFolders[i].id = docFolders[j].id => i = j
  /\ \A i \in DOMAIN docFolders :
       docFolders[i].only = {} \/ \E n \in RowNames : docFolders[i].only = {n}

ManifestInv ==
  /\ DOMAIN manifest \subseteq Rows!FolderIds
  /\ \A id \in DOMAIN manifest : \A n \in DOMAIN manifest[id] : manifest[id][n] \in RowEntry
  /\ \A i \in DOMAIN docFolders : docFolders[i].id \in DOMAIN manifest =>
       \A n \in DOMAIN manifest[docFolders[i].id] :
         manifest[docFolders[i].id][n].root \in {"none", docFolders[i].path}

RowPointsInv ==
  /\ docPoints \in Seq(RowPoint)
  /\ \A k \in DOMAIN docPoints :
       /\ docPoints[k].folder \in 1 .. given
       /\ \A i \in DOMAIN docFolders :
            docFolders[i].id = docPoints[k].folder => docFolders[i].path = docPoints[k].path

WorkerInv ==
  working # Rows!Idle =>
    \E i \in DOMAIN docFolders : docFolders[i].id = working.id /\ docFolders[i].path = working.root

ApartInv ==
  \A i, j \in DOMAIN docFolders :
    i # j /\ docFolders[i].on /\ docFolders[j].on /\ docFolders[i].path = docFolders[j].path
      => /\ docFolders[i].only # {} /\ docFolders[j].only # {}
         /\ docFolders[i].only \cap docFolders[j].only = {}

PausedInv ==
  \A i \in DOMAIN docFolders : docFolders[i].state = "paused" => docFolders[i].id \in stopped

WholeInv ==
  \A p \in whole : \E i \in DOMAIN docFolders :
    docFolders[i].on /\ docFolders[i].path = p /\ docFolders[i].only = {}

\* What a count of everything finds, and what the count under way has of it.
Finds(id, n) == <<id, n, manifest[id][n].status, manifest[id][n].kept>>
AllRows      == {<<docFolders[i].id, docFolders[i].path>> : i \in DOMAIN docFolders}
IsFound(x)   == \E i \in DOMAIN docFolders : \E n \in DOMAIN Rows!Entries(manifest, docFolders[i].id) :
                  x = Finds(docFolders[i].id, n)
JobShape(j) ==
  \E u, rs, c, rev, sg, t, l, a, lf :
    j = [under |-> u, rows |-> rs, counted |-> c, revision |-> rev, signature |-> sg,
         todo |-> t, live |-> l, at |-> a, left |-> lf]

JobCounts ==
  /\ summaryJob.todo \in Seq(Nat)
  /\ \A k \in DOMAIN summaryJob.todo : summaryJob.todo[k] \in Rows!FolderIds
  /\ summaryJob.left \subseteq DOMAIN Rows!Entries(manifest, summaryJob.at)
  /\ summaryJob.rows \subseteq AllRows
  /\ \A x \in summaryJob.counted : IsFound(x)
  /\ \A i \in DOMAIN docFolders :
       \/ \E k \in DOMAIN summaryJob.todo : summaryJob.todo[k] = docFolders[i].id
       \/ /\ <<docFolders[i].id, docFolders[i].path>> \in summaryJob.rows
          /\ \A n \in DOMAIN Rows!Entries(manifest, docFolders[i].id) :
               \/ docFolders[i].id = summaryJob.at /\ n \in summaryJob.left
               \/ Finds(docFolders[i].id, n) \in summaryJob.counted

JobInv ==
  /\ JobShape(summaryJob) /\ summaryJob.revision \in Nat /\ summaryJob.revision <= revision
  /\ summaryJob.under /\ summaryJob.revision = revision => JobCounts

CacheCounts ==
  /\ summaryCache.rows = AllRows
  /\ \A x \in summaryCache.counted : IsFound(x)
  /\ \A i \in DOMAIN docFolders : \A n \in DOMAIN Rows!Entries(manifest, docFolders[i].id) :
       Finds(docFolders[i].id, n) \in summaryCache.counted

CacheInv ==
  /\ revision \in Nat /\ summaryCache.revision \in Nat
  /\ summaryCache.known => summaryCache.revision <= revision
  /\ summaryCache.known /\ summaryCache.revision = revision => CacheCounts

PlacesInv == RowsTyped /\ ManifestInv /\ RowPointsInv /\ WorkerInv
WishesInv == ApartInv /\ PausedInv /\ WholeInv
RowsInv == PlacesInv /\ WishesInv /\ JobInv /\ CacheInv

LEMMA RowsInitially == ASSUME Rows!RecordsInit PROVE RowsInv
<1>1. /\ docFolders = <<>> /\ manifest = <<>> /\ docPoints = <<>> /\ working = Rows!Idle
      /\ stopped = {} /\ whole = {} /\ given = 0 /\ revision = 0 /\ summaryCache = Rows!None
      /\ summaryJob = Rows!NoJob
  BY DEF Rows!RecordsInit
<1>2. /\ docFolders \in Seq(RowType) /\ docPoints \in Seq(RowPoint)
      /\ DOMAIN docFolders = {} /\ DOMAIN docPoints = {} /\ DOMAIN manifest = {}
  BY <1>1
<1>3. RowsTyped /\ ManifestInv /\ RowPointsInv /\ WorkerInv
  BY <1>1, <1>2 DEF RowsTyped, ManifestInv, RowPointsInv, WorkerInv
<1>4. ApartInv /\ PausedInv /\ WholeInv
  BY <1>1, <1>2 DEF ApartInv, PausedInv, WholeInv
<1>5. JobInv
  <2>1. JobShape(summaryJob)
    BY <1>1 DEF Rows!NoJob, JobShape
  <2>2. summaryJob.under = FALSE /\ summaryJob.revision = 0
    BY <1>1 DEF Rows!NoJob
  <2>3. QED BY <1>1, <2>1, <2>2 DEF JobInv
<1>6. CacheInv
  <2>1. summaryCache.known = FALSE /\ summaryCache.revision = 0
    BY <1>1 DEF Rows!None
  <2>2. QED BY <1>1, <2>1 DEF CacheInv
<1>7. QED BY <1>3, <1>4, <1>5, <1>6 DEF RowsInv, PlacesInv, WishesInv

\* The row of an id.
LEMMA FolderIs ==
  ASSUME RowsTyped, NEW i \in DOMAIN docFolders
  PROVE  Rows!Folder(docFolders[i].id) = docFolders[i] /\ docFolders[i].id \in Rows!FolderIds
<1>1. \A j \in DOMAIN docFolders : docFolders[j].id = docFolders[i].id <=> j = i
  BY DEF RowsTyped
<1>2. (CHOOSE j \in DOMAIN docFolders : docFolders[j].id = docFolders[i].id) = i
  BY <1>1
<1>3. QED BY <1>2 DEF Rows!Folder, Rows!FolderIds

LEMMA FolderOf ==
  ASSUME RowsTyped, NEW id \in Rows!FolderIds
  PROVE  \E i \in DOMAIN docFolders :
           /\ docFolders[i].id = id /\ Rows!Folder(id) = docFolders[i] /\ docFolders[i] \in RowType
           /\ \A j \in DOMAIN docFolders : docFolders[j].id = id <=> j = i
<1>1. PICK i \in DOMAIN docFolders : docFolders[i].id = id
  BY DEF Rows!FolderIds
<1>2. Rows!Folder(id) = docFolders[i] /\ docFolders[i] \in RowType
  BY <1>1, FolderIs DEF RowsTyped
<1>3. \A j \in DOMAIN docFolders : docFolders[j].id = id <=> j = i
  BY <1>1 DEF RowsTyped
<1>4. QED BY <1>1, <1>2, <1>3

\* What EXCEPT leaves of a row.
LEMMA RowAlters ==
  ASSUME NEW f \in RowType, NEW b \in BOOLEAN, NEW s \in RowStates, NEW p \in LocalPaths
  PROVE  /\ [f EXCEPT !.on = b] = [id |-> f.id, path |-> f.path, remote |-> f.remote, on |-> b,
                                   only |-> f.only, state |-> f.state]
         /\ [f EXCEPT !.state = s] = [id |-> f.id, path |-> f.path, remote |-> f.remote, on |-> f.on,
                                      only |-> f.only, state |-> s]
         /\ [f EXCEPT !.on = b, !.state = s]
              = [id |-> f.id, path |-> f.path, remote |-> f.remote, on |-> b,
                 only |-> f.only, state |-> s]
         /\ [f EXCEPT !.path = p, !.on = b]
              = [id |-> f.id, path |-> p, remote |-> f.remote, on |-> b,
                 only |-> f.only, state |-> f.state]
<1>1. PICK a \in Nat, c \in LocalPaths, d \in LocalPaths, e \in BOOLEAN, g \in SUBSET RowNames,
           h \in RowStates :
        f = [id |-> a, path |-> c, remote |-> d, on |-> e, only |-> g, state |-> h]
  BY DEF RowType
<1>2. f.id = a /\ f.path = c /\ f.remote = d /\ f.on = e /\ f.only = g /\ f.state = h
  BY <1>1
<1>3. [f EXCEPT !.on = b] = [id |-> a, path |-> c, remote |-> d, on |-> b, only |-> g, state |-> h]
  BY <1>1
<1>4. [f EXCEPT !.state = s] = [id |-> a, path |-> c, remote |-> d, on |-> e, only |-> g, state |-> s]
  BY <1>1
<1>5. [f EXCEPT !.on = b, !.state = s]
        = [id |-> a, path |-> c, remote |-> d, on |-> b, only |-> g, state |-> s]
  <2>1. PICK u : u = [f EXCEPT !.on = b]
    OBVIOUS
  <2>2. [f EXCEPT !.on = b, !.state = s] = [u EXCEPT !.state = s]
    BY <2>1
  <2>3. u = [id |-> a, path |-> c, remote |-> d, on |-> b, only |-> g, state |-> h]
    BY <1>1, <2>1
  <2>4. [u EXCEPT !.state = s]
          = [id |-> a, path |-> c, remote |-> d, on |-> b, only |-> g, state |-> s]
    BY <2>3
  <2>5. QED BY <2>2, <2>4
<1>6. [f EXCEPT !.path = p, !.on = b]
        = [id |-> a, path |-> p, remote |-> d, on |-> b, only |-> g, state |-> h]
  <2>1. PICK u : u = [f EXCEPT !.path = p]
    OBVIOUS
  <2>2. [f EXCEPT !.path = p, !.on = b] = [u EXCEPT !.on = b]
    BY <2>1
  <2>3. u = [id |-> a, path |-> p, remote |-> d, on |-> e, only |-> g, state |-> h]
    BY <1>1, <2>1
  <2>4. [u EXCEPT !.on = b]
          = [id |-> a, path |-> p, remote |-> d, on |-> b, only |-> g, state |-> h]
    BY <2>3
  <2>5. QED BY <2>2, <2>4
<1>7. QED BY <1>1, <1>2, <1>3, <1>4, <1>5, <1>6

-----------------------------------------------------------------------------
(* Steps that leave every row its id, place and selection.                 *)

SameRow(f, g) ==
  /\ g \in RowType
  /\ g.id = f.id /\ g.path = f.path /\ g.only = f.only

LEMMA RowWritten ==
  ASSUME NEW f \in RowType, NEW c \in BOOLEAN, NEW t \in RowStates, NEW g,
         g = [id |-> f.id, path |-> f.path, remote |-> f.remote, on |-> c,
              only |-> f.only, state |-> t]
  PROVE  SameRow(f, g) /\ g.on = c /\ g.state = t
<1>1. /\ f.id \in Nat /\ f.path \in LocalPaths /\ f.remote \in LocalPaths /\ f.only \in SUBSET RowNames
  BY DEF RowType
<1>2. g \in RowType
  BY <1>1 DEF RowType
<1>3. g.id = f.id /\ g.path = f.path /\ g.only = f.only /\ g.on = c /\ g.state = t
  OBVIOUS
<1>4. QED BY <1>2, <1>3 DEF SameRow

LEMMA RowsInSeq ==
  ASSUME docFolders \in Seq(RowType), NEW g, docFolders' = [i \in DOMAIN docFolders |-> g[i]],
         \A i \in DOMAIN docFolders : g[i] \in RowType
  PROVE  docFolders' \in Seq(RowType) /\ DOMAIN docFolders' = DOMAIN docFolders
<1>1. PICK n \in Nat : DOMAIN docFolders = 1 .. n
  BY LenProperties
<1>2. PICK q : q = docFolders'
  OBVIOUS
<1>3. q = [i \in 1 .. n |-> g[i]] /\ \A i \in 1 .. n : g[i] \in RowType
  BY <1>1, <1>2
<1>4. q \in Seq(RowType) /\ DOMAIN q = 1 .. n
  BY <1>3
<1>5. QED BY <1>1, <1>2, <1>4
Alike ==
  /\ docFolders' \in Seq(RowType) /\ DOMAIN docFolders' = DOMAIN docFolders
  /\ \A i \in DOMAIN docFolders : SameRow(docFolders[i], docFolders'[i])

LEMMA AlikeKeeps ==
  ASSUME PlacesInv, JobInv, CacheInv, Alike, UNCHANGED <<manifest, given>>
  PROVE  /\ RowsTyped' /\ ManifestInv'
         /\ UNCHANGED docPoints => RowPointsInv'
         /\ UNCHANGED summaryJob /\ UNCHANGED summaryCache /\ UNCHANGED revision => JobInv' /\ CacheInv'
         /\ working' \in {working, Rows!Idle} => WorkerInv'
<1>1. /\ DOMAIN docFolders' = DOMAIN docFolders
      /\ \A i \in DOMAIN docFolders :
           /\ docFolders'[i].id = docFolders[i].id /\ docFolders'[i].path = docFolders[i].path
           /\ docFolders'[i].only = docFolders[i].only
  BY DEF Alike, SameRow
<1>2. RowsTyped /\ ManifestInv /\ RowPointsInv /\ WorkerInv
  BY DEF PlacesInv
<1>3. RowsTyped'
  <2>1. docFolders' \in Seq(RowType) /\ given' = given /\ given \in Nat
    BY <1>2 DEF Alike, RowsTyped
  <2>2. \A i \in DOMAIN docFolders' : docFolders'[i].id \in 1 .. given
    BY <1>1, <1>2 DEF RowsTyped
  <2>3. \A i, j \in DOMAIN docFolders' : docFolders'[i].id = docFolders'[j].id => i = j
    BY <1>1, <1>2 DEF RowsTyped
  <2>4. \A i \in DOMAIN docFolders' :
          docFolders'[i].only = {} \/ \E n \in RowNames : docFolders'[i].only = {n}
    <3>1. TAKE i \in DOMAIN docFolders'
    <3>2. docFolders'[i].only = docFolders[i].only /\ i \in DOMAIN docFolders
      BY <1>1
    <3>3. docFolders[i].only = {} \/ \E n \in RowNames : docFolders[i].only = {n}
      BY <1>2, <3>2 DEF RowsTyped
    <3>4. QED BY <3>2, <3>3
  <2>5. QED BY <2>1, <2>2, <2>3, <2>4 DEF RowsTyped
<1>4. Rows!FolderIds' = Rows!FolderIds
  BY <1>1 DEF Rows!FolderIds
<1>5. ManifestInv'
  BY <1>1, <1>2, <1>4 DEF ManifestInv
<1>6. ASSUME UNCHANGED docPoints PROVE RowPointsInv'
  BY <1>1, <1>2, <1>6 DEF RowPointsInv
<1>7. ASSUME working' \in {working, Rows!Idle} PROVE WorkerInv'
  <2>1. (Rows!Idle)' = Rows!Idle
    BY DEF Rows!Idle
  <2>2. QED BY <1>1, <1>2, <1>7, <2>1 DEF WorkerInv
<1>8. AllRows' = AllRows /\ \A x : IsFound(x)' <=> IsFound(x)
  <2>1. AllRows' = AllRows
    BY <1>1 DEF AllRows
  <2>2. \A x : IsFound(x)' <=> IsFound(x)
    BY <1>1 DEF IsFound, Finds, Rows!Entries
  <2>3. QED BY <2>1, <2>2
<1>9. ASSUME UNCHANGED summaryJob, UNCHANGED summaryCache, UNCHANGED revision PROVE JobInv' /\ CacheInv'
  <2>1. JobShape(summaryJob') /\ summaryJob'.revision \in Nat /\ summaryJob'.revision <= revision'
    BY <1>9 DEF JobInv
  <2>2. ASSUME summaryJob'.under, summaryJob'.revision = revision' PROVE JobCounts'
    <3>1. JobCounts
      BY <1>9, <2>2 DEF JobInv
    <3>2. QED BY <1>1, <1>4, <1>8, <1>9, <3>1 DEF JobCounts, Finds, Rows!Entries
  <2>3. ASSUME summaryCache'.known, summaryCache'.revision = revision' PROVE CacheCounts'
    <3>1. CacheCounts
      BY <1>9, <2>3 DEF CacheInv
    <3>2. QED BY <1>1, <1>8, <1>9, <3>1 DEF CacheCounts, Finds, Rows!Entries
  <2>4. JobInv'
    BY <2>1, <2>2 DEF JobInv
  <2>5. CacheInv'
    BY <1>9, <2>3 DEF CacheInv
  <2>6. QED BY <2>4, <2>5
<1>10. QED BY <1>3, <1>5, <1>6, <1>7, <1>9

\* What was counted is dropped.
LEMMA CountDropped ==
  ASSUME JobInv, CacheInv, Rows!Invalidated, JobShape(summaryJob'),
         summaryJob'.revision = summaryJob.revision
  PROVE  JobInv' /\ CacheInv'
<1>1. /\ revision \in Nat /\ summaryJob.revision \in Nat /\ summaryJob.revision <= revision
      /\ revision' = revision + 1 /\ summaryCache' = Rows!None
  BY DEF JobInv, CacheInv, Rows!Invalidated
<1>2. summaryJob'.revision # revision' /\ summaryJob'.revision <= revision' /\ revision' \in Nat
  BY <1>1
<1>3. summaryCache'.known = FALSE /\ summaryCache'.revision = 0
  BY <1>1 DEF Rows!None
<1>4. JobInv'
  BY <1>1, <1>2 DEF JobInv
<1>5. CacheInv'
  BY <1>1, <1>2, <1>3 DEF CacheInv
<1>6. QED BY <1>4, <1>5

\* Changes of the job that leave what it has counted.
LEMMA JobAlters ==
  ASSUME NEW j, JobShape(j), NEW x
  PROVE  /\ JobShape([j EXCEPT !.todo = x]) /\ [j EXCEPT !.todo = x].revision = j.revision
         /\ JobShape([j EXCEPT !.live = x]) /\ [j EXCEPT !.live = x].revision = j.revision
<1>1. PICK u, rs, c, rev, sg, t, l, a, lf :
        j = [under |-> u, rows |-> rs, counted |-> c, revision |-> rev, signature |-> sg,
             todo |-> t, live |-> l, at |-> a, left |-> lf]
  BY DEF JobShape
<1>2. [j EXCEPT !.todo = x] = [under |-> u, rows |-> rs, counted |-> c, revision |-> rev,
                               signature |-> sg, todo |-> x, live |-> l, at |-> a, left |-> lf]
  BY <1>1
<1>3. [j EXCEPT !.live = x] = [under |-> u, rows |-> rs, counted |-> c, revision |-> rev,
                               signature |-> sg, todo |-> t, live |-> x, at |-> a, left |-> lf]
  BY <1>1
<1>4. JobShape([j EXCEPT !.todo = x]) /\ JobShape([j EXCEPT !.live = x])
  <2>1. PICK q, r : q = [j EXCEPT !.todo = x] /\ r = [j EXCEPT !.live = x]
    OBVIOUS
  <2>2. q = [under |-> u, rows |-> rs, counted |-> c, revision |-> rev, signature |-> sg,
             todo |-> x, live |-> l, at |-> a, left |-> lf]
    BY <1>2, <2>1
  <2>3. r = [under |-> u, rows |-> rs, counted |-> c, revision |-> rev, signature |-> sg,
             todo |-> t, live |-> x, at |-> a, left |-> lf]
    BY <1>3, <2>1
  <2>4. JobShape(q)
    BY <2>2, Zenon DEF JobShape
  <2>5. JobShape(r)
    BY <2>3, Zenon DEF JobShape
  <2>6. QED BY <2>1, <2>4, <2>5
<1>5. [j EXCEPT !.todo = x].revision = rev /\ [j EXCEPT !.live = x].revision = rev /\ j.revision = rev
  BY <1>1, <1>2, <1>3
<1>6. QED BY <1>4, <1>5

-----------------------------------------------------------------------------
(* Entries of the manifests.                                               *)

LEMMA EntryIs ==
  ASSUME RowsTyped, ManifestInv, NEW id \in Rows!FolderIds, NEW n
  PROVE  /\ Rows!Entry(id, n) \in RowEntry
         /\ Rows!Entry(id, n).root \in {"none", Rows!Folder(id).path}
<1>1. PICK i \in DOMAIN docFolders : docFolders[i].id = id /\ Rows!Folder(id) = docFolders[i]
  BY FolderOf
<1>2. CASE n \in DOMAIN Rows!Entries(manifest, id)
  <2>1. id \in DOMAIN manifest /\ n \in DOMAIN manifest[id] /\ Rows!Entry(id, n) = manifest[id][n]
    <3>1. DOMAIN <<>> = {}
      OBVIOUS
    <3>2. QED BY <1>2, <3>1 DEF Rows!Entries, Rows!Entry
  <2>2. QED BY <1>1, <2>1 DEF ManifestInv
<1>3. CASE n \notin DOMAIN Rows!Entries(manifest, id)
  <2>1. Rows!Entry(id, n) = [status |-> "none", root |-> "none", kept |-> FALSE]
    BY <1>3 DEF Rows!Entry
  <2>2. QED BY <2>1 DEF RowEntry, EntryStates
<1>4. QED BY <1>2, <1>3

LEMMA EntryMarked ==
  ASSUME NEW e \in RowEntry, NEW s \in EntryStates
  PROVE  [e EXCEPT !.status = s] \in RowEntry /\ [e EXCEPT !.status = s].root = e.root
<1>1. PICK a \in EntryStates, b \in LocalPaths \cup {"none"}, c \in BOOLEAN :
        e = [status |-> a, root |-> b, kept |-> c]
  BY DEF RowEntry
<1>2. [e EXCEPT !.status = s] = [status |-> s, root |-> b, kept |-> c]
  BY <1>1
<1>3. [status |-> s, root |-> b, kept |-> c] \in RowEntry
  BY DEF RowEntry
<1>4. e.root = b
  BY <1>1
<1>5. QED BY <1>2, <1>3, <1>4

LEMMA EntryUpserted ==
  ASSUME RowsTyped, ManifestInv, UNCHANGED docFolders, NEW id \in Rows!FolderIds, NEW n,
         NEW e \in RowEntry, e.root \in {"none", Rows!Folder(id).path},
         manifest' = Rows!Upserted(id, n, e)
  PROVE  ManifestInv'
<1>1. PICK i \in DOMAIN docFolders :
        /\ docFolders[i].id = id /\ Rows!Folder(id) = docFolders[i]
        /\ \A j \in DOMAIN docFolders : docFolders[j].id = id <=> j = i
  BY FolderOf
<1>2. /\ DOMAIN manifest' = DOMAIN manifest \cup {id}
      /\ \A k \in DOMAIN manifest : k # id => manifest'[k] = manifest[k]
      /\ \A x \in DOMAIN manifest'[id] :
           x = n \/ (id \in DOMAIN manifest /\ x \in DOMAIN manifest[id])
      /\ \A x \in DOMAIN manifest'[id] : manifest'[id][x] = IF x = n THEN e ELSE manifest[id][x]
  <2>1. manifest' = [k \in DOMAIN manifest \cup {id} |->
                       IF k # id THEN manifest[k]
                       ELSE [x \in DOMAIN Rows!Entries(manifest, id) \cup {n} |->
                               IF x = n THEN e ELSE manifest[id][x]]]
    BY DEF Rows!Upserted
  <2>2. manifest'[id] = [x \in DOMAIN Rows!Entries(manifest, id) \cup {n} |->
                           IF x = n THEN e ELSE manifest[id][x]]
    BY <2>1
  <2>3. \A x \in DOMAIN Rows!Entries(manifest, id) : id \in DOMAIN manifest /\ x \in DOMAIN manifest[id]
    <3>1. DOMAIN <<>> = {}
      OBVIOUS
    <3>2. QED BY <3>1 DEF Rows!Entries
  <2>4. DOMAIN manifest' = DOMAIN manifest \cup {id}
    BY <2>1
  <2>5. \A k \in DOMAIN manifest : k # id => manifest'[k] = manifest[k]
    BY <2>1
  <2>6. DOMAIN manifest'[id] = DOMAIN Rows!Entries(manifest, id) \cup {n}
    BY <2>2
  <2>7. \A x \in DOMAIN manifest'[id] : manifest'[id][x] = IF x = n THEN e ELSE manifest[id][x]
    BY <2>2, <2>6
  <2>8. QED BY <2>3, <2>4, <2>5, <2>6, <2>7
<1>3. Rows!FolderIds' = Rows!FolderIds /\ DOMAIN manifest' \subseteq Rows!FolderIds
  BY <1>2 DEF Rows!FolderIds, ManifestInv
<1>4. \A k \in DOMAIN manifest' : \A x \in DOMAIN manifest'[k] : manifest'[k][x] \in RowEntry
  BY <1>2 DEF ManifestInv
<1>5. ASSUME NEW j \in DOMAIN docFolders, docFolders[j].id \in DOMAIN manifest',
             NEW x \in DOMAIN manifest'[docFolders[j].id]
      PROVE  manifest'[docFolders[j].id][x].root \in {"none", docFolders[j].path}
  <2>1. CASE j = i
    <3>1. docFolders[j].id = id
      BY <1>1, <2>1
    <3>2. x \in DOMAIN manifest'[id]
      BY <1>5, <3>1
    <3>3. CASE x = n
      BY <1>1, <1>2, <2>1, <3>1, <3>2, <3>3
    <3>4. CASE x # n
      <4>1. id \in DOMAIN manifest /\ x \in DOMAIN manifest[id] /\ manifest'[id][x] = manifest[id][x]
        BY <1>2, <3>2, <3>4
      <4>2. QED BY <3>1, <4>1 DEF ManifestInv
    <3>5. QED BY <3>3, <3>4
  <2>2. CASE j # i
    <3>1. docFolders[j].id # id
      BY <1>1, <2>2
    <3>2. docFolders[j].id \in DOMAIN manifest /\ manifest'[docFolders[j].id] = manifest[docFolders[j].id]
      BY <1>2, <1>5, <3>1
    <3>3. QED BY <1>5, <3>2 DEF ManifestInv
  <2>3. QED BY <2>1, <2>2
<1>6. QED BY <1>3, <1>4, <1>5 DEF ManifestInv

LEMMA ManifestOnly ==
  ASSUME RowsInv, UNCHANGED <<docFolders, docPoints, working, stopped, given, whole>>, ManifestInv',
         JobInv' /\ CacheInv'
  PROVE  RowsInv'
<1>1. RowsTyped' /\ RowPointsInv'
  BY DEF RowsInv, PlacesInv, RowsTyped, RowPointsInv
<1>2. WorkerInv'
  <2>1. (Rows!Idle)' = Rows!Idle
    BY DEF Rows!Idle
  <2>2. QED BY <2>1 DEF RowsInv, PlacesInv, WorkerInv
<1>3. WishesInv'
  BY DEF RowsInv, WishesInv, ApartInv, PausedInv, WholeInv
<1>4. QED BY <1>1, <1>2, <1>3 DEF RowsInv, PlacesInv

LEMMA EntriesHold ==
  ASSUME RowsInv, NEW n,
         \/ \E id \in Rows!FolderIds : Rows!MarkDirty(id, n) \/ Rows!MarkDeleted(id, n) \/ Rows!ForgetEntry(id, n)
         \/ \E status \in {"backed_up", "failed"} : Rows!Record(n, status)
  PROVE  RowsInv'
<1>1. RowsTyped /\ ManifestInv /\ JobInv /\ CacheInv /\ WorkerInv
  BY DEF RowsInv, PlacesInv
<1>2. /\ UNCHANGED <<docFolders, docPoints, working, stopped, given, whole>>
      /\ UNCHANGED summaryJob /\ Rows!Invalidated
  BY DEF Rows!MarkDirty, Rows!MarkDeleted, Rows!ForgetEntry, Rows!Record
<1>3. JobInv' /\ CacheInv'
  <2>1. JobShape(summaryJob') /\ summaryJob'.revision = summaryJob.revision
    BY <1>1, <1>2 DEF JobInv
  <2>2. QED BY <1>1, <1>2, <2>1, CountDropped
<1>4. CASE \E id \in Rows!FolderIds : Rows!MarkDirty(id, n) \/ Rows!MarkDeleted(id, n)
  <2>1. PICK id \in Rows!FolderIds : Rows!MarkDirty(id, n) \/ Rows!MarkDeleted(id, n)
    BY <1>4
  <2>2. PICK s \in EntryStates : manifest' = Rows!Upserted(id, n, [Rows!Entry(id, n) EXCEPT !.status = s])
    <3>1. CASE Rows!MarkDirty(id, n)
      <4>1. manifest' = Rows!Upserted(id, n, [Rows!Entry(id, n) EXCEPT !.status = "dirty"])
        BY <3>1 DEF Rows!MarkDirty
      <4>2. "dirty" \in EntryStates
        BY DEF EntryStates
      <4>3. QED BY <4>1, <4>2
    <3>2. CASE Rows!MarkDeleted(id, n)
      <4>1. PICK s : s = IF Rows!Entry(id, n).kept THEN "deleted_pending_history" ELSE "deleted"
        OBVIOUS
      <4>2. manifest' = Rows!Upserted(id, n, [Rows!Entry(id, n) EXCEPT !.status = s])
        BY <3>2, <4>1 DEF Rows!MarkDeleted
      <4>3. s \in EntryStates
        BY <4>1 DEF EntryStates
      <4>4. QED BY <4>2, <4>3
    <3>3. QED BY <2>1, <3>1, <3>2
  <2>3. PICK e : e = [Rows!Entry(id, n) EXCEPT !.status = s]
    OBVIOUS
  <2>4. e \in RowEntry /\ e.root \in {"none", Rows!Folder(id).path}
    BY <1>1, <2>3, EntryIs, EntryMarked
  <2>5. manifest' = Rows!Upserted(id, n, e)
    BY <2>2, <2>3
  <2>6. ManifestInv'
    BY <1>1, <1>2, <2>4, <2>5, EntryUpserted
  <2>7. QED BY <1>2, <1>3, <2>6, ManifestOnly
<1>5. CASE \E id \in Rows!FolderIds : Rows!ForgetEntry(id, n)
  <2>1. PICK id \in Rows!FolderIds : Rows!ForgetEntry(id, n)
    BY <1>5
  <2>2. id \in DOMAIN manifest
    <3>1. DOMAIN <<>> = {}
      OBVIOUS
    <3>2. QED BY <2>1, <3>1 DEF Rows!ForgetEntry, Rows!Entries
  <2>3. PICK m : m = [x \in DOMAIN manifest[id] \ {n} |-> manifest[id][x]]
    OBVIOUS
  <2>4. manifest' = [manifest EXCEPT ![id] = m]
    BY <2>1, <2>3 DEF Rows!ForgetEntry
  <2>5. DOMAIN m \subseteq DOMAIN manifest[id] /\ \A x \in DOMAIN m : m[x] = manifest[id][x]
    BY <2>3
  <2>6. /\ DOMAIN manifest' = DOMAIN manifest
        /\ \A k \in DOMAIN manifest : /\ DOMAIN manifest'[k] \subseteq DOMAIN manifest[k]
                                      /\ \A x \in DOMAIN manifest'[k] : manifest'[k][x] = manifest[k][x]
    <3>1. DOMAIN manifest' = DOMAIN manifest
      BY <2>4
    <3>2. manifest'[id] = m /\ \A k \in DOMAIN manifest : k # id => manifest'[k] = manifest[k]
      BY <2>2, <2>4
    <3>3. QED BY <2>5, <3>1, <3>2
  <2>7. Rows!FolderIds' = Rows!FolderIds
    BY <1>2 DEF Rows!FolderIds
  <2>8. ManifestInv'
    BY <1>1, <1>2, <2>6, <2>7 DEF ManifestInv
  <2>9. QED BY <1>2, <1>3, <2>8, ManifestOnly
<1>6. CASE \E status \in {"backed_up", "failed"} : Rows!Record(n, status)
  <2>1. PICK status \in {"backed_up", "failed"} : Rows!Record(n, status)
    BY <1>6
  <2>2. PICK i \in DOMAIN docFolders : docFolders[i].id = working.id /\ docFolders[i].path = working.root
    BY <1>1, <2>1 DEF WorkerInv, Rows!Record
  <2>3. /\ working.id \in Rows!FolderIds /\ Rows!Folder(working.id).path = working.root
        /\ working.root \in LocalPaths
    <3>1. docFolders[i] \in RowType
      BY <1>1, LenProperties DEF RowsTyped
    <3>2. QED BY <1>1, <2>2, <3>1, FolderIs DEF RowType
  <2>4. PICK k : k = (Rows!Entry(working.id, n).kept \/ status = "backed_up")
    OBVIOUS
  <2>5. k \in BOOLEAN
    BY <2>4
  <2>6. PICK e : e = [status |-> status, root |-> working.root, kept |-> k]
    OBVIOUS
  <2>7. manifest' = Rows!Upserted(working.id, n, e)
    BY <2>1, <2>4, <2>6 DEF Rows!Record
  <2>8. e \in RowEntry /\ e.root = working.root
    BY <2>3, <2>5, <2>6 DEF RowEntry, EntryStates
  <2>9. ManifestInv'
    BY <1>1, <1>2, <2>3, <2>7, <2>8, EntryUpserted
  <2>10. QED BY <1>2, <1>3, <2>9, ManifestOnly
<1>7. QED BY <1>4, <1>5, <1>6

-----------------------------------------------------------------------------
(* The steps of a backup, and enabling a row.                              *)

LEMMA Retouched ==
  ASSUME RowsTyped, NEW g, docFolders' = [i \in DOMAIN docFolders |-> g[i]],
         \A i \in DOMAIN docFolders : SameRow(docFolders[i], g[i])
  PROVE  Alike /\ \A i \in DOMAIN docFolders : docFolders'[i] = g[i]
<1>1. \A i \in DOMAIN docFolders : g[i] \in RowType
  BY DEF SameRow
<1>2. docFolders' \in Seq(RowType) /\ DOMAIN docFolders' = DOMAIN docFolders
  BY <1>1, RowsInSeq DEF RowsTyped
<1>3. \A i \in DOMAIN docFolders : docFolders'[i] = g[i]
  OBVIOUS
<1>4. \A i \in DOMAIN docFolders : SameRow(docFolders[i], docFolders'[i])
  BY <1>3
<1>5. Alike
  BY <1>2, <1>4 DEF Alike
<1>6. QED BY <1>3, <1>5

\* One row, or some, get another state.
LEMMA StateChanges ==
  ASSUME RowsTyped, NEW K, NEW s \in RowStates,
         docFolders' = [i \in DOMAIN docFolders |->
           IF i \in K THEN [docFolders[i] EXCEPT !.state = s] ELSE docFolders[i]]
  PROVE  /\ Alike
         /\ \A i \in DOMAIN docFolders :
              /\ docFolders'[i].on = docFolders[i].on
              /\ docFolders'[i].state = IF i \in K THEN s ELSE docFolders[i].state
<1>1. PICK g : g = [i \in DOMAIN docFolders |->
                      IF i \in K THEN [docFolders[i] EXCEPT !.state = s] ELSE docFolders[i]]
  OBVIOUS
<1>2. ASSUME NEW i \in DOMAIN docFolders
      PROVE  /\ SameRow(docFolders[i], g[i]) /\ g[i].on = docFolders[i].on
             /\ g[i].state = IF i \in K THEN s ELSE docFolders[i].state
  <2>1. docFolders[i] \in RowType
    BY LenProperties DEF RowsTyped
  <2>2. PICK f \in RowType : f = docFolders[i]
    BY <2>1
  <2>3. PICK h : h = [f EXCEPT !.state = s]
    OBVIOUS
  <2>4. f.on \in BOOLEAN /\ f.path \in LocalPaths /\ SameRow(f, f)
    BY DEF RowType, SameRow
  <2>5. h = [id |-> f.id, path |-> f.path, remote |-> f.remote, on |-> f.on,
             only |-> f.only, state |-> s]
    BY <2>3, <2>4, RowAlters
  <2>6. SameRow(f, h) /\ h.on = f.on /\ h.state = s
    BY <2>4, <2>5, RowWritten
  <2>7. g[i] = IF i \in K THEN h ELSE f
    BY <1>1, <2>2, <2>3
  <2>8. QED BY <2>2, <2>4, <2>6, <2>7
<1>3. docFolders' = [i \in DOMAIN docFolders |-> g[i]]
  BY <1>1
<1>4. Alike /\ \A i \in DOMAIN docFolders : docFolders'[i] = g[i]
  BY <1>2, <1>3, Retouched
<1>5. QED BY <1>2, <1>4

LEMMA AlikeApart ==
  ASSUME ApartInv, Alike, \A i \in DOMAIN docFolders : docFolders'[i].on => docFolders[i].on
  PROVE  ApartInv'
BY DEF ApartInv, Alike, SameRow

LEMMA AlikeWhole ==
  ASSUME WholeInv, Alike, UNCHANGED whole,
         \A i \in DOMAIN docFolders : docFolders[i].on /\ docFolders[i].only = {} => docFolders'[i].on
  PROVE  WholeInv'
<1>1. ASSUME NEW p \in whole
      PROVE  \E i \in DOMAIN docFolders' :
               docFolders'[i].on /\ docFolders'[i].path = p /\ docFolders'[i].only = {}
  <2>1. PICK i \in DOMAIN docFolders :
          docFolders[i].on /\ docFolders[i].path = p /\ docFolders[i].only = {}
    BY DEF WholeInv
  <2>2. i \in DOMAIN docFolders' /\ docFolders'[i].on
    BY <2>1 DEF Alike
  <2>3. docFolders'[i].path = p /\ docFolders'[i].only = {}
    BY <2>1 DEF Alike, SameRow
  <2>4. QED BY <2>2, <2>3
<1>2. QED BY <1>1 DEF WholeInv

LEMMA BeginHolds ==
  ASSUME RowsInv, NEW id \in Rows!FolderIds, Rows!Begin(id)
  PROVE  RowsInv'
<1>1. /\ RowsTyped /\ ManifestInv /\ RowPointsInv /\ JobInv /\ CacheInv /\ ApartInv /\ PausedInv /\ WholeInv
      /\ PlacesInv
  BY DEF RowsInv, PlacesInv, WishesInv
<1>2. PICK k \in DOMAIN docFolders :
        /\ docFolders[k].id = id /\ Rows!Folder(id) = docFolders[k]
        /\ \A j \in DOMAIN docFolders : docFolders[j].id = id <=> j = k
  BY <1>1, FolderOf
<1>3. /\ working' = [id |-> id, root |-> Rows!Folder(id).path] /\ stopped' = stopped \ {id}
      /\ UNCHANGED <<manifest, docPoints, revision, summaryCache, summaryJob, given, whole>>
      /\ docFolders' = [i \in DOMAIN docFolders |->
           IF docFolders[i].id = id THEN [docFolders[i] EXCEPT !.state = "syncing"] ELSE docFolders[i]]
  BY DEF Rows!Begin, Rows!InState, Rows!Updated, Rows!summaryVars
<1>4. docFolders' = [i \in DOMAIN docFolders |->
           IF i \in {k} THEN [docFolders[i] EXCEPT !.state = "syncing"] ELSE docFolders[i]]
  BY <1>2, <1>3
<1>5. /\ Alike
      /\ \A i \in DOMAIN docFolders :
           /\ docFolders'[i].on = docFolders[i].on
           /\ docFolders'[i].state = IF i \in {k} THEN "syncing" ELSE docFolders[i].state
  <2>1. "syncing" \in RowStates
    BY DEF RowStates
  <2>2. QED BY <1>1, <1>4, <2>1, StateChanges, ZenonT(20)
<1>6. RowsTyped' /\ ManifestInv' /\ RowPointsInv' /\ JobInv' /\ CacheInv'
  BY <1>1, <1>3, <1>5, AlikeKeeps
<1>7. WorkerInv'
  <2>1. working'.id = id /\ working'.root = docFolders[k].path
    BY <1>2, <1>3
  <2>2. k \in DOMAIN docFolders' /\ docFolders'[k].id = id /\ docFolders'[k].path = docFolders[k].path
    BY <1>2, <1>5 DEF Alike, SameRow
  <2>3. QED BY <2>1, <2>2 DEF WorkerInv
<1>8. ApartInv' /\ WholeInv'
  BY <1>1, <1>3, <1>5, AlikeApart, AlikeWhole
<1>9. PausedInv'
  BY <1>1, <1>2, <1>3, <1>5 DEF PausedInv, Alike, SameRow
<1>10. QED BY <1>6, <1>7, <1>8, <1>9 DEF RowsInv, PlacesInv, WishesInv

LEMMA PauseHolds ==
  ASSUME RowsInv, RecordHabits = {}, Rows!PauseRun
  PROVE  RowsInv'
<1>1. /\ RowsTyped /\ ManifestInv /\ RowPointsInv /\ JobInv /\ CacheInv /\ ApartInv /\ PausedInv /\ WholeInv
      /\ PlacesInv
  BY DEF RowsInv, PlacesInv, WishesInv
<1>2. /\ working' = Rows!Idle /\ stopped' = stopped \cup {working.id}
      /\ UNCHANGED <<manifest, docPoints, revision, summaryCache, summaryJob, given, whole>>
      /\ \A i \in DOMAIN docFolders :
           docFolders[i].on /\ docFolders[i].state = "syncing" => docFolders[i].id = working.id
      /\ docFolders' = [i \in DOMAIN docFolders |->
           IF docFolders[i].on /\ docFolders[i].state = "syncing"
           THEN [docFolders[i] EXCEPT !.state = "paused"] ELSE docFolders[i]]
  BY DEF Rows!PauseRun, Rows!summaryVars
<1>3. PICK K : K = {i \in DOMAIN docFolders : docFolders[i].on /\ docFolders[i].state = "syncing"}
  OBVIOUS
<1>4. docFolders' = [i \in DOMAIN docFolders |->
           IF i \in K THEN [docFolders[i] EXCEPT !.state = "paused"] ELSE docFolders[i]]
  BY <1>2, <1>3
<1>5. /\ Alike
      /\ \A i \in DOMAIN docFolders :
           /\ docFolders'[i].on = docFolders[i].on
           /\ docFolders'[i].state = IF i \in K THEN "paused" ELSE docFolders[i].state
  <2>1. "paused" \in RowStates
    BY DEF RowStates
  <2>2. QED BY <1>1, <1>4, <2>1, StateChanges, ZenonT(20)
<1>6. RowsTyped' /\ ManifestInv' /\ RowPointsInv' /\ JobInv' /\ CacheInv' /\ WorkerInv'
  BY <1>1, <1>2, <1>5, AlikeKeeps
<1>7. ApartInv' /\ WholeInv'
  BY <1>1, <1>2, <1>5, AlikeApart, AlikeWhole
<1>8. PausedInv'
  BY <1>1, <1>2, <1>3, <1>5 DEF PausedInv, Alike, SameRow
<1>9. QED BY <1>6, <1>7, <1>8 DEF RowsInv, PlacesInv, WishesInv

\* One row is enabled or disabled.
LEMMA RowSwitched ==
  ASSUME RowsTyped, NEW k \in DOMAIN docFolders, NEW c \in BOOLEAN, NEW t \in RowStates, NEW h,
         h = [id |-> docFolders[k].id, path |-> docFolders[k].path, remote |-> docFolders[k].remote,
              on |-> c, only |-> docFolders[k].only, state |-> t],
         docFolders' = [i \in DOMAIN docFolders |-> IF i = k THEN h ELSE docFolders[i]]
  PROVE  /\ Alike
         /\ \A i \in DOMAIN docFolders :
              /\ docFolders'[i].on = IF i = k THEN c ELSE docFolders[i].on
              /\ docFolders'[i].state = IF i = k THEN t ELSE docFolders[i].state
<1>1. PICK g : g = [i \in DOMAIN docFolders |-> IF i = k THEN h ELSE docFolders[i]]
  OBVIOUS
<1>2. docFolders[k] \in RowType
  BY LenProperties DEF RowsTyped
<1>3. SameRow(docFolders[k], h) /\ h.on = c /\ h.state = t
  BY <1>2, RowWritten
<1>4. ASSUME NEW i \in DOMAIN docFolders PROVE SameRow(docFolders[i], g[i])
  <2>1. docFolders[i] \in RowType
    BY LenProperties DEF RowsTyped
  <2>2. QED BY <1>1, <1>3, <2>1 DEF SameRow
<1>5. docFolders' = [i \in DOMAIN docFolders |-> g[i]]
  BY <1>1
<1>6. Alike /\ \A i \in DOMAIN docFolders : docFolders'[i] = g[i]
  BY <1>4, <1>5, Retouched
<1>7. \A i \in DOMAIN docFolders : docFolders'[i] = IF i = k THEN h ELSE docFolders[i]
  BY <1>1, <1>6
<1>8. QED BY <1>3, <1>6, <1>7

LEMMA SourceMissingHolds ==
  ASSUME RowsInv, Rows!SourceMissing
  PROVE  RowsInv'
<1>1. /\ RowsTyped /\ ManifestInv /\ RowPointsInv /\ JobInv /\ CacheInv /\ ApartInv /\ PausedInv /\ WholeInv
      /\ PlacesInv
  BY DEF RowsInv, PlacesInv, WishesInv
<1>2. /\ working.id \in Rows!FolderIds /\ Rows!Folder(working.id).only # {}
      /\ working' = Rows!Idle
      /\ UNCHANGED <<manifest, docPoints, revision, summaryCache, summaryJob, stopped, given, whole>>
      /\ docFolders' = [i \in DOMAIN docFolders |->
           IF docFolders[i].id = working.id THEN [docFolders[i] EXCEPT !.on = FALSE, !.state = "idle"]
           ELSE docFolders[i]]
  BY DEF Rows!SourceMissing, Rows!Updated, Rows!summaryVars
<1>3. PICK k \in DOMAIN docFolders :
        /\ docFolders[k].id = working.id /\ Rows!Folder(working.id) = docFolders[k]
        /\ docFolders[k] \in RowType
        /\ \A j \in DOMAIN docFolders : docFolders[j].id = working.id <=> j = k
  BY <1>1, <1>2, FolderOf
<1>4. PICK f \in RowType : f = docFolders[k]
  BY <1>3
<1>5. PICK c \in BOOLEAN, t \in RowStates : c = FALSE /\ t = "idle"
  BY DEF RowStates
<1>6. PICK h : /\ h = [f EXCEPT !.on = c, !.state = t]
               /\ h = [id |-> f.id, path |-> f.path, remote |-> f.remote, on |-> c, only |-> f.only, state |-> t]
  <2>1. f.path \in LocalPaths
    BY DEF RowType
  <2>2. PICK h : h = [f EXCEPT !.on = c, !.state = t]
    OBVIOUS
  <2>3. h = [id |-> f.id, path |-> f.path, remote |-> f.remote, on |-> c, only |-> f.only, state |-> t]
    BY <1>4, <1>5, <2>1, <2>2, RowAlters
  <2>4. QED BY <2>2, <2>3
<1>7. docFolders' = [i \in DOMAIN docFolders |-> IF i = k THEN h ELSE docFolders[i]]
  <2>1. ASSUME NEW i \in DOMAIN docFolders
        PROVE  (IF docFolders[i].id = working.id
                THEN [docFolders[i] EXCEPT !.on = FALSE, !.state = "idle"] ELSE docFolders[i])
                 = IF i = k THEN h ELSE docFolders[i]
    BY <1>3, <1>4, <1>5, <1>6
  <2>2. QED BY <1>2, <2>1
<1>8. /\ Alike
      /\ \A i \in DOMAIN docFolders :
           /\ docFolders'[i].on = IF i = k THEN c ELSE docFolders[i].on
           /\ docFolders'[i].state = IF i = k THEN t ELSE docFolders[i].state
  BY <1>1, <1>4, <1>6, <1>7, RowSwitched
<1>9. RowsTyped' /\ ManifestInv' /\ RowPointsInv' /\ JobInv' /\ CacheInv' /\ WorkerInv'
  BY <1>1, <1>2, <1>8, AlikeKeeps
<1>10. ApartInv' /\ WholeInv'
  BY <1>1, <1>2, <1>3, <1>5, <1>8, AlikeApart, AlikeWhole
<1>11. PausedInv'
  <2>1. \A i \in DOMAIN docFolders :
          docFolders'[i].state = "paused" => docFolders[i].state = "paused"
    BY <1>5, <1>8
  <2>2. /\ DOMAIN docFolders' = DOMAIN docFolders
        /\ \A i \in DOMAIN docFolders : docFolders'[i].id = docFolders[i].id
    BY <1>8 DEF Alike, SameRow
  <2>3. stopped' = stopped
    BY <1>2
  <2>4. ASSUME NEW i \in DOMAIN docFolders', docFolders'[i].state = "paused"
        PROVE  docFolders'[i].id \in stopped'
    <3>1. i \in DOMAIN docFolders /\ docFolders[i].state = "paused"
      BY <2>1, <2>2, <2>4
    <3>2. docFolders[i].id \in stopped
      BY <1>1, <3>1 DEF PausedInv
    <3>3. QED BY <2>2, <2>3, <3>1, <3>2
  <2>5. QED BY <2>4 DEF PausedInv
<1>12. QED BY <1>9, <1>10, <1>11 DEF RowsInv, PlacesInv, WishesInv

LEMMA ToggleHolds ==
  ASSUME RowsInv, RecordHabits = {}, NEW id \in Rows!FolderIds, Rows!Toggle(id)
  PROVE  RowsInv'
<1>1. /\ RowsTyped /\ ManifestInv /\ RowPointsInv /\ JobInv /\ CacheInv /\ ApartInv /\ PausedInv /\ WholeInv
      /\ PlacesInv
  BY DEF RowsInv, PlacesInv, WishesInv
<1>2. PICK k \in DOMAIN docFolders :
        /\ docFolders[k].id = id /\ Rows!Folder(id) = docFolders[k] /\ docFolders[k] \in RowType
        /\ \A j \in DOMAIN docFolders : docFolders[j].id = id <=> j = k
  BY <1>1, FolderOf
<1>3. PICK f \in RowType : f = docFolders[k]
  BY <1>2
<1>4. /\ f.on \in BOOLEAN /\ f.path \in LocalPaths /\ f.state \in RowStates
      /\ f.only \subseteq RowNames
  BY DEF RowType
<1>5. /\ UNCHANGED <<manifest, docPoints, revision, summaryCache, summaryJob, working, stopped, given>>
      /\ ~f.on => ~Rows!Covered(f.path, f.only)
      /\ whole' = IF f.on THEN whole \ Rows!Given(id) ELSE whole \cup Rows!Given(id)
      /\ docFolders' = [i \in DOMAIN docFolders |->
           IF docFolders[i].id = id THEN [docFolders[i] EXCEPT !.on = ~@] ELSE docFolders[i]]
  BY <1>2, <1>3 DEF Rows!Toggle, Rows!Updated, Rows!summaryVars
<1>6. PICK c \in BOOLEAN : c = ~f.on
  OBVIOUS
<1>7. PICK t \in RowStates : t = f.state
  BY <1>4
<1>8. PICK h : h = [f EXCEPT !.on = c]
  OBVIOUS
<1>9. h = [id |-> f.id, path |-> f.path, remote |-> f.remote, on |-> c, only |-> f.only, state |-> t]
  BY <1>4, <1>7, <1>8, RowAlters
<1>10. docFolders' = [i \in DOMAIN docFolders |-> IF i = k THEN h ELSE docFolders[i]]
  <2>1. ASSUME NEW i \in DOMAIN docFolders
        PROVE  (IF docFolders[i].id = id THEN [docFolders[i] EXCEPT !.on = ~@] ELSE docFolders[i])
                 = IF i = k THEN h ELSE docFolders[i]
    BY <1>2, <1>3, <1>6, <1>8
  <2>2. QED BY <1>5, <2>1
<1>11. /\ Alike
       /\ \A i \in DOMAIN docFolders :
            /\ docFolders'[i].on = IF i = k THEN c ELSE docFolders[i].on
            /\ docFolders'[i].state = IF i = k THEN t ELSE docFolders[i].state
  BY <1>1, <1>3, <1>9, <1>10, RowSwitched
<1>12. RowsTyped' /\ ManifestInv' /\ RowPointsInv' /\ JobInv' /\ CacheInv' /\ WorkerInv'
  BY <1>1, <1>5, <1>11, AlikeKeeps
<1>13. PausedInv'
  BY <1>1, <1>3, <1>5, <1>7, <1>11 DEF PausedInv, Alike, SameRow
<1>14. CASE f.on
  <2>1. ApartInv'
    BY <1>1, <1>3, <1>6, <1>11, <1>14, AlikeApart
  <2>2. ASSUME NEW p \in whole'
        PROVE  \E i \in DOMAIN docFolders' :
                 docFolders'[i].on /\ docFolders'[i].path = p /\ docFolders'[i].only = {}
    <3>1. p \in whole /\ p \notin Rows!Given(id)
      BY <1>5, <1>14, <2>2
    <3>2. PICK i \in DOMAIN docFolders :
            docFolders[i].on /\ docFolders[i].path = p /\ docFolders[i].only = {}
      BY <1>1, <3>1 DEF WholeInv
    <3>3. i # k
      BY <1>2, <3>1, <3>2 DEF Rows!Given
    <3>4. i \in DOMAIN docFolders' /\ docFolders'[i].on
      BY <1>11, <3>2, <3>3 DEF Alike
    <3>5. docFolders'[i].path = p /\ docFolders'[i].only = {}
      BY <1>11, <3>2 DEF Alike, SameRow
    <3>6. QED BY <3>4, <3>5
  <2>3. WholeInv'
    BY <2>2 DEF WholeInv
  <2>4. QED BY <1>12, <1>13, <2>1, <2>3 DEF RowsInv, PlacesInv, WishesInv
<1>15. CASE ~f.on
  <2>1. \A i \in DOMAIN docFolders : docFolders[i].path = f.path /\ docFolders[i].on =>
          f.only # {} /\ docFolders[i].only # {} /\ ~(f.only \subseteq docFolders[i].only)
    BY <1>5, <1>15 DEF Rows!Covered
  <2>2. \A i \in DOMAIN docFolders : docFolders[i].path = f.path /\ docFolders[i].on =>
          f.only # {} /\ docFolders[i].only # {} /\ f.only \cap docFolders[i].only = {}
    BY <1>1, <1>2, <1>3, <2>1 DEF RowsTyped
  <2>3. ApartInv'
    <3>1. /\ DOMAIN docFolders' = DOMAIN docFolders
          /\ \A i \in DOMAIN docFolders : docFolders'[i].path = docFolders[i].path
                                          /\ docFolders'[i].only = docFolders[i].only
      BY <1>11 DEF Alike, SameRow
    <3>2. ASSUME NEW i \in DOMAIN docFolders, NEW j \in DOMAIN docFolders, i # j,
                 docFolders'[i].on, docFolders'[j].on, docFolders[i].path = docFolders[j].path
          PROVE  /\ docFolders[i].only # {} /\ docFolders[j].only # {}
                 /\ docFolders[i].only \cap docFolders[j].only = {}
      <4>1. CASE i # k /\ j # k
        BY <1>1, <1>11, <3>2, <4>1 DEF ApartInv
      <4>2. CASE i = k
        BY <1>3, <1>11, <2>2, <3>2, <4>2
      <4>3. CASE j = k
        BY <1>3, <1>11, <2>2, <3>2, <4>3
      <4>4. QED BY <4>1, <4>2, <4>3
    <3>3. QED BY <3>1, <3>2 DEF ApartInv
  <2>4. ASSUME NEW p \in whole'
        PROVE  \E i \in DOMAIN docFolders' :
                 docFolders'[i].on /\ docFolders'[i].path = p /\ docFolders'[i].only = {}
    <3>1. PICK i \in DOMAIN docFolders :
            /\ docFolders[i].path = p /\ docFolders[i].only = {}
            /\ docFolders[i].on \/ i = k
      <4>1. CASE p \in whole
        BY <1>1, <4>1 DEF WholeInv
      <4>2. CASE p \in Rows!Given(id)
        BY <1>2, <4>2 DEF Rows!Given
      <4>3. QED BY <1>5, <1>15, <2>4, <4>1, <4>2
    <3>2. i \in DOMAIN docFolders' /\ docFolders'[i].on
      BY <1>6, <1>11, <1>15, <3>1 DEF Alike
    <3>3. docFolders'[i].path = p /\ docFolders'[i].only = {}
      BY <1>11, <3>1 DEF Alike, SameRow
    <3>4. QED BY <3>2, <3>3
  <2>5. WholeInv'
    BY <2>4 DEF WholeInv
  <2>6. QED BY <1>12, <1>13, <2>3, <2>5 DEF RowsInv, PlacesInv, WishesInv
<1>16. QED BY <1>14, <1>15

\* A point is behind the others, or behind all but the oldest.
LEMMA KeptMembers ==
  ASSUME NEW s \in Seq(RowPoint), NEW x \in RowPoint, NEW r, r = Rows!Kept(Append(s, x))
  PROVE  r \in Seq(RowPoint) /\ \A k \in DOMAIN r : r[k] = x \/ \E j \in DOMAIN s : r[k] = s[j]
<1>1. PICK q : q = Append(s, x)
  OBVIOUS
<1>2. /\ q \in Seq(RowPoint) /\ q # <<>>
      /\ \A k \in DOMAIN q : q[k] = x \/ \E j \in DOMAIN s : q[k] = s[j]
  <2>1. q \in Seq(RowPoint) /\ Len(q) = Len(s) + 1 /\ Len(s) \in Nat /\ q # <<>>
    BY <1>1, LenProperties
  <2>2. DOMAIN q = 1 .. Len(q) /\ DOMAIN s = 1 .. Len(s)
    BY <2>1, LenProperties
  <2>3. \A k \in 1 .. Len(s) : q[k] = s[k]
    BY <1>1, <2>1
  <2>4. q[Len(s) + 1] = x
    BY <1>1, <2>1
  <2>5. QED BY <2>1, <2>2, <2>3, <2>4
<1>3. CASE r = q
  BY <1>2, <1>3
<1>4. CASE r = Tail(q)
  <2>1. /\ r \in Seq(RowPoint) /\ Len(r) = Len(q) - 1
        /\ \A i \in 1 .. Len(r) : r[i] = q[i + 1]
    BY <1>2, <1>4, HeadTailProperties
  <2>2. DOMAIN r = 1 .. Len(r) /\ DOMAIN q = 1 .. Len(q) /\ Len(q) \in Nat
    BY <1>2, <2>1, LenProperties
  <2>3. \A k \in DOMAIN r : k + 1 \in DOMAIN q /\ r[k] = q[k + 1]
    BY <2>1, <2>2
  <2>4. QED BY <1>2, <2>1, <2>3
<1>5. QED BY <1>1, <1>3, <1>4 DEF Rows!Kept

LEMMA RunEndHolds ==
  ASSUME RowsInv, NEW ok \in BOOLEAN, Rows!RunEnds(ok)
  PROVE  RowsInv'
<1>1. /\ RowsTyped /\ ManifestInv /\ RowPointsInv /\ JobInv /\ CacheInv /\ ApartInv /\ PausedInv /\ WholeInv
      /\ PlacesInv /\ WorkerInv
  BY DEF RowsInv, PlacesInv, WishesInv
<1>2. /\ working # Rows!Idle /\ working' = Rows!Idle
      /\ UNCHANGED <<manifest, revision, summaryCache, summaryJob, stopped, given, whole>>
      /\ docFolders' = [i \in DOMAIN docFolders |->
           IF docFolders[i].id = working.id THEN [docFolders[i] EXCEPT !.state = "syncing"]
           ELSE docFolders[i]]
  BY DEF Rows!RunEnds, Rows!InState, Rows!Updated, Rows!summaryVars
<1>3. PICK k \in DOMAIN docFolders : docFolders[k].id = working.id /\ docFolders[k].path = working.root
  BY <1>1, <1>2 DEF WorkerInv
<1>4. /\ working.id \in Rows!FolderIds /\ Rows!Folder(working.id) = docFolders[k]
      /\ docFolders[k] \in RowType /\ working.id \in 1 .. given
      /\ \A j \in DOMAIN docFolders : docFolders[j].id = working.id <=> j = k
  <2>1. Rows!Folder(docFolders[k].id) = docFolders[k] /\ docFolders[k].id \in Rows!FolderIds
    BY <1>1, FolderIs
  <2>2. docFolders[k] \in RowType
    BY <1>1, LenProperties DEF RowsTyped
  <2>3. QED BY <1>1, <1>3, <2>1, <2>2 DEF RowsTyped
<1>5. docFolders' = [i \in DOMAIN docFolders |->
           IF i \in {k} THEN [docFolders[i] EXCEPT !.state = "syncing"] ELSE docFolders[i]]
  BY <1>2, <1>4
<1>6. /\ Alike
      /\ \A i \in DOMAIN docFolders :
           /\ docFolders'[i].on = docFolders[i].on
           /\ docFolders'[i].state = IF i \in {k} THEN "syncing" ELSE docFolders[i].state
  <2>1. "syncing" \in RowStates
    BY DEF RowStates
  <2>2. QED BY <1>1, <1>5, <2>1, StateChanges, ZenonT(20)
<1>7. RowsTyped' /\ ManifestInv' /\ JobInv' /\ CacheInv' /\ WorkerInv'
  BY <1>1, <1>2, <1>6, AlikeKeeps
<1>8. ApartInv' /\ WholeInv'
  BY <1>1, <1>2, <1>6, AlikeApart, AlikeWhole
<1>9. PausedInv'
  BY <1>1, <1>2, <1>6 DEF PausedInv, Alike, SameRow
<1>10. RowPointsInv'
  <2>1. CASE UNCHANGED docPoints
    BY <1>1, <1>2, <1>6, <2>1, AlikeKeeps
  <2>2. CASE ok
    <3>1. PICK x : x = [folder |-> working.id, path |-> docFolders[k].path]
      OBVIOUS
    <3>2. docPoints' = Rows!Kept(Append(docPoints, x))
      BY <1>4, <2>2, <3>1 DEF Rows!RunEnds
    <3>3. x \in RowPoint /\ x.folder = working.id /\ x.path = docFolders[k].path
      <4>1. docFolders[k].path \in LocalPaths /\ working.id \in Nat
        BY <1>3, <1>4 DEF RowType
      <4>2. QED BY <3>1, <4>1 DEF RowPoint
    <3>4. docPoints \in Seq(RowPoint)
      BY <1>1 DEF RowPointsInv
    <3>5. PICK r : r = docPoints'
      OBVIOUS
    <3>6. r \in Seq(RowPoint) /\ \A m \in DOMAIN r : r[m] = x \/ \E j \in DOMAIN docPoints : r[m] = docPoints[j]
      BY <3>2, <3>3, <3>4, <3>5, KeptMembers
    <3>7. ASSUME NEW m \in DOMAIN r
          PROVE  /\ r[m].folder \in 1 .. given
                 /\ \A i \in DOMAIN docFolders :
                      docFolders[i].id = r[m].folder => docFolders[i].path = r[m].path
      <4>1. CASE r[m] = x
        BY <1>4, <3>3, <4>1
      <4>2. CASE \E j \in DOMAIN docPoints : r[m] = docPoints[j]
        BY <1>1, <4>2 DEF RowPointsInv
      <4>3. QED BY <3>6, <4>1, <4>2
    <3>8. /\ DOMAIN docFolders' = DOMAIN docFolders
          /\ \A i \in DOMAIN docFolders : docFolders'[i].id = docFolders[i].id
                                          /\ docFolders'[i].path = docFolders[i].path
      BY <1>6 DEF Alike, SameRow
    <3>9. QED BY <1>2, <3>5, <3>6, <3>7, <3>8 DEF RowPointsInv
  <2>3. QED BY <2>1, <2>2 DEF Rows!RunEnds
<1>11. QED BY <1>7, <1>8, <1>9, <1>10 DEF RowsInv, PlacesInv, WishesInv

-----------------------------------------------------------------------------
(* Rows that come, go and move.                                            *)

LEMMA JobKept ==
  ASSUME JobInv, CacheInv, Rows!Invalidated, NEW id,
         Rows!JobMeets(id) \/ Rows!JobIsLeft \/ UNCHANGED summaryJob
  PROVE  JobInv' /\ CacheInv'
<1>1. JobShape(summaryJob)
  BY DEF JobInv
<1>2. PICK j, t, x, y :
        /\ j = summaryJob /\ t = Append(summaryJob.todo, id)
        /\ x = [j EXCEPT !.todo = t] /\ y = [j EXCEPT !.live = FALSE]
  OBVIOUS
<1>3. JobShape(x) /\ x.revision = j.revision
  BY <1>1, <1>2, JobAlters
<1>4. JobShape(y) /\ y.revision = j.revision
  BY <1>1, <1>2, JobAlters
<1>5. summaryJob' \in {j, x, y}
  <2>1. CASE Rows!JobMeets(id)
    BY <1>2, <2>1 DEF Rows!JobMeets
  <2>2. CASE Rows!JobIsLeft
    BY <1>2, <2>2 DEF Rows!JobIsLeft
  <2>3. CASE UNCHANGED summaryJob
    BY <1>2, <2>3
  <2>4. QED BY <2>1, <2>2, <2>3
<1>6. JobShape(summaryJob') /\ summaryJob'.revision = summaryJob.revision
  BY <1>1, <1>2, <1>3, <1>4, <1>5
<1>7. QED BY <1>6, CountDropped

LEMMA RowAppended ==
  ASSUME docFolders \in Seq(RowType), NEW x \in RowType, docFolders' = Append(docFolders, x)
  PROVE  /\ docFolders' \in Seq(RowType)
         /\ \E n \in Nat :
              /\ DOMAIN docFolders = 1 .. n /\ DOMAIN docFolders' = 1 .. (n + 1)
              /\ docFolders'[n + 1] = x
              /\ \A i \in 1 .. n : docFolders'[i] = docFolders[i]
<1>0. PICK q : q = docFolders'
  OBVIOUS
<1>1. PICK n \in Nat : q = docFolders' /\ n = Len(docFolders) /\ DOMAIN docFolders = 1 .. n
  BY <1>0, LenProperties
<1>2. q \in Seq(RowType) /\ Len(q) = n + 1
  BY <1>1
<1>3. DOMAIN q = 1 .. (n + 1)
  BY <1>2, LenProperties
<1>4. q[n + 1] = x /\ \A i \in 1 .. n : q[i] = docFolders[i]
  BY <1>1
<1>5. QED BY <1>1, <1>2, <1>3, <1>4

LEMMA AddRowHolds ==
  ASSUME RowsInv, NEW p \in LocalPaths, NEW only \in {{}} \cup {{n} : n \in RowNames},
         Rows!AddRow(p, only)
  PROVE  RowsInv'
<1>1. /\ RowsTyped /\ ManifestInv /\ RowPointsInv /\ JobInv /\ CacheInv /\ ApartInv /\ PausedInv /\ WholeInv
      /\ PlacesInv /\ WorkerInv
  BY DEF RowsInv, PlacesInv, WishesInv
<1>2. PICK s : s = IF only = {} THEN "syncing" ELSE "none"
  OBVIOUS
<1>3. PICK x : x = [id |-> given + 1, path |-> p, remote |-> p, on |-> TRUE, only |-> only, state |-> s]
  OBVIOUS
<1>4. /\ given' = given + 1 /\ docFolders' = Append(docFolders, x)
      /\ UNCHANGED <<manifest, docPoints, working, stopped>>
      /\ whole' = IF only = {} THEN whole \cup {p} ELSE whole
      /\ Rows!Invalidated /\ Rows!JobMeets(given + 1) /\ ~Rows!Covered(p, only)
  BY <1>2, <1>3 DEF Rows!AddRow
<1>5. s \in RowStates /\ s # "paused"
  BY <1>2 DEF RowStates
<1>6. /\ x \in RowType /\ x.id = given + 1 /\ x.path = p /\ x.on = TRUE /\ x.only = only /\ x.state = s
  <2>1. given + 1 \in Nat /\ only \in SUBSET RowNames
    BY <1>1 DEF RowsTyped
  <2>2. x \in RowType
    BY <1>3, <1>5, <2>1 DEF RowType
  <2>3. QED BY <1>3, <2>2
<1>7. PICK n \in Nat :
        /\ DOMAIN docFolders = 1 .. n /\ DOMAIN docFolders' = 1 .. (n + 1)
        /\ docFolders'[n + 1] = x
        /\ \A i \in 1 .. n : docFolders'[i] = docFolders[i]
  BY <1>1, <1>4, <1>6, RowAppended DEF RowsTyped
<1>8. \A i \in DOMAIN docFolders : docFolders[i].id \in 1 .. given /\ docFolders[i].id # x.id
  BY <1>1, <1>6 DEF RowsTyped
<1>9. \A i \in DOMAIN docFolders' : i = n + 1 \/ (i \in DOMAIN docFolders /\ i # n + 1)
  BY <1>7
<1>10. n + 1 \in DOMAIN docFolders' /\ n + 1 \notin DOMAIN docFolders
       /\ \A i \in DOMAIN docFolders : i \in DOMAIN docFolders' /\ docFolders'[i] = docFolders[i]
  BY <1>7
<1>11. RowsTyped'
  <2>1. docFolders' \in Seq(RowType)
    BY <1>1, <1>4, <1>6, RowAppended DEF RowsTyped
  <2>2. given' \in Nat /\ \A i \in DOMAIN docFolders' : docFolders'[i].id \in 1 .. given'
    BY <1>1, <1>4, <1>6, <1>7, <1>9, <1>10 DEF RowsTyped
  <2>3. \A i, j \in DOMAIN docFolders' : docFolders'[i].id = docFolders'[j].id => i = j
    BY <1>1, <1>7, <1>8, <1>9, <1>10 DEF RowsTyped
  <2>4. \A i \in DOMAIN docFolders' :
          docFolders'[i].only = {} \/ \E m \in RowNames : docFolders'[i].only = {m}
    BY <1>1, <1>6, <1>7, <1>9, <1>10 DEF RowsTyped
  <2>5. QED BY <2>1, <2>2, <2>3, <2>4 DEF RowsTyped
<1>12. ManifestInv'
  <2>1. \A id \in DOMAIN manifest : id # x.id
    BY <1>1, <1>8 DEF ManifestInv, Rows!FolderIds
  <2>2. DOMAIN manifest \subseteq Rows!FolderIds'
    BY <1>1, <1>10 DEF ManifestInv, Rows!FolderIds
  <2>3. ASSUME NEW i \in DOMAIN docFolders', docFolders'[i].id \in DOMAIN manifest
        PROVE  i \in DOMAIN docFolders /\ docFolders'[i] = docFolders[i]
    BY <1>7, <1>9, <1>10, <2>1, <2>3
  <2>4. QED BY <1>1, <1>4, <2>2, <2>3 DEF ManifestInv
<1>13. RowPointsInv'
  <2>1. ASSUME NEW k \in DOMAIN docPoints
        PROVE  /\ docPoints[k].folder \in 1 .. given'
               /\ \A i \in DOMAIN docFolders' :
                    docFolders'[i].id = docPoints[k].folder => docFolders'[i].path = docPoints[k].path
    <3>1. docPoints[k].folder \in 1 .. given
      BY <1>1 DEF RowPointsInv
    <3>2. docPoints[k].folder \in 1 .. given' /\ docPoints[k].folder # x.id
      BY <1>1, <1>4, <1>6, <3>1 DEF RowsTyped
    <3>3. QED BY <1>1, <1>7, <1>9, <1>10, <3>2 DEF RowPointsInv
  <2>2. QED BY <1>1, <1>4, <2>1 DEF RowPointsInv
<1>14. WorkerInv'
  <2>1. (Rows!Idle)' = Rows!Idle
    BY DEF Rows!Idle
  <2>2. QED BY <1>1, <1>4, <1>10, <2>1 DEF WorkerInv
<1>15. \A i \in DOMAIN docFolders : docFolders[i].path = p /\ docFolders[i].on =>
          only # {} /\ docFolders[i].only # {} /\ only \cap docFolders[i].only = {}
  <2>1. \A i \in DOMAIN docFolders : docFolders[i].path = p /\ docFolders[i].on =>
          only # {} /\ docFolders[i].only # {} /\ ~(only \subseteq docFolders[i].only)
    BY <1>4 DEF Rows!Covered
  <2>2. only = {} \/ \E m \in RowNames : only = {m}
    OBVIOUS
  <2>3. QED BY <2>1, <2>2
<1>16. ApartInv'
  <2>1. ASSUME NEW i \in DOMAIN docFolders', NEW j \in DOMAIN docFolders', i # j,
               docFolders'[i].on, docFolders'[j].on, docFolders'[i].path = docFolders'[j].path
        PROVE  /\ docFolders'[i].only # {} /\ docFolders'[j].only # {}
               /\ docFolders'[i].only \cap docFolders'[j].only = {}
    <3>1. CASE i \in DOMAIN docFolders /\ j \in DOMAIN docFolders
      BY <1>1, <1>10, <2>1, <3>1 DEF ApartInv
    <3>2. CASE i = n + 1
      <4>1. j \in DOMAIN docFolders /\ docFolders'[j] = docFolders[j]
        BY <1>9, <1>10, <2>1, <3>2
      <4>2. QED BY <1>6, <1>7, <1>15, <2>1, <3>2, <4>1
    <3>3. CASE j = n + 1
      <4>1. i \in DOMAIN docFolders /\ docFolders'[i] = docFolders[i]
        BY <1>9, <1>10, <2>1, <3>3
      <4>2. QED BY <1>6, <1>7, <1>15, <2>1, <3>3, <4>1
    <3>4. QED BY <1>9, <2>1, <3>1, <3>2, <3>3
  <2>2. QED BY <2>1 DEF ApartInv
<1>17. PausedInv'
  BY <1>1, <1>4, <1>5, <1>6, <1>7, <1>9, <1>10 DEF PausedInv
<1>18. WholeInv'
  <2>1. ASSUME NEW q \in whole'
        PROVE  \E i \in DOMAIN docFolders' :
                 docFolders'[i].on /\ docFolders'[i].path = q /\ docFolders'[i].only = {}
    <3>1. CASE q \in whole
      <4>1. PICK i \in DOMAIN docFolders :
              docFolders[i].on /\ docFolders[i].path = q /\ docFolders[i].only = {}
        BY <1>1, <3>1 DEF WholeInv
      <4>2. i \in DOMAIN docFolders' /\ docFolders'[i] = docFolders[i]
        BY <1>10
      <4>3. QED BY <4>1, <4>2
    <3>2. CASE q = p /\ only = {}
      BY <1>6, <1>7, <1>10, <3>2
    <3>3. QED BY <1>4, <2>1, <3>1, <3>2
  <2>2. QED BY <2>1 DEF WholeInv
<1>19. JobInv' /\ CacheInv'
  BY <1>1, <1>4, JobKept
<1>20. QED BY <1>11, <1>12, <1>13, <1>14, <1>16, <1>17, <1>18, <1>19 DEF RowsInv, PlacesInv, WishesInv

LEMMA FilteredIs ==
  ASSUME NEW S, NEW s \in Seq(S), NEW keep \in SUBSET DOMAIN s, NEW t \in Rows!Filtered(s, keep)
  PROVE  /\ t \in Seq(S)
         /\ \E o \in [DOMAIN t -> keep] :
              /\ \A i, j \in DOMAIN t : o[i] = o[j] => i = j
              /\ \A k \in keep : \E i \in DOMAIN t : o[i] = k
              /\ \A i \in DOMAIN t : t[i] = s[o[i]]
<1>1. PICK n : n = Rows!Cardinality(keep)
  OBVIOUS
<1>2. n \in Nat
  <2>1. DOMAIN s = 1 .. Len(s) /\ Len(s) \in Nat
    BY LenProperties
  <2>2. IsFiniteSet(1 .. Len(s))
    BY <2>1, FS_Interval
  <2>3. IsFiniteSet(keep)
    BY <2>1, <2>2, FS_Subset
  <2>4. Cardinality(keep) \in Nat
    BY <2>3, FS_CardinalityType
  <2>5. n = Cardinality(keep)
    BY <1>1 DEF Rows!Cardinality, Cardinality
  <2>6. QED BY <2>4, <2>5
<1>3. PICK o \in [1 .. n -> keep] :
        /\ \A i, j \in DOMAIN o : i < j => o[i] < o[j]
        /\ \A k \in keep : \E i \in DOMAIN o : o[i] = k
        /\ t = [i \in DOMAIN o |-> s[o[i]]]
  BY <1>1 DEF Rows!Filtered
<1>4. DOMAIN o = 1 .. n /\ \A i \in 1 .. n : o[i] \in keep /\ o[i] \in DOMAIN s
  BY <1>3
<1>5. \A i \in DOMAIN s : s[i] \in S /\ i \in Nat
  BY LenProperties
<1>6. t = [i \in 1 .. n |-> s[o[i]]] /\ \A i \in 1 .. n : s[o[i]] \in S
  BY <1>3, <1>4, <1>5
<1>7. t \in Seq(S) /\ DOMAIN t = 1 .. n
  BY <1>2, <1>6
<1>8. ASSUME NEW i \in DOMAIN t, NEW j \in DOMAIN t, o[i] = o[j] PROVE i = j
  <2>1. i \in Nat /\ j \in Nat /\ o[i] \in Nat /\ o[j] \in Nat
    BY <1>2, <1>4, <1>5, <1>7
  <2>2. ~(i < j) /\ ~(j < i)
    BY <1>3, <1>4, <1>7, <1>8, <2>1
  <2>3. QED BY <2>1, <2>2
<1>9. o \in [DOMAIN t -> keep] /\ \A i \in DOMAIN t : t[i] = s[o[i]]
  BY <1>3, <1>6, <1>7
<1>10. \A k \in keep : \E i \in DOMAIN t : o[i] = k
  BY <1>3, <1>4, <1>7
<1>11. QED BY <1>7, <1>8, <1>9, <1>10

LEMMA RemoveRowHolds ==
  ASSUME RowsInv, RecordHabits = {}, NEW id \in Rows!FolderIds, NEW deleted \in BOOLEAN,
         Rows!RemoveRow(id, deleted)
  PROVE  RowsInv'
<1>1. /\ RowsTyped /\ ManifestInv /\ RowPointsInv /\ JobInv /\ CacheInv /\ ApartInv /\ PausedInv /\ WholeInv
      /\ PlacesInv /\ WorkerInv
  BY DEF RowsInv, PlacesInv, WishesInv
<1>2. PICK k \in DOMAIN docFolders :
        /\ docFolders[k].id = id /\ Rows!Folder(id) = docFolders[k] /\ docFolders[k] \in RowType
        /\ \A j \in DOMAIN docFolders : docFolders[j].id = id <=> j = k
  BY <1>1, FolderOf
<1>3. PICK keep \in SUBSET DOMAIN docFolders : keep = {i \in DOMAIN docFolders : docFolders[i].id # id}
  OBVIOUS
<1>4. PICK stay \in SUBSET DOMAIN docPoints :
        stay = {i \in DOMAIN docPoints : deleted => docPoints[i].folder # id}
  OBVIOUS
<1>5. /\ docFolders' \in Rows!Filtered(docFolders, keep)
      /\ docPoints' \in Rows!Filtered(docPoints, stay)
      /\ working.id # id /\ manifest' = [i \in DOMAIN manifest \ {id} |-> manifest[i]]
      /\ stopped' = stopped \ {id} /\ UNCHANGED <<working, given>>
      /\ whole' = IF docFolders[k].on THEN whole \ Rows!Given(id) ELSE whole
      /\ Rows!Invalidated /\ Rows!JobIsLeft
  BY <1>2, <1>3, <1>4 DEF Rows!RemoveRow, Rows!Without
<1>6. PICK q, r : q = docFolders' /\ r = docPoints'
  OBVIOUS
<1>7. /\ q \in Seq(RowType)
      /\ \E o \in [DOMAIN q -> keep] :
           /\ \A i, j \in DOMAIN q : o[i] = o[j] => i = j
           /\ \A m \in keep : \E i \in DOMAIN q : o[i] = m
           /\ \A i \in DOMAIN q : q[i] = docFolders[o[i]]
  <2>1. docFolders \in Seq(RowType) /\ q \in Rows!Filtered(docFolders, keep)
    BY <1>1, <1>5, <1>6 DEF RowsTyped
  <2>2. QED BY <2>1, FilteredIs
<1>8. PICK o \in [DOMAIN q -> keep] :
        /\ \A i, j \in DOMAIN q : o[i] = o[j] => i = j
        /\ \A m \in keep : \E i \in DOMAIN q : o[i] = m
        /\ \A i \in DOMAIN q : q[i] = docFolders[o[i]]
  BY <1>7
<1>9. \A i \in DOMAIN q : o[i] \in DOMAIN docFolders /\ q[i] = docFolders[o[i]] /\ q[i].id # id
  BY <1>3, <1>8
<1>10. \A m \in DOMAIN docFolders : m # k => \E i \in DOMAIN q : o[i] = m /\ q[i] = docFolders[m]
  BY <1>2, <1>3, <1>8
<1>11. RowsTyped'
  <2>1. \A i \in DOMAIN q : q[i].id \in 1 .. given
    BY <1>1, <1>9 DEF RowsTyped
  <2>2. \A i, j \in DOMAIN q : q[i].id = q[j].id => i = j
    BY <1>1, <1>8, <1>9 DEF RowsTyped
  <2>3. \A i \in DOMAIN q : q[i].only = {} \/ \E m \in RowNames : q[i].only = {m}
    BY <1>1, <1>9 DEF RowsTyped
  <2>4. given' \in Nat /\ given' = given
    BY <1>1, <1>5 DEF RowsTyped
  <2>5. q \in Seq(RowType) /\ docFolders' = q
    BY <1>6, <1>7
  <2>6. QED BY <2>1, <2>2, <2>3, <2>4, <2>5 DEF RowsTyped
<1>12. ManifestInv'
  <2>1. /\ DOMAIN manifest' = DOMAIN manifest \ {id}
        /\ \A x \in DOMAIN manifest' : manifest'[x] = manifest[x]
    BY <1>5
  <2>2. ASSUME NEW x \in DOMAIN manifest' PROVE \E i \in DOMAIN q : q[i].id = x
    <3>1. PICK m \in DOMAIN docFolders : docFolders[m].id = x
      BY <1>1, <2>1 DEF ManifestInv, Rows!FolderIds
    <3>2. m # k
      BY <1>2, <2>1, <3>1
    <3>3. QED BY <1>10, <3>1, <3>2
  <2>3. DOMAIN manifest' \subseteq Rows!FolderIds'
    BY <1>6, <2>2 DEF Rows!FolderIds
  <2>4. \A x \in DOMAIN manifest' : \A n \in DOMAIN manifest'[x] : manifest'[x][n] \in RowEntry
    BY <1>1, <2>1 DEF ManifestInv
  <2>5. \A i \in DOMAIN q : q[i].id \in DOMAIN manifest' =>
          \A n \in DOMAIN manifest'[q[i].id] : manifest'[q[i].id][n].root \in {"none", q[i].path}
    BY <1>1, <1>9, <2>1 DEF ManifestInv
  <2>6. QED BY <1>6, <2>3, <2>4, <2>5 DEF ManifestInv
<1>13. RowPointsInv'
  <2>1. /\ r \in Seq(RowPoint)
        /\ \E o2 \in [DOMAIN r -> stay] :
             /\ \A i, j \in DOMAIN r : o2[i] = o2[j] => i = j
             /\ \A m \in stay : \E i \in DOMAIN r : o2[i] = m
             /\ \A i \in DOMAIN r : r[i] = docPoints[o2[i]]
    BY <1>1, <1>5, <1>6, FilteredIs DEF RowPointsInv
  <2>2. \A m \in DOMAIN r : \E j \in DOMAIN docPoints : r[m] = docPoints[j]
    BY <2>1
  <2>3. ASSUME NEW m \in DOMAIN r
        PROVE  /\ r[m].folder \in 1 .. given
               /\ \A i \in DOMAIN q : q[i].id = r[m].folder => q[i].path = r[m].path
    <3>1. PICK j \in DOMAIN docPoints : r[m] = docPoints[j]
      BY <2>2
    <3>2. QED BY <1>1, <1>9, <3>1 DEF RowPointsInv
  <2>4. QED BY <1>5, <1>6, <2>1, <2>3 DEF RowPointsInv
<1>14. WorkerInv'
  <2>1. (Rows!Idle)' = Rows!Idle
    BY DEF Rows!Idle
  <2>2. ASSUME working # Rows!Idle
        PROVE  \E i \in DOMAIN q : q[i].id = working.id /\ q[i].path = working.root
    <3>1. PICK m \in DOMAIN docFolders : docFolders[m].id = working.id /\ docFolders[m].path = working.root
      BY <1>1, <2>2 DEF WorkerInv
    <3>2. m # k
      BY <1>2, <1>5, <3>1
    <3>3. QED BY <1>10, <3>1, <3>2
  <2>3. QED BY <1>5, <1>6, <2>1, <2>2 DEF WorkerInv
<1>15. ApartInv'
  <2>1. ASSUME NEW i \in DOMAIN q, NEW j \in DOMAIN q, i # j, q[i].on, q[j].on, q[i].path = q[j].path
        PROVE  q[i].only # {} /\ q[j].only # {} /\ q[i].only \cap q[j].only = {}
    <3>1. o[i] # o[j]
      BY <1>8, <2>1
    <3>2. QED BY <1>1, <1>9, <2>1, <3>1 DEF ApartInv
  <2>2. QED BY <1>6, <2>1 DEF ApartInv
<1>16. PausedInv'
  <2>1. \A i \in DOMAIN q : q[i].state = "paused" => q[i].id \in stopped'
    BY <1>1, <1>5, <1>9 DEF PausedInv
  <2>2. QED BY <1>6, <2>1 DEF PausedInv
<1>17. WholeInv'
  <2>1. ASSUME NEW p \in whole'
        PROVE  \E i \in DOMAIN q : q[i].on /\ q[i].path = p /\ q[i].only = {}
    <3>1. p \in whole
      BY <1>5, <2>1
    <3>2. PICK m \in DOMAIN docFolders :
            docFolders[m].on /\ docFolders[m].path = p /\ docFolders[m].only = {}
      BY <1>1, <3>1 DEF WholeInv
    <3>3. m # k
      BY <1>2, <1>5, <2>1, <3>2 DEF Rows!Given
    <3>4. QED BY <1>10, <3>2, <3>3
  <2>2. QED BY <1>6, <2>1 DEF WholeInv
<1>18. JobInv' /\ CacheInv'
  BY <1>1, <1>5, JobKept
<1>19. QED BY <1>11, <1>12, <1>13, <1>14, <1>15, <1>16, <1>17, <1>18 DEF RowsInv, PlacesInv, WishesInv

\* An entry's path and a point's, after the move.
LEMMA EntryMoved ==
  ASSUME NEW e \in RowEntry, NEW old, NEW p \in LocalPaths, e.root \in {"none", old}
  PROVE  Rows!Moved(e, old, p) \in RowEntry /\ Rows!Moved(e, old, p).root = p
<1>1. PICK a \in EntryStates, b \in LocalPaths \cup {"none"}, c \in BOOLEAN :
        e = [status |-> a, root |-> b, kept |-> c]
  BY DEF RowEntry
<1>2. e.root = b
  BY <1>1
<1>3. (IF e.root = "none" THEN p ELSE Rows!Migrated(e.root, old, p)) = p
  BY DEF Rows!Migrated
<1>4. Rows!Moved(e, old, p) = [e EXCEPT !.root = p]
  BY <1>3 DEF Rows!Moved
<1>5. PICK m : m = [e EXCEPT !.root = p]
  OBVIOUS
<1>6. m = [status |-> a, root |-> p, kept |-> c]
  BY <1>1, <1>5
<1>7. m \in RowEntry /\ m.root = p
  BY <1>6 DEF RowEntry
<1>8. QED BY <1>4, <1>5, <1>7

LEMMA PointMoved ==
  ASSUME NEW x \in RowPoint, NEW p \in LocalPaths, NEW y, y = [x EXCEPT !.path = p]
  PROVE  y \in RowPoint /\ y.folder = x.folder /\ y.path = p
<1>1. PICK a \in Nat, b \in LocalPaths : x = [folder |-> a, path |-> b]
  BY DEF RowPoint
<1>2. x.folder = a
  BY <1>1
<1>3. y = [folder |-> a, path |-> p]
  BY <1>1
<1>4. y \in RowPoint /\ y.folder = a /\ y.path = p
  BY <1>3 DEF RowPoint
<1>5. QED BY <1>2, <1>4

LEMMA AdoptHolds ==
  ASSUME RowsInv, NEW k \in DOMAIN docFolders, NEW p \in LocalPaths, Rows!Adopt(docFolders[k].id, p),
         working.id # docFolders[k].id,
         \A i \in DOMAIN docFolders : i # k => ~(docFolders[i].on /\ docFolders[i].path = p),
         \A q \in whole' :
           \/ q = p /\ docFolders[k].only = {}
           \/ \E i \in DOMAIN docFolders :
                i # k /\ docFolders[i].on /\ docFolders[i].path = q /\ docFolders[i].only = {}
  PROVE  RowsInv'
<1>1. /\ RowsTyped /\ ManifestInv /\ RowPointsInv /\ JobInv /\ CacheInv /\ ApartInv /\ PausedInv /\ WholeInv
      /\ PlacesInv /\ WorkerInv
  BY DEF RowsInv, PlacesInv, WishesInv
<1>2. PICK f \in RowType : f = docFolders[k]
  BY <1>1, LenProperties DEF RowsTyped
<1>3. /\ Rows!Folder(f.id) = f /\ f.id \in Rows!FolderIds
      /\ \A j \in DOMAIN docFolders : docFolders[j].id = f.id <=> j = k
  BY <1>1, <1>2, FolderIs DEF RowsTyped
<1>4. PICK old : old = f.path
  OBVIOUS
<1>5. /\ docFolders' = [i \in DOMAIN docFolders |->
           IF docFolders[i].id = f.id THEN [docFolders[i] EXCEPT !.path = p, !.on = TRUE]
           ELSE docFolders[i]]
      /\ manifest' = [x \in DOMAIN manifest |->
           IF x = f.id THEN [n \in DOMAIN manifest[x] |-> Rows!Moved(manifest[x][n], old, p)]
           ELSE manifest[x]]
      /\ docPoints' = [i \in DOMAIN docPoints |->
           IF docPoints[i].folder = f.id THEN [docPoints[i] EXCEPT !.path = p] ELSE docPoints[i]]
      /\ Rows!Invalidated /\ UNCHANGED <<summaryJob, working, stopped, given>>
  BY <1>2, <1>3, <1>4 DEF Rows!Adopt, Rows!Updated
<1>6. PICK b \in BOOLEAN : b = TRUE
  OBVIOUS
<1>7. PICK h : h = [f EXCEPT !.path = p, !.on = b]
  OBVIOUS
<1>8. /\ h \in RowType /\ h.id = f.id /\ h.path = p /\ h.on = TRUE /\ h.only = f.only
      /\ h.state = f.state
  <2>1. f.state \in RowStates /\ f.id \in Nat /\ f.remote \in LocalPaths /\ f.only \in SUBSET RowNames
    BY DEF RowType
  <2>2. h = [id |-> f.id, path |-> p, remote |-> f.remote, on |-> b, only |-> f.only, state |-> f.state]
    <3>1. PICK u : u = [f EXCEPT !.path = p]
      OBVIOUS
    <3>2. h = [u EXCEPT !.on = b]
      BY <1>7, <3>1
    <3>3. PICK a \in Nat, c \in LocalPaths, d \in LocalPaths, e \in BOOLEAN, g \in SUBSET RowNames,
               t \in RowStates :
            f = [id |-> a, path |-> c, remote |-> d, on |-> e, only |-> g, state |-> t]
      BY DEF RowType
    <3>4. f.id = a /\ f.remote = d /\ f.only = g /\ f.state = t
      BY <3>3
    <3>5. u = [id |-> a, path |-> p, remote |-> d, on |-> e, only |-> g, state |-> t]
      BY <3>1, <3>3
    <3>6. h = [id |-> a, path |-> p, remote |-> d, on |-> b, only |-> g, state |-> t]
      BY <3>2, <3>5
    <3>7. QED BY <3>4, <3>6
  <2>3. h \in RowType
    BY <2>1, <2>2 DEF RowType
  <2>4. QED BY <1>6, <2>2, <2>3
<1>9. PICK q : q = [i \in DOMAIN docFolders |-> IF i = k THEN h ELSE docFolders[i]]
  OBVIOUS
<1>10. docFolders' = [i \in DOMAIN docFolders |-> q[i]]
  <2>1. ASSUME NEW i \in DOMAIN docFolders
        PROVE  (IF docFolders[i].id = f.id THEN [docFolders[i] EXCEPT !.path = p, !.on = TRUE]
                ELSE docFolders[i]) = q[i]
    BY <1>2, <1>3, <1>6, <1>7, <1>9
  <2>2. QED BY <1>5, <2>1
<1>11. \A i \in DOMAIN docFolders : q[i] \in RowType
  BY <1>1, <1>8, <1>9, LenProperties DEF RowsTyped
<1>12. docFolders' \in Seq(RowType) /\ DOMAIN docFolders' = DOMAIN docFolders
  BY <1>1, <1>10, <1>11, RowsInSeq DEF RowsTyped
<1>13. docFolders'[k] = h /\ \A i \in DOMAIN docFolders : i # k => docFolders'[i] = docFolders[i]
  BY <1>9, <1>10
<1>14. \A i \in DOMAIN docFolders :
         /\ docFolders'[i].id = docFolders[i].id /\ docFolders'[i].only = docFolders[i].only
         /\ docFolders'[i].state = docFolders[i].state
  BY <1>2, <1>8, <1>13
<1>15. RowsTyped'
  <2>1. given' = given /\ given \in Nat
    BY <1>1, <1>5 DEF RowsTyped
  <2>2. \A i \in DOMAIN docFolders' : docFolders'[i].id \in 1 .. given'
    BY <1>1, <1>12, <1>14, <2>1 DEF RowsTyped
  <2>3. \A i, j \in DOMAIN docFolders' : docFolders'[i].id = docFolders'[j].id => i = j
    BY <1>1, <1>12, <1>14 DEF RowsTyped
  <2>4. \A i \in DOMAIN docFolders' :
          docFolders'[i].only = {} \/ \E m \in RowNames : docFolders'[i].only = {m}
    BY <1>1, <1>12, <1>14 DEF RowsTyped
  <2>5. QED BY <1>12, <2>1, <2>2, <2>3, <2>4 DEF RowsTyped
<1>16. ManifestInv'
  <2>1. Rows!FolderIds' = Rows!FolderIds
    BY <1>12, <1>14 DEF Rows!FolderIds
  <2>2. /\ DOMAIN manifest' = DOMAIN manifest
        /\ \A x \in DOMAIN manifest : x # f.id => manifest'[x] = manifest[x]
    BY <1>5
  <2>3. ASSUME f.id \in DOMAIN manifest, NEW n \in DOMAIN manifest'[f.id]
        PROVE  manifest'[f.id][n] \in RowEntry /\ manifest'[f.id][n].root = p
    <3>1. manifest'[f.id] = [m \in DOMAIN manifest[f.id] |-> Rows!Moved(manifest[f.id][m], old, p)]
      BY <1>5, <2>3
    <3>2. n \in DOMAIN manifest[f.id] /\ manifest'[f.id][n] = Rows!Moved(manifest[f.id][n], old, p)
      BY <2>3, <3>1
    <3>3. manifest[f.id][n] \in RowEntry /\ manifest[f.id][n].root \in {"none", old}
      BY <1>1, <1>2, <1>4, <2>3, <3>2 DEF ManifestInv
    <3>4. QED BY <3>2, <3>3, EntryMoved
  <2>4. \A x \in DOMAIN manifest' : \A n \in DOMAIN manifest'[x] : manifest'[x][n] \in RowEntry
    BY <1>1, <2>2, <2>3 DEF ManifestInv
  <2>5. ASSUME NEW i \in DOMAIN docFolders, docFolders[i].id \in DOMAIN manifest',
               NEW n \in DOMAIN manifest'[docFolders[i].id]
        PROVE  manifest'[docFolders[i].id][n].root \in {"none", docFolders'[i].path}
    <3>1. CASE i = k
      BY <1>2, <1>8, <1>13, <2>2, <2>3, <2>5, <3>1
    <3>2. CASE i # k
      <4>1. docFolders[i].id # f.id /\ docFolders'[i] = docFolders[i]
        BY <1>3, <1>13, <3>2
      <4>2. manifest'[docFolders[i].id] = manifest[docFolders[i].id]
        BY <2>2, <2>5, <4>1
      <4>3. QED BY <1>1, <2>2, <2>5, <4>1, <4>2 DEF ManifestInv
    <3>3. QED BY <3>1, <3>2
  <2>6. DOMAIN manifest' \subseteq Rows!FolderIds'
    BY <1>1, <2>1, <2>2 DEF ManifestInv
  <2>7. QED BY <1>12, <1>14, <2>4, <2>5, <2>6 DEF ManifestInv
<1>17. RowPointsInv'
  <2>1. PICK r : r = [i \in DOMAIN docPoints |->
           IF docPoints[i].folder = f.id THEN [docPoints[i] EXCEPT !.path = p] ELSE docPoints[i]]
    OBVIOUS
  <2>2. docPoints \in Seq(RowPoint)
    BY <1>1 DEF RowPointsInv
  <2>3. ASSUME NEW m \in DOMAIN docPoints
        PROVE  /\ r[m] \in RowPoint /\ r[m].folder = docPoints[m].folder
               /\ docPoints[m].folder = f.id => r[m].path = p
               /\ docPoints[m].folder # f.id => r[m] = docPoints[m]
    <3>1. PICK x \in RowPoint : x = docPoints[m]
      BY <2>2, LenProperties
    <3>2. PICK y : y = [x EXCEPT !.path = p]
      OBVIOUS
    <3>3. y \in RowPoint /\ y.folder = x.folder /\ y.path = p
      BY <3>2, PointMoved
    <3>4. r[m] = IF x.folder = f.id THEN y ELSE x
      BY <2>1, <3>1, <3>2
    <3>5. QED BY <3>1, <3>3, <3>4
  <2>4. PICK n \in Nat : DOMAIN docPoints = 1 .. n
    BY <2>2, LenProperties
  <2>5. r = [i \in 1 .. n |-> r[i]] /\ \A i \in 1 .. n : r[i] \in RowPoint
    BY <2>1, <2>3, <2>4
  <2>6. DOMAIN r = 1 .. n
    BY <2>1, <2>4
  <2>7. r \in Seq(RowPoint)
    <3>1. r \in [1 .. n -> RowPoint]
      BY <2>5, <2>6
    <3>2. QED BY <2>4, <3>1
  <2>8. ASSUME NEW m \in DOMAIN r
        PROVE  /\ r[m].folder \in 1 .. given
               /\ \A i \in DOMAIN docFolders :
                    docFolders[i].id = r[m].folder => docFolders'[i].path = r[m].path
    <3>1. m \in DOMAIN docPoints
      BY <2>4, <2>6
    <3>2. r[m].folder \in 1 .. given
      BY <1>1, <2>3, <3>1 DEF RowPointsInv
    <3>3. ASSUME NEW i \in DOMAIN docFolders, docFolders[i].id = r[m].folder
          PROVE  docFolders'[i].path = r[m].path
      <4>1. docFolders[i].id = docPoints[m].folder
        BY <2>3, <3>1, <3>3
      <4>2. CASE i = k
        BY <1>2, <1>8, <1>13, <2>3, <3>1, <4>1, <4>2
      <4>3. CASE i # k
        <5>1. docPoints[m].folder # f.id /\ docFolders'[i] = docFolders[i]
          BY <1>3, <1>13, <4>1, <4>3
        <5>2. QED BY <1>1, <2>3, <3>1, <4>1, <5>1 DEF RowPointsInv
      <4>4. QED BY <4>2, <4>3
    <3>4. QED BY <3>2, <3>3
  <2>9. docPoints' = r /\ given' = given
    BY <1>5, <2>1
  <2>10. QED BY <1>12, <1>14, <2>7, <2>8, <2>9 DEF RowPointsInv
<1>18. WorkerInv'
  <2>1. (Rows!Idle)' = Rows!Idle
    BY DEF Rows!Idle
  <2>2. ASSUME working # Rows!Idle
        PROVE  \E i \in DOMAIN docFolders : docFolders'[i].id = working.id /\ docFolders'[i].path = working.root
    <3>1. PICK m \in DOMAIN docFolders : docFolders[m].id = working.id /\ docFolders[m].path = working.root
      BY <1>1, <2>2 DEF WorkerInv
    <3>2. m # k
      BY <3>1
    <3>3. QED BY <1>13, <3>1, <3>2
  <2>3. working' = working
    BY <1>5
  <2>4. QED BY <1>12, <2>1, <2>2, <2>3 DEF WorkerInv
<1>19. ApartInv'
  <2>1. ASSUME NEW i \in DOMAIN docFolders, NEW j \in DOMAIN docFolders, i # j,
               docFolders'[i].on, docFolders'[j].on, docFolders'[i].path = docFolders'[j].path
        PROVE  /\ docFolders'[i].only # {} /\ docFolders'[j].only # {}
               /\ docFolders'[i].only \cap docFolders'[j].only = {}
    <3>1. i # k /\ j # k
      BY <1>8, <1>13, <2>1
    <3>2. QED BY <1>1, <1>13, <2>1, <3>1 DEF ApartInv
  <2>2. QED BY <1>12, <2>1 DEF ApartInv
<1>20. PausedInv'
  <2>1. stopped' = stopped
    BY <1>5
  <2>2. QED BY <1>1, <1>12, <1>14, <2>1 DEF PausedInv
<1>21. WholeInv'
  <2>1. ASSUME NEW z \in whole'
        PROVE  \E i \in DOMAIN docFolders :
                 docFolders'[i].on /\ docFolders'[i].path = z /\ docFolders'[i].only = {}
    <3>1. CASE z = p /\ docFolders[k].only = {}
      BY <1>2, <1>8, <1>13, <3>1
    <3>2. CASE \E i \in DOMAIN docFolders :
                 i # k /\ docFolders[i].on /\ docFolders[i].path = z /\ docFolders[i].only = {}
      BY <1>13, <3>2
    <3>3. QED BY <2>1, <3>1, <3>2
  <2>2. QED BY <1>12, <2>1 DEF WholeInv
<1>22. JobInv' /\ CacheInv'
  BY <1>1, <1>5, JobKept
<1>23. QED BY <1>15, <1>16, <1>17, <1>18, <1>19, <1>20, <1>21, <1>22 DEF RowsInv, PlacesInv, WishesInv

LEMMA ReconnectHolds ==
  ASSUME RowsInv, RecordHabits = {}, NEW id \in Rows!FolderIds, NEW p \in LocalPaths,
         Rows!Reconnect(id, p)
  PROVE  RowsInv'
<1>1. RowsTyped /\ WholeInv
  BY DEF RowsInv, PlacesInv, WishesInv
<1>2. PICK k \in DOMAIN docFolders :
        /\ docFolders[k].id = id /\ Rows!Folder(id) = docFolders[k]
        /\ \A j \in DOMAIN docFolders : docFolders[j].id = id <=> j = k
  BY <1>1, FolderOf
<1>3. /\ p # docFolders[k].path /\ working.id # docFolders[k].id
      /\ \A i \in DOMAIN docFolders : i # k => ~(docFolders[i].on /\ docFolders[i].path = p)
      /\ whole' = IF docFolders[k].only = {} THEN (whole \ {docFolders[k].path}) \cup {p} ELSE whole
      /\ Rows!Adopt(docFolders[k].id, p)
  BY <1>2 DEF Rows!Reconnect
<1>4. ASSUME NEW q \in whole'
      PROVE  \/ q = p /\ docFolders[k].only = {}
             \/ \E i \in DOMAIN docFolders :
                  i # k /\ docFolders[i].on /\ docFolders[i].path = q /\ docFolders[i].only = {}
  <2>1. CASE q = p /\ docFolders[k].only = {}
    BY <2>1
  <2>2. CASE q \in whole /\ (docFolders[k].only = {} => q # docFolders[k].path)
    BY <1>1, <2>2 DEF WholeInv
  <2>3. QED BY <1>3, <1>4, <2>1, <2>2
<1>5. QED BY <1>3, <1>4, AdoptHolds

LEMMA AddAgainHolds ==
  ASSUME RowsInv, RecordHabits = {}, NEW p \in LocalPaths, Rows!AddAgain(p)
  PROVE  RowsInv'
<1>1. RowsTyped /\ WholeInv
  BY DEF RowsInv, PlacesInv, WishesInv
<1>2. PICK k \in DOMAIN docFolders :
        /\ docFolders[k].path = p /\ ~docFolders[k].on /\ docFolders[k].only = {}
        /\ working.id # docFolders[k].id /\ Rows!Adopt(docFolders[k].id, p)
  BY DEF Rows!AddAgain, Rows!Reusable
<1>3. whole' = whole \cup {p} /\ ~Rows!Covered(p, {})
  BY DEF Rows!AddAgain
<1>4. \A i \in DOMAIN docFolders : ~(docFolders[i].on /\ docFolders[i].path = p)
  BY <1>3 DEF Rows!Covered
<1>5. ASSUME NEW q \in whole'
      PROVE  \/ q = p /\ docFolders[k].only = {}
             \/ \E i \in DOMAIN docFolders :
                  i # k /\ docFolders[i].on /\ docFolders[i].path = q /\ docFolders[i].only = {}
  <2>1. CASE q = p
    BY <1>2, <2>1
  <2>2. CASE q \in whole
    BY <1>1, <1>2, <2>2 DEF WholeInv
  <2>3. QED BY <1>3, <1>5, <2>1, <2>2
<1>6. QED BY <1>2, <1>4, <1>5, AdoptHolds

-----------------------------------------------------------------------------
(* The summary, counted in portions.                                       *)

\* What the steps of the count leave.
LEMMA OnlyCounts ==
  ASSUME RowsInv, UNCHANGED <<docFolders, manifest, docPoints, revision, working, stopped, whole, given>>
  PROVE  /\ PlacesInv' /\ WishesInv'
         /\ UNCHANGED summaryCache => CacheInv'
         /\ Rows!FolderIds' = Rows!FolderIds /\ AllRows' = AllRows /\ \A x : IsFound(x)' <=> IsFound(x)
<1>1. PlacesInv /\ WishesInv /\ CacheInv
  BY DEF RowsInv
<1>2. (Rows!Idle)' = Rows!Idle
  BY DEF Rows!Idle
<1>3. PlacesInv'
  BY <1>1, <1>2 DEF PlacesInv, RowsTyped, ManifestInv, RowPointsInv, WorkerInv, Rows!FolderIds
<1>4. WishesInv'
  BY <1>1 DEF WishesInv, ApartInv, PausedInv, WholeInv
<1>5. Rows!FolderIds' = Rows!FolderIds /\ AllRows' = AllRows /\ \A x : IsFound(x)' <=> IsFound(x)
  BY DEF Rows!FolderIds, AllRows, IsFound, Finds, Rows!Entries
<1>6. ASSUME UNCHANGED summaryCache PROVE CacheInv'
  BY <1>1, <1>6 DEF CacheInv, CacheCounts, AllRows, IsFound, Finds, Rows!Entries
<1>7. QED BY <1>3, <1>4, <1>5, <1>6

LEMMA CountBegins ==
  ASSUME RowsInv, Rows!CountSummary
  PROVE  RowsInv'
<1>1. RowsTyped /\ JobInv /\ CacheInv
  BY DEF RowsInv, PlacesInv
<1>2. UNCHANGED <<docFolders, manifest, docPoints, revision, summaryCache, working, stopped, whole, given>>
  BY DEF Rows!CountSummary, Rows!rowVars
<1>3. PICK t, sg : t = [i \in DOMAIN docFolders |-> docFolders[i].id] /\ sg = Rows!Signature
  OBVIOUS
<1>4. PICK q : q = [under |-> TRUE, rows |-> {}, counted |-> {}, revision |-> revision, signature |-> sg,
                    todo |-> t, live |-> TRUE, at |-> 0, left |-> {}]
  OBVIOUS
<1>5. summaryJob' = q
  BY <1>3, <1>4 DEF Rows!CountSummary
<1>6. /\ q.rows = {} /\ q.counted = {} /\ q.revision = revision /\ q.todo = t /\ q.left = {}
  BY <1>4
<1>7. JobShape(q)
  BY <1>4, Zenon DEF JobShape
<1>8. t \in Seq(Nat) /\ DOMAIN t = DOMAIN docFolders /\ \A i \in DOMAIN docFolders : t[i] = docFolders[i].id
  <2>1. PICK n \in Nat : DOMAIN docFolders = 1 .. n
    BY <1>1, LenProperties DEF RowsTyped
  <2>2. \A i \in 1 .. n : docFolders[i].id \in Nat
    BY <1>1, <2>1 DEF RowsTyped
  <2>3. t = [i \in 1 .. n |-> docFolders[i].id]
    BY <1>3, <2>1
  <2>4. t \in Seq(Nat)
    BY <2>2, <2>3
  <2>5. QED BY <1>3, <2>4
<1>9. revision \in Nat
  BY <1>1 DEF CacheInv
<1>10. JobCounts'
  <2>1. \A k \in DOMAIN t : t[k] \in Rows!FolderIds'
    BY <1>2, <1>8 DEF Rows!FolderIds
  <2>2. \A i \in DOMAIN docFolders : \E k \in DOMAIN t : t[k] = docFolders[i].id
    BY <1>8
  <2>3. docFolders' = docFolders
    BY <1>2
  <2>4. QED BY <1>5, <1>6, <1>8, <2>1, <2>2, <2>3 DEF JobCounts
<1>11. JobInv'
  BY <1>2, <1>5, <1>6, <1>7, <1>9, <1>10 DEF JobInv
<1>12. PlacesInv' /\ WishesInv' /\ CacheInv'
  BY <1>2, OnlyCounts
<1>13. QED BY <1>11, <1>12 DEF RowsInv

LEMMA CountGoesOn ==
  ASSUME RowsInv, Rows!CountFolder
  PROVE  RowsInv'
<1>1. RowsTyped /\ ManifestInv /\ JobInv /\ CacheInv
  BY DEF RowsInv, PlacesInv
<1>2. /\ UNCHANGED <<docFolders, manifest, docPoints, revision, summaryCache, working, stopped, whole, given>>
      /\ summaryJob.under /\ summaryJob.left = {} /\ summaryJob.todo # <<>>
  BY DEF Rows!CountFolder, Rows!rowVars
<1>3. PICK u, rs, c, rev, sg, t, l, a, lf :
        summaryJob = [under |-> u, rows |-> rs, counted |-> c, revision |-> rev, signature |-> sg,
                      todo |-> t, live |-> l, at |-> a, left |-> lf]
  BY <1>1 DEF JobInv, JobShape
<1>4. /\ summaryJob.under = u /\ summaryJob.rows = rs /\ summaryJob.counted = c
      /\ summaryJob.revision = rev /\ summaryJob.todo = t /\ summaryJob.at = a /\ summaryJob.left = lf
  BY <1>3
<1>5. PICK id, tl, e, r2 :
        /\ id = Head(t) /\ tl = Tail(t) /\ e = DOMAIN Rows!Entries(manifest, id)
        /\ r2 = IF id \in Rows!FolderIds THEN rs \cup {<<id, Rows!Folder(id).path>>} ELSE rs
  OBVIOUS
<1>6. summaryJob' = [under |-> u, rows |-> r2, counted |-> c, revision |-> rev, signature |-> sg,
                     todo |-> tl, live |-> l, at |-> id, left |-> e]
  <2>1. summaryJob' = [summaryJob EXCEPT !.todo = Tail(t), !.at = id, !.left = e, !.rows = r2]
    BY <1>3, <1>4, <1>5 DEF Rows!CountFolder
  <2>2. QED BY <1>3, <1>5, <2>1
<1>7. /\ summaryJob'.under = u /\ summaryJob'.rows = r2 /\ summaryJob'.counted = c
      /\ summaryJob'.revision = rev /\ summaryJob'.todo = tl /\ summaryJob'.at = id /\ summaryJob'.left = e
  BY <1>6
<1>8. JobShape(summaryJob')
  BY <1>6, Zenon DEF JobShape
<1>9. ASSUME JobCounts PROVE JobCounts'
  <2>1. /\ t \in Seq(Nat) /\ t # <<>> /\ \A k \in DOMAIN t : t[k] \in Rows!FolderIds
        /\ rs \subseteq AllRows /\ \A x \in c : IsFound(x)
    BY <1>2, <1>4, <1>9 DEF JobCounts
  <2>2. /\ tl \in Seq(Nat) /\ Len(tl) = Len(t) - 1 /\ id = t[1]
        /\ \A k \in 1 .. Len(tl) : tl[k] = t[k + 1]
    BY <1>5, <2>1, HeadTailProperties
  <2>3. DOMAIN t = 1 .. Len(t) /\ DOMAIN tl = 1 .. Len(tl) /\ Len(t) \in Nat /\ Len(tl) \in Nat
    BY <2>1, <2>2, LenProperties
  <2>4. id \in Rows!FolderIds
    <3>1. 1 \in DOMAIN t
      BY <2>2, <2>3
    <3>2. QED BY <2>1, <2>2, <3>1
  <2>5. PICK k \in DOMAIN docFolders :
          docFolders[k].id = id /\ Rows!Folder(id) = docFolders[k]
          /\ \A j \in DOMAIN docFolders : docFolders[j].id = id <=> j = k
    BY <1>1, <2>4, FolderOf
  <2>6. r2 = rs \cup {<<docFolders[k].id, docFolders[k].path>>}
    BY <1>5, <2>4, <2>5
  <2>7. \A m \in DOMAIN tl : m + 1 \in DOMAIN t /\ tl[m] = t[m + 1]
    BY <2>2, <2>3
  <2>8. \A m \in DOMAIN tl : tl[m] \in Rows!FolderIds
    BY <2>1, <2>7
  <2>9. r2 \subseteq AllRows
    BY <2>1, <2>6 DEF AllRows
  <2>10. ASSUME NEW i \in DOMAIN docFolders
         PROVE  \/ \E m \in DOMAIN tl : tl[m] = docFolders[i].id
                \/ /\ <<docFolders[i].id, docFolders[i].path>> \in r2
                   /\ \A n \in DOMAIN Rows!Entries(manifest, docFolders[i].id) :
                        \/ docFolders[i].id = id /\ n \in e
                        \/ Finds(docFolders[i].id, n) \in c
    <3>1. CASE docFolders[i].id = id
      <4>1. i = k
        BY <2>5, <3>1
      <4>2. QED BY <1>5, <2>6, <3>1, <4>1
    <3>2. CASE docFolders[i].id # id /\ \E m \in DOMAIN t : t[m] = docFolders[i].id
      <4>1. PICK m \in DOMAIN t : t[m] = docFolders[i].id
        BY <3>2
      <4>2. m # 1
        BY <2>2, <3>2, <4>1
      <4>3. m - 1 \in DOMAIN tl /\ m - 1 + 1 = m
        BY <2>2, <2>3, <4>2
      <4>4. tl[m - 1] = t[m]
        BY <2>7, <4>3
      <4>5. QED BY <4>1, <4>3, <4>4
    <3>3. CASE ~\E m \in DOMAIN t : t[m] = docFolders[i].id
      <4>1. /\ <<docFolders[i].id, docFolders[i].path>> \in rs
            /\ \A n \in DOMAIN Rows!Entries(manifest, docFolders[i].id) :
                 \/ docFolders[i].id = a /\ n \in lf
                 \/ Finds(docFolders[i].id, n) \in c
        BY <1>4, <1>9, <3>3 DEF JobCounts
      <4>2. lf = {}
        BY <1>2, <1>4
      <4>3. QED BY <2>6, <4>1, <4>2
    <3>4. QED BY <3>1, <3>2, <3>3
  <2>11. /\ Rows!FolderIds' = Rows!FolderIds /\ AllRows' = AllRows /\ \A x : IsFound(x)' <=> IsFound(x)
         /\ docFolders' = docFolders /\ manifest' = manifest
    BY <1>2, OnlyCounts
  <2>12. e = DOMAIN Rows!Entries(manifest, id)
    BY <1>5
  <2>13. /\ tl \in Seq(Nat) /\ (\A m \in DOMAIN tl : tl[m] \in Rows!FolderIds')
         /\ r2 \subseteq AllRows' /\ (\A x \in c : IsFound(x)')
    BY <2>1, <2>2, <2>8, <2>9, <2>11
  <2>14. e \subseteq DOMAIN (Rows!Entries(manifest, id))'
    BY <2>11, <2>12 DEF Rows!Entries
  <2>15. \A i \in DOMAIN docFolders' :
           \/ \E m \in DOMAIN tl : tl[m] = docFolders'[i].id
           \/ /\ <<docFolders'[i].id, docFolders'[i].path>> \in r2
              /\ \A n \in DOMAIN Rows!Entries(manifest', docFolders'[i].id) :
                   \/ docFolders'[i].id = id /\ n \in e
                   \/ <<docFolders'[i].id, n, manifest'[docFolders'[i].id][n].status,
                     manifest'[docFolders'[i].id][n].kept>> \in c
    BY <2>10, <2>11 DEF Finds, Rows!Entries
  <2>16. QED BY <1>7, <2>13, <2>14, <2>15, Zenon DEF JobCounts, Finds
<1>10. JobInv'
  <2>1. rev \in Nat /\ rev <= revision /\ (u /\ rev = revision => JobCounts)
    BY <1>1, <1>4 DEF JobInv
  <2>2. summaryJob'.revision \in Nat /\ summaryJob'.revision <= revision'
    BY <1>2, <1>7, <2>1
  <2>3. summaryJob'.under /\ summaryJob'.revision = revision' => JobCounts'
    BY <1>2, <1>7, <1>9, <2>1
  <2>4. QED BY <1>8, <2>2, <2>3 DEF JobInv
<1>11. PlacesInv' /\ WishesInv' /\ CacheInv'
  BY <1>2, OnlyCounts
<1>12. QED BY <1>10, <1>11 DEF RowsInv

LEMMA CountPortionHolds ==
  ASSUME RowsInv, Rows!CountEntries
  PROVE  RowsInv'
<1>1. RowsTyped /\ ManifestInv /\ JobInv /\ CacheInv
  BY DEF RowsInv, PlacesInv
<1>2. /\ UNCHANGED <<docFolders, manifest, docPoints, revision, summaryCache, working, stopped, whole, given>>
      /\ summaryJob.under
  BY DEF Rows!CountEntries, Rows!rowVars
<1>3. PICK u, rs, c, rev, sg, t, l, a, lf :
        summaryJob = [under |-> u, rows |-> rs, counted |-> c, revision |-> rev, signature |-> sg,
                      todo |-> t, live |-> l, at |-> a, left |-> lf]
  BY <1>1 DEF JobInv, JobShape
<1>4. /\ summaryJob.under = u /\ summaryJob.rows = rs /\ summaryJob.counted = c
      /\ summaryJob.revision = rev /\ summaryJob.todo = t /\ summaryJob.at = a /\ summaryJob.left = lf
  BY <1>3
<1>5. PICK n \in lf :
        summaryJob' = [summaryJob EXCEPT
          !.left = lf \ {n},
          !.counted = IF n \in DOMAIN Rows!Entries(manifest, a) THEN c \cup {Finds(a, n)} ELSE c]
  <2>1. PICK n \in summaryJob.left :
          summaryJob' = [summaryJob EXCEPT
            !.left = @ \ {n},
            !.counted = IF n \in DOMAIN Rows!Entries(manifest, summaryJob.at)
                        THEN @ \cup {<<summaryJob.at, n, manifest[summaryJob.at][n].status,
                                       manifest[summaryJob.at][n].kept>>}
                        ELSE @]
    BY DEF Rows!CountEntries
  <2>2. summaryJob' = [summaryJob EXCEPT
          !.left = lf \ {n},
          !.counted = IF n \in DOMAIN Rows!Entries(manifest, a) THEN c \cup {Finds(a, n)} ELSE c]
    BY <1>3, <1>4, <2>1 DEF Finds
  <2>3. n \in lf
    BY <1>4
  <2>4. QED BY <2>2, <2>3, Zenon
<1>6. PICK l2, c2 :
        /\ l2 = lf \ {n}
        /\ c2 = IF n \in DOMAIN Rows!Entries(manifest, a) THEN c \cup {Finds(a, n)} ELSE c
  OBVIOUS
<1>7. summaryJob' = [under |-> u, rows |-> rs, counted |-> c2, revision |-> rev, signature |-> sg,
                     todo |-> t, live |-> l, at |-> a, left |-> l2]
  BY <1>3, <1>5, <1>6
<1>8. /\ summaryJob'.under = u /\ summaryJob'.rows = rs /\ summaryJob'.counted = c2
      /\ summaryJob'.revision = rev /\ summaryJob'.todo = t /\ summaryJob'.at = a /\ summaryJob'.left = l2
  BY <1>7
<1>9. JobShape(summaryJob')
  BY <1>7, Zenon DEF JobShape
<1>10. ASSUME JobCounts PROVE JobCounts'
  <2>1. /\ t \in Seq(Nat) /\ (\A k \in DOMAIN t : t[k] \in Rows!FolderIds)
        /\ rs \subseteq AllRows /\ (\A x \in c : IsFound(x)) /\ lf \subseteq DOMAIN Rows!Entries(manifest, a)
    BY <1>4, <1>10 DEF JobCounts
  <2>2. n \in DOMAIN Rows!Entries(manifest, a) /\ c2 = c \cup {Finds(a, n)}
    BY <1>6, <2>1
  <2>3. a \in Rows!FolderIds
    <3>1. DOMAIN <<>> = {}
      OBVIOUS
    <3>2. a \in DOMAIN manifest
      BY <2>2, <3>1 DEF Rows!Entries
    <3>3. QED BY <1>1, <3>2 DEF ManifestInv
  <2>4. IsFound(Finds(a, n))
    BY <2>2, <2>3 DEF IsFound, Rows!FolderIds
  <2>5. \A x \in c2 : IsFound(x)
    BY <2>1, <2>2, <2>4
  <2>6. l2 \subseteq DOMAIN Rows!Entries(manifest, a)
    BY <1>6, <2>1
  <2>7. ASSUME NEW i \in DOMAIN docFolders, ~\E m \in DOMAIN t : t[m] = docFolders[i].id
        PROVE  /\ <<docFolders[i].id, docFolders[i].path>> \in rs
               /\ \A x \in DOMAIN Rows!Entries(manifest, docFolders[i].id) :
                    \/ docFolders[i].id = a /\ x \in l2
                    \/ Finds(docFolders[i].id, x) \in c2
    <3>1. /\ <<docFolders[i].id, docFolders[i].path>> \in rs
          /\ \A x \in DOMAIN Rows!Entries(manifest, docFolders[i].id) :
               \/ docFolders[i].id = a /\ x \in lf
               \/ Finds(docFolders[i].id, x) \in c
      BY <1>4, <1>10, <2>7 DEF JobCounts
    <3>2. ASSUME NEW x \in DOMAIN Rows!Entries(manifest, docFolders[i].id)
          PROVE  (docFolders[i].id = a /\ x \in l2) \/ Finds(docFolders[i].id, x) \in c2
      <4>1. CASE docFolders[i].id = a /\ x = n
        BY <2>2, <4>1
      <4>2. CASE ~(docFolders[i].id = a /\ x = n)
        BY <1>6, <2>2, <3>1, <3>2, <4>2
      <4>3. QED BY <4>1, <4>2
    <3>3. QED BY <3>1, <3>2
  <2>8. /\ Rows!FolderIds' = Rows!FolderIds /\ AllRows' = AllRows /\ \A x : IsFound(x)' <=> IsFound(x)
        /\ docFolders' = docFolders /\ manifest' = manifest
    BY <1>2, OnlyCounts
  <2>9. /\ t \in Seq(Nat) /\ (\A k \in DOMAIN t : t[k] \in Rows!FolderIds')
        /\ rs \subseteq AllRows' /\ (\A x \in c2 : IsFound(x)')
    BY <2>1, <2>5, <2>8
  <2>10. l2 \subseteq DOMAIN (Rows!Entries(manifest, a))'
    BY <2>6, <2>8 DEF Rows!Entries
  <2>11. \A i \in DOMAIN docFolders' :
           \/ \E m \in DOMAIN t : t[m] = docFolders'[i].id
           \/ /\ <<docFolders'[i].id, docFolders'[i].path>> \in rs
              /\ \A x \in DOMAIN Rows!Entries(manifest', docFolders'[i].id) :
                   \/ docFolders'[i].id = a /\ x \in l2
                   \/ <<docFolders'[i].id, x, manifest'[docFolders'[i].id][x].status,
                     manifest'[docFolders'[i].id][x].kept>> \in c2
    BY <2>7, <2>8 DEF Finds, Rows!Entries
  <2>12. QED BY <1>8, <2>9, <2>10, <2>11, Zenon DEF JobCounts, Finds
<1>11. JobInv'
  <2>1. rev \in Nat /\ rev <= revision /\ (u /\ rev = revision => JobCounts)
    BY <1>1, <1>4 DEF JobInv
  <2>2. summaryJob'.revision \in Nat /\ summaryJob'.revision <= revision'
    BY <1>2, <1>8, <2>1
  <2>3. summaryJob'.under /\ summaryJob'.revision = revision' => JobCounts'
    BY <1>2, <1>8, <1>10, <2>1
  <2>4. QED BY <1>9, <2>2, <2>3 DEF JobInv
<1>12. PlacesInv' /\ WishesInv' /\ CacheInv'
  BY <1>2, OnlyCounts
<1>13. QED BY <1>11, <1>12 DEF RowsInv

LEMMA CountEnds ==
  ASSUME RowsInv, Rows!SummaryCounted
  PROVE  RowsInv'
<1>1. RowsTyped /\ ManifestInv /\ JobInv /\ CacheInv
  BY DEF RowsInv, PlacesInv
<1>2. /\ UNCHANGED <<docFolders, manifest, docPoints, revision, working, stopped, whole, given>>
      /\ summaryJob.under /\ summaryJob.left = {} /\ summaryJob.todo = <<>> /\ summaryJob' = Rows!NoJob
  BY DEF Rows!SummaryCounted, Rows!rowVars
<1>3. /\ PlacesInv' /\ WishesInv' /\ (UNCHANGED summaryCache => CacheInv')
      /\ AllRows' = AllRows /\ (\A x : IsFound(x)' <=> IsFound(x))
      /\ docFolders' = docFolders /\ manifest' = manifest /\ revision' = revision
  BY <1>2, OnlyCounts
<1>4. JobInv'
  <2>1. JobShape(summaryJob')
    BY <1>2, Zenon DEF Rows!NoJob, JobShape
  <2>2. summaryJob'.under = FALSE /\ summaryJob'.revision = 0
    BY <1>2 DEF Rows!NoJob
  <2>3. revision \in Nat
    BY <1>1 DEF CacheInv
  <2>4. QED BY <1>3, <2>1, <2>2, <2>3 DEF JobInv
<1>5. CASE UNCHANGED summaryCache
  BY <1>3, <1>4, <1>5 DEF RowsInv
<1>6. CASE ~UNCHANGED summaryCache
  <2>1. PICK sg, rs, c : sg = Rows!Signature /\ rs = summaryJob.rows /\ c = summaryJob.counted
    OBVIOUS
  <2>2. /\ summaryJob.revision = revision
        /\ summaryCache' = [known |-> TRUE, rows |-> rs, counted |-> c, revision |-> revision, signature |-> sg]
    BY <1>6, <2>1 DEF Rows!SummaryCounted
  <2>3. summaryCache'.rows = rs /\ summaryCache'.counted = c /\ summaryCache'.revision = revision
    BY <2>2
  <2>4. JobCounts
    BY <1>1, <1>2, <2>2 DEF JobInv
  <2>5. DOMAIN <<>> = {}
    OBVIOUS
  <2>6. \A i \in DOMAIN docFolders :
          /\ <<docFolders[i].id, docFolders[i].path>> \in rs
          /\ \A n \in DOMAIN Rows!Entries(manifest, docFolders[i].id) : Finds(docFolders[i].id, n) \in c
    BY <1>2, <2>1, <2>4, <2>5 DEF JobCounts
  <2>7. rs = AllRows /\ \A x \in c : IsFound(x)
    BY <2>1, <2>4, <2>6 DEF JobCounts, AllRows
  <2>8. CacheCounts'
    <3>1. summaryCache'.rows = AllRows' /\ \A x \in summaryCache'.counted : IsFound(x)'
      BY <1>3, <2>3, <2>7
    <3>2. \A i \in DOMAIN docFolders' : \A n \in DOMAIN Rows!Entries(manifest', docFolders'[i].id) :
            <<docFolders'[i].id, n, manifest'[docFolders'[i].id][n].status,
                     manifest'[docFolders'[i].id][n].kept>> \in summaryCache'.counted
      BY <1>3, <2>3, <2>6 DEF Finds, Rows!Entries
    <3>3. QED BY <3>1, <3>2, Zenon DEF CacheCounts, Finds
  <2>9. revision \in Nat
    BY <1>1 DEF CacheInv
  <2>10. CacheInv'
    BY <1>3, <2>3, <2>8, <2>9 DEF CacheInv
  <2>11. QED BY <1>3, <1>4, <2>10 DEF RowsInv
<1>7. QED BY <1>5, <1>6

LEMMA RowsStep ==
  ASSUME RecordHabits = {}, RowsInv, [Rows!RecordsStep]_(Rows!vars)
  PROVE  RowsInv'
<1>1. CASE Rows!CountSummary \/ Rows!CountFolder \/ Rows!CountEntries \/ Rows!SummaryCounted
  BY <1>1, CountBegins, CountGoesOn, CountPortionHolds, CountEnds
<1>2. CASE \E p \in LocalPaths : \E only \in {{}} \cup {{n} : n \in RowNames} : Rows!AddRow(p, only)
  BY <1>2, AddRowHolds
<1>3. CASE \E p \in LocalPaths : Rows!AddAgain(p)
  BY <1>3, AddAgainHolds
<1>4. CASE \E id \in Rows!FolderIds :
             \/ \E p \in LocalPaths : Rows!Reconnect(id, p)
             \/ \E deleted \in BOOLEAN : Rows!RemoveRow(id, deleted)
             \/ Rows!Toggle(id) \/ Rows!Begin(id)
             \/ \E n \in RowNames : Rows!MarkDirty(id, n) \/ Rows!MarkDeleted(id, n) \/ Rows!ForgetEntry(id, n)
  <2>1. PICK id \in Rows!FolderIds :
             \/ \E p \in LocalPaths : Rows!Reconnect(id, p)
             \/ \E deleted \in BOOLEAN : Rows!RemoveRow(id, deleted)
             \/ Rows!Toggle(id) \/ Rows!Begin(id)
             \/ \E n \in RowNames : Rows!MarkDirty(id, n) \/ Rows!MarkDeleted(id, n) \/ Rows!ForgetEntry(id, n)
    BY <1>4
  <2>2. CASE \E p \in LocalPaths : Rows!Reconnect(id, p)
    BY <2>2, ReconnectHolds
  <2>3. CASE \E deleted \in BOOLEAN : Rows!RemoveRow(id, deleted)
    BY <2>3, RemoveRowHolds
  <2>4. CASE Rows!Toggle(id)
    BY <2>4, ToggleHolds
  <2>5. CASE Rows!Begin(id)
    BY <2>5, BeginHolds
  <2>6. CASE \E n \in RowNames : Rows!MarkDirty(id, n) \/ Rows!MarkDeleted(id, n) \/ Rows!ForgetEntry(id, n)
    BY <2>6, EntriesHold
  <2>7. QED BY <2>1, <2>2, <2>3, <2>4, <2>5, <2>6
<1>5. CASE \E n \in RowNames : \E status \in {"backed_up", "failed"} : Rows!Record(n, status)
  BY <1>5, EntriesHold
<1>6. CASE \E ok \in BOOLEAN : Rows!RunEnds(ok)
  BY <1>6, RunEndHolds
<1>7. CASE Rows!SourceMissing \/ Rows!PauseRun
  BY <1>7, SourceMissingHolds, PauseHolds
<1>8. CASE UNCHANGED Rows!vars
  <2>1. /\ UNCHANGED <<docFolders, manifest, docPoints, revision, working, stopped, whole, given>>
        /\ UNCHANGED summaryCache /\ UNCHANGED summaryJob
    BY <1>8 DEF Rows!vars, Rows!rowVars, Rows!summaryVars
  <2>2. PlacesInv' /\ WishesInv' /\ CacheInv'
    BY <2>1, OnlyCounts
  <2>3. JobInv
    BY DEF RowsInv
  <2>4. JobInv'
    BY <2>1, <2>3 DEF JobInv, JobCounts, AllRows, IsFound, Finds, Rows!Entries, Rows!FolderIds
  <2>5. QED BY <2>2, <2>4 DEF RowsInv
<1>9. QED BY <1>1, <1>2, <1>3, <1>4, <1>5, <1>6, <1>7, <1>8, Zenon DEF Rows!RecordsStep

LEMMA RowsAreWhole ==
  ASSUME RowsInv
  PROVE  Rows!RecordsHold
<1>1. /\ RowsTyped /\ ManifestInv /\ RowPointsInv /\ CacheInv /\ ApartInv /\ PausedInv /\ WholeInv
  BY DEF RowsInv, PlacesInv, WishesInv
<1>2. Rows!WholeStaysWhole
  BY <1>1 DEF Rows!WholeStaysWhole, WholeInv
<1>3. Rows!PausedWasStopped
  BY <1>1 DEF Rows!PausedWasStopped, PausedInv
<1>4. Rows!RowsApart
  BY <1>1 DEF Rows!RowsApart, ApartInv, ManifestInv
<1>5. Rows!RowsMoveTogether
  <2>1. ASSUME NEW id \in Rows!FolderIds, NEW n \in DOMAIN Rows!Entries(manifest, id)
        PROVE  manifest[id][n].root \in {"none", Rows!Folder(id).path}
    <3>1. DOMAIN <<>> = {}
      OBVIOUS
    <3>2. id \in DOMAIN manifest /\ n \in DOMAIN manifest[id]
      BY <2>1, <3>1 DEF Rows!Entries
    <3>3. PICK i \in DOMAIN docFolders : docFolders[i].id = id /\ Rows!Folder(id) = docFolders[i]
      BY <1>1, FolderOf
    <3>4. QED BY <1>1, <3>2, <3>3 DEF ManifestInv
  <2>2. ASSUME NEW i \in DOMAIN docPoints, docPoints[i].folder \in Rows!FolderIds
        PROVE  docPoints[i].path = Rows!Folder(docPoints[i].folder).path
    <3>1. PICK k \in DOMAIN docFolders :
            docFolders[k].id = docPoints[i].folder /\ Rows!Folder(docPoints[i].folder) = docFolders[k]
      BY <1>1, <2>2, FolderOf
    <3>2. QED BY <1>1, <3>1 DEF RowPointsInv
  <2>3. QED BY <2>1, <2>2 DEF Rows!RowsMoveTogether
<1>6. Rows!SummaryIsCurrent
  <2>1. SUFFICES ASSUME Rows!CacheHolds
                 PROVE  summaryCache.rows = Rows!Summary.rows /\ summaryCache.counted = Rows!Summary.counted
    BY DEF Rows!SummaryIsCurrent
  <2>2. CacheCounts
    BY <1>1, <2>1 DEF Rows!CacheHolds, CacheInv
  <2>3. PICK c : c = UNION {Rows!Counted(docFolders[i].id) : i \in DOMAIN docFolders}
    OBVIOUS
  <2>4. Rows!Summary = [rows |-> AllRows, counted |-> c]
    BY <2>3 DEF Rows!Summary, AllRows
  <2>5. Rows!Summary.rows = AllRows /\ Rows!Summary.counted = c
    BY <2>4
  <2>6. \A x : x \in c <=> IsFound(x)
    BY <2>3 DEF IsFound, Finds, Rows!Counted
  <2>7. \A x : x \in summaryCache.counted <=> IsFound(x)
    BY <2>2 DEF CacheCounts, IsFound
  <2>8. summaryCache.counted = c
    BY <2>6, <2>7
  <2>9. summaryCache.rows = AllRows
    BY <2>2 DEF CacheCounts
  <2>10. QED BY <2>5, <2>8, <2>9
<1>7. QED BY <1>2, <1>3, <1>4, <1>5, <1>6 DEF Rows!RecordsHold

-----------------------------------------------------------------------------
(* The four parts together. *)

LEMMA RunAndRowsMove ==
  ASSUME [Step]_vars
  PROVE  [Progress!Next]_(Progress!progressVars) /\ [Rows!RecordsStep]_(Rows!vars)
<1>1. UNCHANGED progressVars => UNCHANGED Progress!progressVars
  BY DEF progressVars, Progress!progressVars
<1>2. UNCHANGED recordVars => UNCHANGED Rows!vars
  BY DEF recordVars, Rows!vars, Rows!rowVars, Rows!summaryVars
<1>3. UNCHANGED panelVars => UNCHANGED progressVars /\ UNCHANGED recordVars
  BY DEF panelVars
<1>4. CASE PanelNext
  BY <1>1, <1>2, <1>4 DEF PanelNext
<1>5. CASE UNCHANGED panelVars
  BY <1>1, <1>2, <1>3, <1>5
<1>6. QED
  BY <1>4, <1>5 DEF Step, vars, PointsNext, JobsNext, CatalogNext, ReplicasNext, WayNext, vaultVars,
                    PacksNext

\* What the vault, a run, a setup and the rows of the folders promise holds for any
\* accounts, items, places and folders, unless a user ends the pause of a transfer, goes
\* back in the wizard or changes a folder while the worker reads it: the active account
\* has every backed-up file, a run leaves no item behind and counts none twice, what is
\* called set up is whole, watched and scheduled, and the rows of a folder go together.
THEOREM NothingIsLeftBehind ==
  ASSUME ~UserResumes, SetupFaults \subseteq {"password"}, RecordHabits = {}
  PROVE  Spec => []NothingLeftBehind
<1> DEFINE IInv == ReplicasInv /\ SetupInv /\ RunInv /\ RowsInv
<1>1. /\ R!ReplicasAssumption /\ Setup!SetupAssumption /\ Progress!RunAssumption
  BY RecoveryAssumption
<1>2. Init => IInv
  BY <1>1, ReplicasInitially, SetupInitially, RunInitially, RowsInitially DEF Init
<1>3. IInv /\ [Step]_vars => IInv'
  <2> SUFFICES ASSUME IInv, [Step]_vars PROVE IInv'
    OBVIOUS
  <2>1. ReplicasInv'
    BY <1>1, VaultMoves, ReplicasStep
  <2>2. SetupInv'
    BY <1>1, OwnPartsMove, SetupStepHolds
  <2>3. RunInv'
    BY <1>1, RunAndRowsMove, RunStep
  <2>4. RowsInv'
    BY RunAndRowsMove, RowsStep
  <2>5. QED BY <2>1, <2>2, <2>3, <2>4
<1>4. IInv => NothingLeftBehind
  <2> SUFFICES ASSUME IInv PROVE NothingLeftBehind
    OBVIOUS
  <2>1. R!NothingLeftBehind
    BY DEF ReplicasInv
  <2>2. Setup!SetupHolds
    BY SetupIsWhole
  <2>3. Progress!RunIsAccounted
    BY <1>1, RunIsWhole
  <2>4. Rows!RecordsHold
    BY RowsAreWhole
  <2>5. QED BY <2>1, <2>2, <2>3, <2>4 DEF NothingLeftBehind
<1>5. QED BY <1>2, <1>3, <1>4, PTL DEF Spec, Step
=============================================================================
