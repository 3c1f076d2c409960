----------------------------- MODULE NetworkDrive -----------------------------
(***************************************************************************)
(* The Network Drive as a user of one PC meets the others: browsing their  *)
(* folders page by page with a cache, and dropping files and texts into    *)
(* their inboxes.  LanPeers is how the PCs find and trust each other, and  *)
(* LanTransfers the queue behind the drops; the two parts of this module   *)
(* share no variable.                                                      *)
(***************************************************************************)
EXTENDS Naturals, FiniteSets, Sequences, SequencesExt, Functions

CONSTANTS PeerPCs,       \* the other PCs
          NoPC,
          Pages,         \* pages of a folder
          MaxMoves,      \* bound on what the user does
          MaxEvents,     \* bound on what the other PCs do
          BrowseFaults,  \* "lost": a PC vanishes while it is asked;
                         \* "hasty": the user goes on while something is loaded
          Inboxes,       \* folders that may be the inbox of the other PC
          MaxDrops,
          SameSecond     \* two texts may arrive within one second

DriveAssumption ==
  /\ NoPC \notin PeerPCs /\ {Pages, MaxMoves, MaxEvents, MaxDrops} \subseteq Nat /\ Pages > 0
  /\ BrowseFaults \subseteq {"lost", "hasty"} /\ SameSecond \in BOOLEAN

VARIABLES seen,      \* PCs that discovery knows, and the list shown
          paired,    \* trusted by this PC
          admits,    \* those that trust this PC
          selected, drivesOf, path, items, more, loading, loadingMore,
          pages,     \* folderCache
          asks,      \* requests under way; `now' is whether listRequestSeq is still theirs
          moves, events

\* A drive and one folder in it; "" is the list of drives.
Paths == {"drive", "folder"}
browseVars == <<seen, paired, admits, selected, drivesOf, path, items, more, loading, loadingMore,
                pages, asks, moves, events>>

Item == [pc : PeerPCs, path : Paths, page : 1..Pages]
BrowseTypeOK ==
  /\ seen \subseteq PeerPCs /\ paired \subseteq PeerPCs /\ admits \subseteq PeerPCs
  /\ selected \in PeerPCs \cup {NoPC} /\ drivesOf \in PeerPCs \cup {NoPC} /\ path \in Paths \cup {""}
  /\ items \in Seq(Item) /\ {more, loading, loadingMore} \subseteq BOOLEAN
  /\ pages \in [PeerPCs \X Paths -> Seq(Item)]
  /\ \A i \in DOMAIN asks :
       asks[i] \in [pc : PeerPCs, path : Paths \cup {""}, page : 1..Pages, now : BOOLEAN]
  /\ moves \in 0..MaxMoves /\ events \in 0..MaxEvents

BrowseInit ==
  /\ seen = PeerPCs /\ paired \in SUBSET PeerPCs /\ admits = paired
  /\ selected = NoPC /\ drivesOf = NoPC /\ path = "" /\ items = <<>> /\ more = FALSE
  /\ loading = FALSE /\ loadingMore = FALSE /\ pages = [k \in PeerPCs \X Paths |-> <<>>]
  /\ asks = <<>> /\ moves = 0 /\ events = 0

Move == moves < MaxMoves /\ moves' = moves + 1
Event == events < MaxEvents /\ events' = events + 1

\* ++listRequestSeq: what was asked before is answered in vain.
Outdated == [i \in DOMAIN asks |-> [asks[i] EXCEPT !.now = FALSE]]
Ask(pc, p, page) == Append(Outdated, [pc |-> pc, path |-> p, page |-> page, now |-> TRUE])

NothingShown == path' = "" /\ items' = <<>> /\ more' = FALSE

\* "hasty" alone lets the user select a PC while something is loaded, or take a cached
\* folder while another page is.
Patient(atOnce) == "hasty" \in BrowseFaults \/ (atOnce => ~loadingMore)

\* loadDrives; its answer is taken whatever was asked since.
LoadDrives(pc) == asks' = Ask(pc, "", 1) /\ loading' = TRUE

SelectPeer(pc) ==
  /\ pc \in seen /\ Move /\ Patient(TRUE) /\ ("hasty" \in BrowseFaults \/ ~loading)
  /\ selected' = pc /\ drivesOf' = NoPC /\ NothingShown
  /\ IF pc \in paired THEN LoadDrives(pc) ELSE UNCHANGED <<asks, loading>>
  /\ UNCHANGED <<seen, paired, admits, loadingMore, pages, events>>

\* The other PC serves whom it trusts, and only while it is there.
Served(r) == r.pc \in admits /\ r.pc \in seen

DrivesArrive(i) ==
  LET r == asks[i] IN
  /\ r.path = "" /\ asks' = RemoveAt(asks, i) /\ loading' = FALSE
  /\ IF Served(r) THEN drivesOf' = r.pc /\ NothingShown
                  ELSE UNCHANGED <<drivesOf, path, items, more>>
  /\ UNCHANGED <<seen, paired, admits, selected, loadingMore, pages, moves, events>>

\* loadDirectoryPage: a cached folder is shown as it was; otherwise its first page is
\* asked for.
Cached(p) == pages[<<selected, p>>] # <<>>
LoadFolder(p, force) ==
  IF ~force /\ Cached(p)
  THEN /\ asks' = Outdated /\ path' = p /\ items' = pages[<<selected, p>>]
       /\ more' = (Len(pages[<<selected, p>>]) < Pages) /\ UNCHANGED loading
  ELSE /\ asks' = Ask(selected, p, 1) /\ loading' = TRUE
       /\ path' = p /\ items' = <<>> /\ more' = FALSE

\* The buttons of the view wait for the first page, and are there for a paired PC.
Browsing == selected \in paired /\ ~loading

\* A drive of the list, or the folder that the drive's items show.
OpenFolder(p) ==
  /\ Browsing /\ Move /\ Patient(Cached(p))
  /\ IF p = "drive" THEN path = "" /\ drivesOf # NoPC ELSE path = "drive" /\ items # <<>>
  /\ LoadFolder(p, FALSE)
  /\ UNCHANGED <<seen, paired, admits, selected, drivesOf, loadingMore, pages, events>>

GoToDrives ==
  /\ Browsing /\ path # "" /\ Move
  /\ NothingShown /\ asks' = Outdated /\ loading' = FALSE /\ loadingMore' = FALSE
  /\ UNCHANGED <<seen, paired, admits, selected, drivesOf, pages, events>>

\* goUp from a drive is GoToDrives.
GoUp ==
  /\ Browsing /\ path = "folder" /\ Move /\ Patient(Cached("drive"))
  /\ LoadFolder("drive", FALSE)
  /\ UNCHANGED <<seen, paired, admits, selected, drivesOf, loadingMore, pages, events>>

Refresh ==
  /\ Browsing /\ Move
  /\ IF path = "" THEN LoadDrives(selected) /\ UNCHANGED <<path, items, more, pages>>
     ELSE pages' = [pages EXCEPT ![<<selected, path>>] = <<>>] /\ LoadFolder(path, TRUE)
  /\ UNCHANGED <<seen, paired, admits, selected, drivesOf, loadingMore, events>>

LoadMore ==
  /\ Browsing /\ path # "" /\ more /\ ~loadingMore /\ Move
  /\ asks' = Ask(selected, path, Len(items) + 1) /\ loadingMore' = TRUE
  /\ UNCHANGED <<seen, paired, admits, selected, drivesOf, path, items, more, loading, pages, events>>

\* The first page replaces what is shown, the others are added to it.
Joined(r) == (IF r.page = 1 THEN <<>> ELSE items) \o <<[pc |-> r.pc, path |-> r.path, page |-> r.page]>>

\* listDir: are there items after this page?
HasMore(r) == r.page < Pages

\* Mutant: every answer counts.
AwaitedAlways(r) == TRUE

\* Only the answer to the last question counts.
Awaited(r) == r.now

PageArrives(i) ==
  LET r == asks[i] IN
  /\ r.path # "" /\ asks' = RemoveAt(asks, i)
  /\ IF ~Awaited(r) THEN UNCHANGED <<items, more, pages, loading, loadingMore>>
     ELSE /\ loading' = FALSE /\ loadingMore' = FALSE
          /\ IF Served(r)
             THEN /\ items' = Joined(r) /\ more' = HasMore(r)
                  /\ pages' = [pages EXCEPT ![<<r.pc, r.path>>] = Joined(r)]
             ELSE UNCHANGED <<items, more, pages>>
  /\ UNCHANGED <<seen, paired, admits, selected, drivesOf, path, moves, events>>

\* 'lan:peers': who is selected and gone is selected no more.
Deselected(gone) ==
  IF selected \in gone
  THEN selected' = NoPC /\ drivesOf' = NoPC /\ NothingShown
  ELSE UNCHANGED <<selected, drivesOf, path, items, more>>
PeerLost(pc) ==
  /\ pc \in seen /\ Event
  /\ "lost" \in BrowseFaults \/ \A i \in DOMAIN asks : asks[i].pc # pc
  /\ seen' = seen \ {pc} /\ Deselected({pc})
  /\ UNCHANGED <<paired, admits, loading, loadingMore, pages, asks, moves>>
PeerFound(pc) ==
  /\ pc \notin seen /\ Event /\ seen' = seen \cup {pc}
  /\ UNCHANGED <<paired, admits, selected, drivesOf, path, items, more, loading, loadingMore, pages,
                 asks, moves>>

\* requestPair and respondPair end well; either side forgets.
Pair(pc) ==
  /\ pc \in seen \ paired /\ Move /\ paired' = paired \cup {pc} /\ admits' = admits \cup {pc}
  /\ UNCHANGED <<seen, selected, drivesOf, path, items, more, loading, loadingMore, pages, asks, events>>
Forget(pc) ==
  /\ \/ pc \in paired /\ Move /\ paired' = paired \ {pc} /\ UNCHANGED <<admits, events>>
     \/ pc \in admits /\ Event /\ admits' = admits \ {pc} /\ UNCHANGED <<paired, moves>>
  /\ UNCHANGED <<seen, selected, drivesOf, path, items, more, loading, loadingMore, pages, asks>>

\* The user switches the Network Drive off; others are found when it is on again.
Disable ==
  /\ Move /\ ("lost" \in BrowseFaults \/ asks = <<>>)
  /\ seen' = {} /\ selected' = NoPC /\ drivesOf' = NoPC /\ NothingShown
  /\ pages' = [k \in PeerPCs \X Paths |-> <<>>]
  /\ UNCHANGED <<paired, admits, loading, loadingMore, asks, events>>

BrowseStep ==
  \/ GoToDrives \/ GoUp \/ Refresh \/ LoadMore \/ Disable
  \/ \E i \in DOMAIN asks : DrivesArrive(i) \/ PageArrives(i)
  \/ \E p \in Paths : OpenFolder(p)
  \/ \E pc \in PeerPCs : SelectPeer(pc) \/ PeerLost(pc) \/ PeerFound(pc) \/ Pair(pc) \/ Forget(pc)

\* What is shown is of the selected PC and the folder named above it, from the first
\* page on and none twice; so is what the cache would show.
ShownIsSelected ==
  /\ drivesOf # NoPC => drivesOf = selected
  /\ path # "" => \A i \in DOMAIN items : items[i] = [pc |-> selected, path |-> path, page |-> i]
  /\ \A k \in PeerPCs \X Paths : \A i \in DOMAIN pages[k] :
       pages[k][i] = [pc |-> k[1], path |-> k[2], page |-> i]

\* The panel says that it is loading only while an answer is due.
LoadingEnds == loading \/ loadingMore => asks # <<>>

-----------------------------------------------------------------------------
(* Quick Drop: files and texts of one PC in the inbox of another. *)

VARIABLES dropOn, inbox, made,   \* the receiver's settings and the folders that exist
          dropFiles,             \* what lies in them
          recents, second,
          drops, queued, upload, \* the sender's jobs, and the one that is received
          told,                  \* drops the sender shows as complete
          spared                 \* those of them skipped, or replaced as the user asked
dropVars == <<dropOn, inbox, made, dropFiles, recents, second, drops, queued, upload, told, spared>>

Drops      == 1..MaxDrops
Strategies == {"keepBoth", "replace", "skip"}
Numbers    == 0..MaxDrops
DropJob    == [drop : Drops, folder : Inboxes, text : BOOLEAN, conflict : Strategies]
\* The files dropped have one name, so all of them collide; texts are named by the second.
DropFile   == [folder : Inboxes, text : BOOLEAN, number : Numbers, drop : Drops, whole : BOOLEAN]

DropTypeOK ==
  /\ dropOn \in BOOLEAN /\ inbox \in Inboxes /\ made \subseteq Inboxes /\ dropFiles \subseteq DropFile
  /\ recents \in Seq(Drops) /\ {second, drops} \subseteq 0..MaxDrops /\ told \subseteq Drops /\ spared \subseteq Drops
  /\ queued \in Seq(DropJob) /\ upload \in {<<>>} \cup (DropJob \X Numbers)

DropInit ==
  /\ dropOn = TRUE /\ inbox \in Inboxes /\ made = {} /\ dropFiles = {} /\ recents = <<>>
  /\ second = 0 /\ drops = 0 /\ queued = <<>> /\ upload = <<>> /\ told = {} /\ spared = {}

\* lan:setDropSettings and lan:openDropInbox on the receiver.
SetEnabled ==
  /\ dropOn' = ~dropOn
  /\ UNCHANGED <<inbox, made, dropFiles, recents, second, drops, queued, upload, told, spared>>
SetInbox(f) ==
  /\ inbox' = f /\ made' = made \cup {f}
  /\ UNCHANGED <<dropOn, dropFiles, recents, second, drops, queued, upload, told, spared>>
OpenInbox ==
  /\ made' = made \cup {inbox}
  /\ UNCHANGED <<dropOn, inbox, dropFiles, recents, second, drops, queued, upload, told, spared>>

\* checkDropStatus before the job is queued: the job keeps the inbox of that moment.
QueueDrop(text, conflict) ==
  /\ dropOn /\ drops < MaxDrops /\ drops' = drops + 1
  /\ queued' = Append(queued, [drop |-> drops', folder |-> inbox, text |-> text, conflict |-> conflict])
  /\ UNCHANGED <<dropOn, inbox, made, dropFiles, recents, second, upload, told, spared>>

Job == queued[1]
Done == queued' = Tail(queued) /\ told' = told \cup {Job.drop}
Named(f, text, n) == {x \in dropFiles : x.folder = f /\ x.text = text /\ x.number = n}

\* addRecentDrop, the newest first.
AddRecent(d) == recents' = <<d>> \o recents

\* POST /drop/text: into the inbox of now, over what has the name of this second.
TextArrives(s) ==
  /\ queued # <<>> /\ Job.text /\ dropOn /\ s \in {second, second + 1} /\ s <= MaxDrops
  /\ SameSecond \/ s # second
  /\ second' = s /\ made' = made \cup {inbox} /\ AddRecent(Job.drop)
  /\ dropFiles' = (dropFiles \ Named(inbox, TRUE, s))
        \cup {[folder |-> inbox, text |-> TRUE, number |-> s, drop |-> Job.drop, whole |-> TRUE]}
  /\ Done /\ UNCHANGED <<dropOn, inbox, drops, upload, spared>>

\* isPathAllowed: the inbox of now; the older ones are not shared.
Allowed(f) == f = inbox

\* Mutant: the name asked for.
FreeNumberNone(f) == 0

\* getAvailablePath.
FreeNumber(f) == CHOOSE n \in Numbers : /\ Named(f, FALSE, n) = {}
                                        /\ \A k \in 0..n : Named(f, FALSE, k) = {} => k = n
Taken(f) == Named(f, FALSE, 0) # {}

\* POST /upload up to the first byte.
UploadStarts ==
  /\ queued # <<>> /\ ~Job.text /\ upload = <<>> /\ Allowed(Job.folder)
  /\ ~(Job.conflict = "skip" /\ Taken(Job.folder))
  /\ made' = made \cup {Job.folder}
  /\ LET replaces == Job.conflict = "replace"
         n == IF replaces THEN 0 ELSE FreeNumber(Job.folder)
         gone == IF replaces THEN Named(Job.folder, FALSE, 0) ELSE {} IN
     /\ upload' = <<Job, n>> /\ spared' = spared \cup {x.drop : x \in {y \in gone : y.whole}}
     /\ dropFiles' = (dropFiles \ gone)
           \cup {[folder |-> Job.folder, text |-> FALSE, number |-> n, drop |-> Job.drop, whole |-> FALSE]}
  /\ UNCHANGED <<dropOn, inbox, recents, second, drops, queued, told>>

UploadSkipped ==
  /\ queued # <<>> /\ ~Job.text /\ upload = <<>> /\ Allowed(Job.folder)
  /\ Job.conflict = "skip" /\ Taken(Job.folder)
  /\ made' = made \cup {Job.folder} /\ Done /\ spared' = spared \cup {Job.drop}
  /\ UNCHANGED <<dropOn, inbox, dropFiles, recents, second, drops, upload>>

\* The whole file is there; it is a drop if its folder still is the inbox.
UploadEnds ==
  /\ upload # <<>> /\ upload' = <<>> /\ Done
  /\ dropFiles' = {[x EXCEPT !.whole = @ \/ x \in Named(Job.folder, FALSE, upload[2])] : x \in dropFiles}
  /\ IF Job.folder = inbox THEN AddRecent(Job.drop) ELSE UNCHANGED recents
  /\ UNCHANGED <<dropOn, inbox, made, second, drops, spared>>

\* The job fails: refused, or the connection breaks; what was received of it stays.  It
\* is cleared, or tried again into the same folder (until something was received).
DropFails(again) ==
  /\ queued # <<>>
  /\ \/ Job.text /\ ~dropOn
     \/ ~Job.text /\ (upload # <<>> \/ ~Allowed(Job.folder))
  /\ upload' = <<>>
  /\ again => \A x \in dropFiles : x.whole \/ x.drop # Job.drop
  /\ queued' = IF again THEN Tail(queued) \o <<Job>> ELSE Tail(queued)
  /\ UNCHANGED <<dropOn, inbox, made, dropFiles, recents, second, drops, told, spared>>

DropStep ==
  \/ SetEnabled \/ OpenInbox \/ UploadStarts \/ UploadSkipped \/ UploadEnds
  \/ \E f \in Inboxes : SetInbox(f)
  \/ \E text \in BOOLEAN, conflict \in Strategies :
       (text => conflict = "keepBoth") /\ QueueDrop(text, conflict)
  \/ \E s \in 0..MaxDrops : TextArrives(s)
  \/ \E again \in BOOLEAN : DropFails(again)

\* What the sender shows as dropped is whole in a folder of the other PC, under a name of
\* its own, unless it was skipped or replaced as the sender asked; and the receiver's
\* list of recent drops names only drops that arrived, each once.
DropsKept ==
  /\ \A d \in told \ spared : \E x \in dropFiles : x.drop = d /\ x.whole /\ x.folder \in made
  /\ \A x, y \in dropFiles :
       x.folder = y.folder /\ x.text = y.text /\ x.number = y.number => x.drop = y.drop
  /\ ToSet(recents) \subseteq told /\ IsInjective(recents)
==============================================================================
