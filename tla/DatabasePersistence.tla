------------------------- MODULE DatabasePersistence -------------------------
(***************************************************************************)
(* How main/database.js keeps its JSON document: the primary file and its  *)
(* .bak copy, the synchronous save of a small database, the debounced      *)
(* asynchronous writer of a large one, flushes, loading with recovery, and *)
(* the process ending between any two file operations.                     *)
(*                                                                         *)
(* The document is the number of mutations it contains.  A file holds one, *)
(* or is unreadable (missing, truncated, being overwritten).  The code     *)
(* between two awaits is one action; a synchronous save and the load are   *)
(* several steps during which nothing else in the program runs, so that a  *)
(* crash can fall between them.  A write batch saves once when it ends: it *)
(* is one mutation here.                                                   *)
(***************************************************************************)
EXTENDS Naturals, FiniteSets, FiniteSetsExt

CONSTANTS MaxRevision,  \* bound: mutations made
          Faults        \* what goes wrong

RevisionAssumption == MaxRevision \in Nat
FaultsAssumption ==
  Faults \subseteq {"crash", "power", "fsync", "copy", "save", "load", "transient"}

Revisions == 0 .. MaxRevision

VARIABLES
  data,       \* the document in memory; what a restart finds when not up
  up,         \* the program runs
  primary, backup, temp,   \* labsuite_db.json, its .bak, the file written
  knownGood,  \* primaryIsKnownGood
  large,      \* preferAsyncPersistence
  requested, persisted,    \* requestedWriteRevision, persistedWriteRevision
  timer,      \* asyncWriteTimer is set
  error,      \* asyncWriteError is set
  waiters,    \* documents flushes wait for
  writer,     \* the save in progress
  accepted,   \* (ghost) last document whose mutation returned normally
  acked,      \* (ghost) last document a flush acknowledged
  reported    \* (ghost) a caller was told of a failure, all of "data" was not saved since

files   == <<primary, backup, temp>>
control == <<knownGood, large, requested, persisted, timer, error, waiters>>
ghosts  == <<accepted, acked, reported>>
vars    == <<data, up, files, control, writer, ghosts>>

File       == [ok : BOOLEAN, doc : Revisions, synced : BOOLEAN]
Unreadable == [ok |-> FALSE, doc |-> 0, synced |-> TRUE]
Good(d)    == [ok |-> TRUE, doc |-> d, synced |-> TRUE]

Idle == [mode |-> "none", step |-> "idle", revision |-> 0, from |-> 0, try |-> 0]

\* Mutant: the recovery copy comes first.
SourceBackupFirst == IF backup.ok THEN backup ELSE primary

\* getReadableDatabaseSource
Source    == IF primary.ok THEN primary ELSE backup
Recovered == Source.doc

\* The thread is inside a synchronous save.
Blocked == writer.mode \in {"sync", "load"}

Init ==
  /\ up = FALSE /\ data = 0
  /\ primary \in {Unreadable, Good(0)} /\ backup \in {Unreadable, Good(0)} /\ temp = Unreadable
  /\ knownGood = FALSE /\ large = FALSE
  /\ requested = 0 /\ persisted = 0 /\ timer = FALSE /\ error = FALSE /\ waiters = {}
  /\ writer = Idle
  /\ accepted = 0 /\ acked = 0 /\ reported = FALSE

-----------------------------------------------------------------------------
(* One save: copy the primary to .bak, write a temporary file, rename it.  *)

\* The copy is made only of a primary that was read (sync) or is known to
\* be good (async); while it is made the .bak is not readable.  A copy that
\* fails, here at once, is only logged.
Begin(mode, revision, try, doc, copies) ==
  \E copying \in IF ~copies THEN {FALSE} ELSE IF "copy" \in Faults THEN BOOLEAN ELSE {TRUE} :
    /\ writer' = [mode |-> mode, step |-> IF copying THEN "copy" ELSE "write",
                  revision |-> revision, from |-> doc, try |-> try]
    /\ backup' = IF copying THEN Unreadable ELSE backup

\* Mutant: an unreadable primary is copied over the .bak too.
BeginSyncUnread(mode, try, doc) == Begin(mode, 0, try, doc, TRUE)

\* Mutant: the revision is counted one too high.
BeginAsyncNext == Begin("async", requested + 1, 0, data, knownGood)

BeginSync(mode, try, doc) == Begin(mode, 0, try, doc, primary.ok)
BeginAsync                == Begin("async", requested, 0, data, knownGood)

Copy ==
  /\ writer.step = "copy"
  /\ \/ backup' = [primary EXCEPT !.synced = FALSE]
     \/ "copy" \in Faults /\ UNCHANGED backup
  /\ writer' = [writer EXCEPT !.step = "write", !.from = data]
  /\ UNCHANGED <<data, up, primary, temp, control, ghosts>>

\* The asynchronous writer serializes the live document: the file is
\* certain to hold what was there when it began.  A failed sync is logged.
Write ==
  /\ writer.step = "write"
  /\ \E synced \in IF "fsync" \in Faults THEN BOOLEAN ELSE {TRUE} :
       temp' = [Good(writer.from) EXCEPT !.synced = synced]
  /\ writer' = [writer EXCEPT !.step = "rename"]
  /\ UNCHANGED <<data, up, primary, backup, control, ghosts>>

\* Mutant: what was requested meanwhile counts as saved.
RequestedRevision == requested

SavedRevision == writer.revision

\* What makes a save of a load fail (a full disk) lasts for that load,
\* unless failures are transient (a locked file).
Rename ==
  /\ writer.step = "rename"
  /\ writer.try > 1 => "transient" \in Faults
  /\ primary' = temp /\ temp' = Unreadable /\ knownGood' = TRUE
  /\ \/ /\ Blocked
        /\ writer' = Idle /\ up' = TRUE
        /\ accepted' = data /\ reported' = FALSE
        /\ large' \in {large, TRUE}
        /\ UNCHANGED persisted
     \/ /\ ~Blocked
        /\ persisted' = SavedRevision
        /\ writer' = [writer EXCEPT !.step = "check"]
        /\ UNCHANGED <<up, large, accepted, reported>>
  /\ UNCHANGED <<data, backup, requested, timer, error, waiters, acked>>

Saving == writer.step \in {"write", "rename"}

\* A synchronous save throws to the caller of the mutation.
SyncSaveFails ==
  /\ "save" \in Faults /\ Saving /\ writer.mode = "sync"
  /\ writer' = Idle /\ temp' = Unreadable /\ reported' = TRUE
  /\ UNCHANGED <<data, up, primary, backup, control, accepted, acked>>

\* An asynchronous one rejects the flushes and keeps the error for later.
AsyncSaveFails ==
  /\ "save" \in Faults /\ Saving /\ writer.mode = "async"
  /\ error' = TRUE /\ waiters' = {}
  /\ writer' = [writer EXCEPT !.step = "settled"] /\ temp' = Unreadable
  /\ UNCHANGED <<data, up, primary, backup, knownGood, large, requested, persisted, timer,
                 ghosts>>

\* While loading (try 1), the error is taken for a damaged database: the .bak
\* is loaded and saved (2), and if that fails the defaults are (3; 0 when
\* nothing was found).  When those cannot be saved either, the load throws.
LoadSaveFails ==
  /\ "load" \in Faults /\ Saving /\ writer.mode = "load"
  /\ temp' = Unreadable
  /\ IF writer.try \in {0, 3}
     THEN /\ writer' = Idle /\ data' = Recovered /\ UNCHANGED <<backup, knownGood>>
     ELSE LET next == IF writer.try = 1 /\ backup.ok THEN 2 ELSE 3
          IN  /\ data' = IF next = 2 THEN backup.doc ELSE 0
              /\ knownGood' = (next = 3 /\ knownGood)
              /\ BeginSync("load", next, data')
  /\ UNCHANGED <<up, primary, large, requested, persisted, timer, error, waiters, ghosts>>

-----------------------------------------------------------------------------
(* Loading.                                                                *)

\* A readable source is saved again when it is not the primary or when the
\* document was migrated; without one the defaults are saved.
Start ==
  /\ ~up /\ writer = Idle
  /\ large' \in IF Source.ok THEN BOOLEAN ELSE {FALSE}
  /\ data' = Recovered /\ accepted' = data'
  /\ knownGood' = primary.ok
  /\ error' = FALSE /\ persisted' = 0 /\ waiters' = {} /\ reported' = FALSE
  /\ \/ /\ primary.ok
        /\ up' = TRUE /\ requested' = 0 /\ timer' = FALSE
        /\ UNCHANGED <<writer, backup>>
     \/ /\ large'
        /\ up' = TRUE /\ requested' = 1 /\ timer' = TRUE
        /\ UNCHANGED <<writer, backup>>
     \/ /\ ~large'
        /\ BeginSync("load", IF Source.ok THEN 1 ELSE 0, data')
        /\ up' = FALSE /\ requested' = 0 /\ timer' = FALSE
  /\ UNCHANGED <<primary, temp, acked>>

Damaged(file) == IF "power" \in Faults /\ ~file.synced THEN {Unreadable} ELSE {}

\* The process ends; when the power fails, what was not synced may be lost.
Crash ==
  /\ "crash" \in Faults /\ (up \/ writer # Idle)
  /\ primary' \in {primary} \cup Damaged(primary)
  /\ backup'  \in {backup} \cup Damaged(backup)
  /\ data' = IF primary'.ok THEN primary'.doc ELSE backup'.doc
  /\ up' = FALSE /\ writer' = Idle /\ temp' = Unreadable
  /\ timer' = FALSE /\ error' = FALSE /\ waiters' = {} /\ requested' = 0 /\ persisted' = 0
  /\ UNCHANGED <<knownGood, large, ghosts>>

-----------------------------------------------------------------------------
(* Mutations, flushes and the asynchronous writer.                         *)

Mutate ==
  /\ up /\ ~Blocked /\ data < MaxRevision
  /\ data' = data + 1
  /\ \/ /\ error   \* the earlier failure is thrown, this save is not requested
        /\ error' = FALSE /\ reported' = TRUE
        /\ UNCHANGED <<writer, backup, requested, timer, accepted>>
     \/ /\ ~error /\ large
        /\ requested' = requested + 1 /\ accepted' = data'
        /\ timer' = (timer \/ writer = Idle)
        /\ UNCHANGED <<writer, backup, error, reported>>
     \/ /\ ~error /\ ~large
        /\ BeginSync("sync", 0, data')
        /\ UNCHANGED <<requested, timer, error, accepted, reported>>
  /\ UNCHANGED <<up, primary, temp, knownGood, large, persisted, waiters, acked>>

TimerFires ==
  /\ up /\ timer
  /\ timer' = FALSE
  /\ BeginAsync
  /\ UNCHANGED <<data, up, primary, temp, knownGood, large, requested, persisted, error,
                 waiters, ghosts>>

Settled == persisted >= requested /\ ~timer /\ writer = Idle

\* No caller flushes again from the continuation of a flush.
Flush ==
  /\ up /\ ~Blocked /\ writer.step # "settled"
  /\ \/ /\ ~large \/ (Settled /\ ~error)
        /\ acked' = accepted
        /\ UNCHANGED <<writer, backup, timer, waiters>>
     \/ /\ large /\ ~Settled
        /\ waiters' = waiters \cup {accepted}
        /\ IF writer = Idle THEN timer' = FALSE /\ BeginAsync
           ELSE UNCHANGED <<writer, backup, timer>>
        /\ UNCHANGED acked
  /\ UNCHANGED <<data, up, primary, temp, knownGood, large, requested, persisted, error,
                 accepted, reported>>

\* After the rename: another pass after a debounce, or the flushes resolve.
Check ==
  /\ writer.step = "check"
  /\ IF persisted < requested
     THEN /\ writer' = [writer EXCEPT !.step = "debounce"]
          /\ UNCHANGED <<error, waiters, acked, reported>>
     ELSE /\ writer' = [writer EXCEPT !.step = "settled"]
          /\ error' = FALSE /\ waiters' = {} /\ reported' = (reported /\ writer.from < data)
          /\ acked' = IF waiters = {} THEN acked ELSE Max(waiters)
  /\ UNCHANGED <<data, up, files, knownGood, large, requested, persisted, timer, accepted>>

NextPass ==
  /\ writer.step = "debounce"
  /\ BeginAsync
  /\ UNCHANGED <<data, up, primary, temp, control, ghosts>>

\* Mutant: a mutation that came before the writer left is forgotten.
LeaveIdle ==
  /\ writer.step = "settled"
  /\ writer' = Idle
  /\ UNCHANGED <<data, up, files, control, ghosts>>

\* A mutation may come before the writer is marked as gone.
Leave ==
  /\ writer.step = "settled"
  /\ IF ~error /\ persisted < requested THEN BeginAsync
     ELSE writer' = Idle /\ UNCHANGED backup
  /\ UNCHANGED <<data, up, primary, temp, control, ghosts>>

-----------------------------------------------------------------------------
WriterSteps == Copy \/ Write \/ Rename \/ Check \/ NextPass \/ Leave

Next ==
  \/ Start \/ Crash
  \/ Mutate \/ Flush \/ TimerFires
  \/ WriterSteps
  \/ SyncSaveFails \/ AsyncSaveFails \/ LoadSaveFails

\* File operations end and timers fire.
Fairness == WF_vars(TimerFires) /\ WF_vars(WriterSteps)

Spec     == Init /\ [][Next]_vars
LiveSpec == Spec /\ Fairness
-----------------------------------------------------------------------------
(* Properties.                                                             *)

\* Every variable keeps the shape the code gives it.
TypeOK ==
  /\ data \in Revisions /\ up \in BOOLEAN
  /\ primary \in File /\ backup \in File /\ temp \in File
  /\ knownGood \in BOOLEAN /\ large \in BOOLEAN
  /\ requested \in 0 .. MaxRevision + 1 /\ persisted \in 0 .. MaxRevision + 1
  /\ timer \in BOOLEAN /\ error \in BOOLEAN /\ waiters \subseteq Revisions
  /\ writer \in [mode : {"none", "sync", "load", "async"},
                 step : {"idle", "copy", "write", "rename", "check", "debounce", "settled"},
                 revision : 0 .. MaxRevision + 1, from : Revisions, try : 0 .. 3]
  /\ accepted \in Revisions /\ acked \in Revisions /\ reported \in BOOLEAN

\* The files keep the promise of DurableStore: a restart finds everything a
\* flush acknowledged and never less than an earlier one would have found,
\* whatever step a crash, a failed copy or a failed save falls on.
Shown == IF up THEN data ELSE Recovered
Store == INSTANCE DurableStore WITH state <- Shown, durable <- Recovered
KeepsPromise == Store!Spec

\* Once there is a readable copy there is one at every instant: the primary
\* and the .bak are never both in flux (database.js:639, never replace a
\* known-good recovery copy with an unreadable primary).
StaysReadable == [][Source.ok => Source.ok']_vars

\* When nothing is scheduled and no caller was told or will be told of a
\* failure, the primary holds the document in memory, although the writer
\* serializes a document that changes under it and mutations that find a
\* writer schedule nothing.
QuietIsSaved ==
  up /\ writer = Idle /\ ~timer /\ ~error /\ ~reported => primary.ok /\ primary.doc = data

\* database.js:694, let callers surface disk-full, permission and rename
\* failures: a save that fails is never answered by storing less than the
\* database held.
FailureKeepsDocument == [][Recovered' >= Recovered]_vars

\* A mutation that waits for the writer is saved in the end, or its failure
\* is known: kept for the next caller or thrown to one.
SavedOrReported ==
  requested > persisted ~> (requested = persisted \/ error \/ reported)
=============================================================================
