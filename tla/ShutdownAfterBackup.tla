------------------------- MODULE ShutdownAfterBackup -------------------------
(***************************************************************************)
(* "Shut down this PC after the backup" (ipc.js).  An armed shutdown waits *)
(* for a run of the backup worker to complete; then Windows is asked for a *)
(* shutdown in three minutes, with watcher and scheduler off, and the      *)
(* countdown can be canceled here or in the panel of planned shutdowns.    *)
(***************************************************************************)
EXTENDS Naturals, FiniteSets

CONSTANTS MaxHandlers,      \* bound: calls of handlers under way; 1: the user waits for each
          ShutdownFaults,   \* what fails: "exe" shutdown.exe /s, "abort" shutdown.exe /a
                            \* with a shutdown ahead, "store" the database
          Careful           \* the user leaves the backups alone in the countdown, and arms
                            \* nothing while a pause is due that no run will make

ShutdownAssumption ==
  MaxHandlers \in Nat \ {0} /\ ShutdownFaults \subseteq {"exe", "abort", "store"} /\ Careful \in BOOLEAN

VARIABLES
  phase, armed, backupCompleted,   \* shutdownAfterBackup
  calls,        \* the handlers that wait, and for what
  windows,      \* Windows is going to shut down: not at all, for a backup, or as planned
  label,        \* power_shutdown_label, while the time is not past
  paused, drain,    \* sync_paused, sync_pause_after_current
  automatic,    \* watcher and scheduler are on
  run,          \* the worker's run
  lastRun,      \* (ghost) how the last run ended since the user armed
  noted         \* (ghost) automatic backups were left off by a failure or the other panel

shutdownVars ==
  <<phase, armed, backupCompleted, calls, windows, label, paused, drain, automatic, run, lastRun,
    noted>>

AfterBackup == "After backup"
Calls == [kind : {"schedule", "plan"}, step : {"exe", "store"}]
           \cup [kind : {"disarm", "cancel"}, step : {"abort", "clear"}]

TypeOK ==
  /\ phase \in {"off", "waiting", "countdown", "error"}
  /\ armed \in BOOLEAN /\ backupCompleted \in BOOLEAN
  /\ calls \subseteq Calls /\ Cardinality(calls) <= MaxHandlers
  /\ windows \in {"none", AfterBackup, "planned"} /\ label \in {"none", AfterBackup, "planned"}
  /\ paused \in BOOLEAN /\ drain \in BOOLEAN /\ automatic \in BOOLEAN /\ noted \in BOOLEAN
  /\ run \in {"none", "running", "stopping"}
  /\ lastRun \in {"none", "clean", "failed", "paused"}

Init ==
  /\ phase = "off" /\ armed = FALSE /\ backupCompleted = FALSE /\ calls = {}
  /\ windows = "none" /\ label = "none" /\ paused = FALSE /\ drain = FALSE /\ automatic = TRUE
  /\ run = "none" /\ lastRun = "none" /\ noted = FALSE

Call(kind, step)  == [kind |-> kind, step |-> step]
Free              == Cardinality(calls) < MaxHandlers
Goes(c, step)     == calls' = (calls \ {c}) \cup {[c EXCEPT !.step = step]}
Ends(c)           == calls' = calls \ {c}
Undisturbed       == Careful => phase # "countdown" /\ calls = {}
Windows           == <<windows, label>>
Worker            == <<paused, drain, automatic, run, lastRun>>
Shown(p, a, done) == phase' = p /\ armed' = a /\ backupCompleted' = done

\* setShutdownAfterBackupFailure
Fail == Shown("error", FALSE, FALSE)

-----------------------------------------------------------------------------
(* The events of the worker. *)

\* By the timers, or at the request of the user.
StartRun ==
  /\ Undisturbed /\ run = "none" /\ ~paused /\ ~drain /\ run' = "running"
  /\ UNCHANGED <<phase, armed, backupCompleted, calls, Windows, paused, drain, automatic, lastRun,
                 noted>>

\* Mutant: items that failed do not count.
StaysOnAlways(failed) == FALSE

StaysOn(failed) == failed

\* scheduleShutdownAfterCompletedBackup, up to the call of shutdown.exe.
ScheduleShutdown ==
  /\ automatic' = FALSE /\ calls' = calls \cup {Call("schedule", "exe")}

\* backup:complete and backup:idle, after a last look for a pause.
RunCompletes(failed) ==
  /\ run = "running" /\ ~drain /\ run' = "none" /\ lastRun' = IF failed THEN "failed" ELSE "clean"
  /\ \/ ~armed /\ UNCHANGED <<phase, armed, backupCompleted, calls, automatic>>
     \/ armed /\ StaysOn(failed) /\ Fail /\ UNCHANGED <<calls, automatic>>
     \/ /\ armed /\ ~StaysOn(failed) /\ Shown(phase, TRUE, TRUE)
        /\ IF phase = "waiting" THEN Free /\ ScheduleShutdown ELSE UNCHANGED <<calls, automatic>>
  /\ UNCHANGED <<Windows, paused, drain, noted>>

\* backup:error; a drain that was asked for stays asked for.
RunFails ==
  /\ run = "running" /\ run' = "none" /\ lastRun' = "failed"
  /\ IF armed THEN Fail ELSE UNCHANGED <<phase, armed, backupCompleted>>
  /\ UNCHANGED <<calls, Windows, paused, drain, automatic, noted>>

\* A canceled or drained run ends with backup:paused.
RunPaused ==
  /\ run = "stopping" \/ (run = "running" /\ drain)
  /\ run' = "none" /\ lastRun' = "paused"
  /\ paused' = (paused \/ drain) /\ drain' = FALSE
  /\ IF armed THEN Fail ELSE UNCHANGED <<phase, armed, backupCompleted>>
  /\ UNCHANGED <<calls, Windows, automatic, noted>>

-----------------------------------------------------------------------------
(* The user. *)

Pause ==
  /\ Free /\ Undisturbed /\ paused' = TRUE /\ drain' = FALSE /\ automatic' = FALSE
  /\ run' = IF run = "none" THEN "none" ELSE "stopping"
  /\ UNCHANGED <<phase, armed, backupCompleted, calls, Windows, lastRun, noted>>

\* Without a run the backups are paused at once, with backup:paused.
PauseAfterCurrent ==
  /\ Free /\ Undisturbed /\ ~paused /\ automatic' = FALSE
  /\ IF run = "none"
     THEN /\ paused' = TRUE /\ UNCHANGED drain
          /\ IF armed THEN Fail ELSE UNCHANGED <<phase, armed, backupCompleted>>
     ELSE drain' = TRUE /\ UNCHANGED <<paused, phase, armed, backupCompleted>>
  /\ UNCHANGED <<calls, Windows, run, lastRun, noted>>

\* A stopped run goes on being stopped.
Resume ==
  /\ Free /\ paused' = FALSE /\ drain' = FALSE /\ automatic' = TRUE /\ noted' = FALSE
  /\ UNCHANGED <<phase, armed, backupCompleted, calls, Windows, run, lastRun>>

\* sync:setShutdownAfterBackup.  The run that is under way counts; otherwise one is
\* started, refused without a word under a drain, or refused by the network policy
\* with backup:paused.
Arm ==
  /\ Free /\ (Careful => run # "none" \/ ~drain) /\ ~paused /\ phase # "countdown" /\ lastRun' = "none"
  /\ \/ (run # "none" \/ drain) /\ UNCHANGED run /\ Shown("waiting", TRUE, FALSE)
     \/ run = "none" /\ ~drain /\ run' = "running" /\ Shown("waiting", TRUE, FALSE)
     \/ run = "none" /\ ~drain /\ UNCHANGED run /\ Fail
  /\ UNCHANGED <<calls, Windows, paused, drain, automatic, noted>>

Disarm ==
  /\ Free
  /\ calls' = calls \cup {Call("disarm", IF phase = "countdown" THEN "abort" ELSE "clear")}
  /\ UNCHANGED <<phase, armed, backupCompleted, Windows, Worker, noted>>

\* The panel of planned shutdowns: power:scheduleShutdown, power:cancelShutdown.
Plan ==
  /\ Free /\ calls' = calls \cup {Call("plan", "exe")}
  /\ UNCHANGED <<phase, armed, backupCompleted, Windows, Worker, noted>>

Cancel ==
  /\ Free /\ label # "none" /\ calls' = calls \cup {Call("cancel", "abort")}
  /\ UNCHANGED <<phase, armed, backupCompleted, Windows, Worker, noted>>

-----------------------------------------------------------------------------
(* The calls. *)

Purpose(c) == IF c.kind = "schedule" THEN AfterBackup ELSE "planned"

\* shutdown.exe /s, which fails when a shutdown is pending.
ExeAnswers(c) ==
  /\ c.step = "exe" /\ windows = "none" /\ windows' = Purpose(c) /\ Goes(c, "store")
  /\ UNCHANGED <<phase, armed, backupCompleted, label, Worker, noted>>

\* Mutant: the countdown is stored and not shown.
StoredOnly(c) == UNCHANGED <<phase, armed, backupCompleted>>

Stored(c) == IF c.kind = "schedule" THEN Shown("countdown", armed, backupCompleted)
             ELSE UNCHANGED <<phase, armed, backupCompleted>>

Store(c) ==
  /\ c.step = "store" /\ label' = Purpose(c) /\ Stored(c) /\ Ends(c)
  /\ UNCHANGED <<windows, Worker, noted>>

\* The shutdown is pending already, shutdown.exe fails, or the settings cannot be
\* saved; watcher and scheduler stay off.
ScheduleFails(c) ==
  /\ \/ c.step = "exe" /\ ("exe" \in ShutdownFaults \/ windows # "none")
     \/ c.step = "store" /\ "store" \in ShutdownFaults
  /\ IF c.kind = "schedule" THEN Fail /\ noted' = TRUE
     ELSE UNCHANGED <<phase, armed, backupCompleted, noted>>
  /\ Ends(c)
  /\ UNCHANGED <<Windows, Worker>>

\* shutdown.exe /a.  Disarming goes on when it fails, canceling does not.
Abort(c) ==
  /\ c.step = "abort" /\ windows' = "none" /\ windows # "none" /\ Goes(c, "clear")
  /\ UNCHANGED <<phase, armed, backupCompleted, label, Worker, noted>>

AbortFails(c) ==
  /\ c.step = "abort" /\ (windows = "none" \/ "abort" \in ShutdownFaults)
  /\ IF c.kind = "disarm" THEN Goes(c, "clear") ELSE Ends(c)
  /\ UNCHANGED <<phase, armed, backupCompleted, Windows, Worker, noted>>

\* clearPowerShutdownSchedule and what follows: only disarming starts watcher and
\* scheduler again.
Clear(c) ==
  /\ c.step = "clear" /\ label' = "none" /\ Ends(c)
  /\ IF c.kind = "disarm"
     THEN /\ Shown("off", FALSE, FALSE) /\ automatic' = (automatic \/ ~paused)
          /\ noted' = (noted /\ paused)
     ELSE /\ IF phase = "countdown" THEN Shown("off", FALSE, FALSE) /\ noted' = TRUE
             ELSE UNCHANGED <<phase, armed, backupCompleted, noted>>
          /\ UNCHANGED automatic
  /\ UNCHANGED <<windows, paused, drain, run, lastRun>>

-----------------------------------------------------------------------------
\* Mutant: a countdown is forgotten by a restart.
PhaseForgotten == "off"

PhaseAtStart == IF label' = AfterBackup THEN "countdown" ELSE "off"

\* LabSuite starts: setupIpc and the start of watcher and scheduler.
Started ==
  /\ Shown(PhaseAtStart, PhaseAtStart = "countdown", PhaseAtStart = "countdown")
  /\ calls' = {} /\ run' = "none" /\ paused' = (paused \/ drain) /\ drain' = FALSE
  /\ automatic' = ~paused' /\ lastRun' = "none" /\ noted' = FALSE

Restart == calls = {} /\ UNCHANGED Windows /\ Started

\* The time is over, and the PC starts again.
ShutDown ==
  /\ windows # "none" /\ windows' = "none" /\ label' = "none" /\ Started

Next ==
  \/ StartRun \/ RunFails \/ RunPaused \/ \E failed \in BOOLEAN : RunCompletes(failed)
  \/ Pause \/ PauseAfterCurrent \/ Resume \/ Arm \/ Disarm \/ Plan \/ Cancel
  \/ \E c \in calls : ExeAnswers(c) \/ Store(c) \/ ScheduleFails(c)
                        \/ Abort(c) \/ AbortFails(c) \/ Clear(c)
  \/ Restart \/ ShutDown

Spec == Init /\ [][Next]_shutdownVars

-----------------------------------------------------------------------------
\* A shutdown that was asked for because of a backup follows a run that completed with
\* nothing failed since the user armed it, or a restart of LabSuite in the countdown.
FollowsBackup ==
  \A c \in calls : c.kind = "schedule" => armed /\ lastRun \notin {"failed", "paused", "none"}

\* The PC does not shut down for a backup without a countdown that can be canceled,
\* also over a restart.  It relies on a user who waits for a click to be answered, and
\* on the settings being saved.
PendingIsShown == windows = AfterBackup /\ calls = {} => phase = "countdown"

\* An armed shutdown waits for a run.
WaitsForRun == phase = "waiting" /\ calls = {} => armed /\ run # "none"

\* Backups are automatic again when no shutdown is ahead (ipc.js:904, "The user can
\* cancel, which starts normal scheduling again"), except after a failed call and a
\* cancellation in the other panel, which leave them off.
AutomaticAgain ==
  ~automatic /\ ~paused /\ ~drain /\ ~noted => phase = "countdown" \/ calls # {}

ShutdownAsShown == FollowsBackup /\ PendingIsShown /\ WaitsForRun /\ AutomaticAgain
=============================================================================
