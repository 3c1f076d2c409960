-------------------------- MODULE BackupScheduling --------------------------
(***************************************************************************)
(* When a backup runs: the control part of main/backupWorker.js with the   *)
(* watcher, the scheduler and the handlers of main/ipc.js and main/tray.js *)
(* that stop, drain, resume or reserve it.                                 *)
(*                                                                         *)
(* Everything lives in one JavaScript thread; an action is the code        *)
(* between two awaits.  Timers carry no duration: an armed timer may fire  *)
(* at any step.  "marked" abstracts the manifest to the folders with       *)
(* entries a quick pass would pick up; what a pass does with one file is   *)
(* module VersionedBackup.                                                 *)
(***************************************************************************)
EXTENDS Naturals, FiniteSets

CONSTANTS Folders,     \* folder sources
          Directories, \* sets of sources that are single files of one directory
          Tasks,       \* reconnect, vault transfer and replica-sync requests
          Commands,    \* what the user does
          Faults,      \* what goes wrong
          MaxEvents    \* bound: file changes reported plus runs failed

ASSUME DirectoriesAssumption == Directories \subseteq SUBSET Folders
ASSUME CommandsAssumption ==
  Commands \subseteq {"pause", "drain", "resume", "now", "toggle", "remove", "add", "interval"}
ASSUME FaultsAssumption == Faults \subseteq {"refused", "error", "restart"}
ASSUME EventsAssumption == MaxEvents \in Nat

VARIABLES
  paused, draining,  \* settings sync_paused, sync_pause_after_current
  manual,            \* setting sync_interval_minutes is "0"
  folder,            \* each folder's row: "new" (not there), "on", "off", "removed"
  marked,            \* folders with dirty, failed or pending-delete entries
  watched,           \* folders the watcher reports on
  noticed,           \* folders whose change event is still being looked at
  scheduling,        \* the scheduler's interval is installed
  drainLost,         \* not in the code: a drain was cleared with the services stopped
  dirtyFolders,      \* backupWorker.dirtyFolders
  timer,             \* backupWorker.timer is armed
  run,               \* backupWorker.activeRun and the progress of its loop
  pausedRunRequest,  \* the request an interrupted run leaves behind
  resumeAfterStop,   \* backupWorker.resumeAfterStop
  immediate,         \* the request a setImmediate will start
  task,              \* each task: "off", or running and to "resume" / "keep" pause
  events             \* changes reported and runs failed so far

settings == <<paused, draining, manual>>
catalog  == <<folder, marked>>
services == <<watched, scheduling, drainLost>>
worker   == <<dirtyFolders, timer, run, pausedRunRequest, resumeAfterStop, immediate>>
vars     == <<settings, catalog, services, noticed, worker, task, events>>

Enabled == {f \in Folders : folder[f] = "on"}

\* The sources that share the watcher of f: it is one per directory.
Beside(f) == {f} \cup UNION {d \in Directories : f \in d}

\* ids = {} asks for every enabled folder, as null and [] do in the code.
Requests  == [kind : {"quick", "full"}, ids : SUBSET Folders]
NoRequest == [kind |-> "none", ids |-> {}]

NoRun == [kind |-> "none", ids |-> {}, phase |-> "idle", todo |-> {}, done |-> {},
          current |-> {}, taken |-> FALSE, cancel |-> FALSE, drain |-> FALSE]

Running == run # NoRun

Init ==
  /\ paused = FALSE /\ draining = FALSE /\ manual = FALSE
  /\ folder \in [Folders -> {"new", "on"}] /\ marked = {}
  /\ watched = Enabled /\ scheduling = TRUE /\ drainLost = FALSE /\ noticed = {}
  /\ dirtyFolders = {} /\ timer = FALSE /\ run = NoRun
  /\ pausedRunRequest = NoRequest /\ resumeAfterStop = FALSE /\ immediate = NoRequest
  /\ task = [t \in Tasks |-> "off"] /\ events = 0

-----------------------------------------------------------------------------
(* Starting a run, from wherever it is asked for.                          *)

\* Mutant: a run starts in a phase no step of the loop knows.
NewRunUnaligned(kind, ids) == [NoRun EXCEPT !.kind = kind, !.ids = ids, !.phase = "prepare"]

NewRun(kind, ids) == [NoRun EXCEPT !.kind = kind, !.ids = ids, !.phase = "align"]

\* runBackup when the network policy allows it, with the timer as the caller
\* leaves it.  A coalesced quick request arms the timer again.
RunAllowed(kind, ids, armed) ==
  \/ /\ paused \/ draining
     /\ timer' = armed
     /\ UNCHANGED <<run, pausedRunRequest, resumeAfterStop>>
  \/ /\ ~paused /\ ~draining /\ Running
     /\ timer' = (armed \/ kind = "quick")
     /\ UNCHANGED <<run, pausedRunRequest, resumeAfterStop>>
  \/ /\ ~paused /\ ~draining /\ ~Running
     /\ timer' = (armed /\ kind = "quick")
     /\ run' = NewRun(kind, ids)
     /\ pausedRunRequest' = NoRequest /\ resumeAfterStop' = FALSE

\* A refused quick request arms the timer again; a full one has disarmed it.
RunBackup(kind, ids, armed) ==
  \/ RunAllowed(kind, ids, armed)
  \/ /\ ~paused /\ ~draining /\ ~Running /\ "refused" \in Faults
     /\ timer' = (kind = "quick")
     /\ UNCHANGED <<run, pausedRunRequest, resumeAfterStop>>

\* Mutant: a resume does not look whether the run is being stopped.
ResumeRunning(current) == UNCHANGED resumeAfterStop

\* A run that was told to stop is to be run again once it has unwound.
ResumeStopping(current) == resumeAfterStop' = (resumeAfterStop \/ current.cancel)

\* resumeScheduledBackup, called unpaused, with the run, the interrupted
\* request and the timer as the caller leaves them.
ResumeScheduledBackup(current, request) ==
  /\ draining' = FALSE
  /\ run' = IF current = NoRun THEN NoRun ELSE [current EXCEPT !.drain = FALSE]
  /\ \/ /\ current # NoRun
        /\ ResumeStopping(current)
        /\ pausedRunRequest' = request
        /\ UNCHANGED <<timer, immediate>>
     \/ /\ current = NoRun /\ request # NoRequest
        /\ immediate' = request /\ pausedRunRequest' = NoRequest
        /\ UNCHANGED <<timer, resumeAfterStop>>
     \/ /\ current = NoRun /\ request = NoRequest
        /\ timer' = (timer \/ dirtyFolders # {})
        /\ pausedRunRequest' = request
        /\ UNCHANGED <<resumeAfterStop, immediate>>

\* Stopping the watcher, also to start it afresh, drops the events whose
\* debounce timer has not fired; a file already being looked at is still
\* marked.  startScheduler() without an interval reads "0" as 15 minutes.
DropEvents == noticed' \in SUBSET noticed

\* Mutant: only the watcher is started again.
StartWatcher ==
  /\ watched' = Enabled /\ scheduling' = FALSE /\ drainLost' = FALSE
  /\ IF watched = {} THEN noticed' = noticed ELSE DropEvents

StartServices ==
  /\ watched' = Enabled /\ scheduling' = TRUE /\ drainLost' = FALSE
  /\ IF watched = {} THEN noticed' = noticed ELSE DropEvents

StopServices == watched' = {} /\ scheduling' = FALSE /\ drainLost' = FALSE /\ DropEvents

-----------------------------------------------------------------------------
(* The watcher, the timer and the scheduler.                               *)

\* A file event: the watcher looks at the file before it marks anything.
Change(f) ==
  /\ events < MaxEvents /\ f \in watched
  /\ events' = events + 1
  /\ noticed' = noticed \cup {f}
  /\ UNCHANGED <<settings, catalog, services, worker, task>>

MarkDirtyForPath(f) ==
  /\ f \in noticed
  /\ noticed' = noticed \ {f}
  /\ IF f \in Enabled
     THEN /\ marked' = marked \cup {f}
          /\ dirtyFolders' = dirtyFolders \cup {f}
          /\ timer' = (timer \/ ~paused)
     ELSE UNCHANGED <<marked, dirtyFolders, timer>>
  /\ UNCHANGED <<settings, folder, services, run, pausedRunRequest, resumeAfterStop,
                 immediate, task, events>>

TimerFires ==
  /\ timer
  /\ RunBackup("quick", dirtyFolders, FALSE)
  /\ UNCHANGED <<settings, catalog, services, noticed, dirtyFolders, immediate, task, events>>

\* The quick pass of every interval and the full one of every day, asked
\* for when the policy allows them.
SchedulerTick ==
  /\ scheduling /\ ~Running
  /\ \E kind \in {"quick", "full"} : RunAllowed(kind, {}, timer)
  /\ UNCHANGED <<settings, catalog, services, noticed, dirtyFolders, immediate, task, events>>

RunImmediate ==
  /\ immediate # NoRequest
  /\ immediate' = NoRequest
  /\ RunBackup(immediate.kind, immediate.ids, timer)
  /\ UNCHANGED <<settings, catalog, services, noticed, dirtyFolders, task, events>>

-----------------------------------------------------------------------------
(* The run, between two awaits.  setImmediate callbacks come before the    *)
(* I/O a run waits for.                                                    *)

Boundary == run.cancel \/ paused \/ run.drain \/ draining

MayStep == Running /\ immediate = NoRequest

SelectFolders ==
  /\ MayStep /\ run.phase = "align" /\ ~Boundary
  /\ run' = [run EXCEPT !.phase = "folders",
                        !.todo = IF run.ids = {} THEN Enabled ELSE Enabled \cap run.ids]
  /\ UNCHANGED <<settings, catalog, services, noticed, dirtyFolders, timer,
                 pausedRunRequest, resumeAfterStop, immediate, task, events>>

\* A pass takes the marks it finds; marks made later are for another pass.
PlanFolder(f) ==
  /\ MayStep /\ run.phase = "folders" /\ run.current = {} /\ f \in run.todo /\ ~Boundary
  /\ run' = [run EXCEPT !.todo = @ \ {f}, !.done = @ \cup {f},
                        !.current = {f}, !.taken = f \in marked]
  /\ marked' = marked \ {f}
  /\ UNCHANGED <<settings, folder, services, noticed, dirtyFolders, timer,
                 pausedRunRequest, resumeAfterStop, immediate, task, events>>

\* Marks the run took and did not finish; a removed folder has none.
Unfinished == {f \in run.current : run.taken /\ folder[f] # "removed"}

\* The folder is finished, some of its items failed, or a single selected
\* file was gone and the source is disabled.  A record of success may
\* overwrite a mark made for the same file meanwhile.
FinishFolder ==
  /\ MayStep /\ run.current # {} /\ ~Boundary
  /\ \/ \E over \in SUBSET run.current : marked' = marked \ over /\ folder' = folder
     \/ marked' = marked \cup Unfinished /\ folder' = folder
     \/ /\ marked' = marked \cup Unfinished
        /\ folder' = [f \in Folders |-> IF f \in run.current /\ folder[f] = "on"
                                        THEN "off" ELSE folder[f]]
  /\ run' = [run EXCEPT !.current = {}, !.taken = FALSE]
  /\ UNCHANGED <<settings, services, noticed, dirtyFolders, timer,
                 pausedRunRequest, resumeAfterStop, immediate, task, events>>

\* A pause boundary, or any error of a run that was told to stop.
Interrupt ==
  /\ MayStep /\ Boundary
  /\ \E left \in SUBSET Unfinished : marked' = marked \cup left
  /\ LET request == [kind |-> run.kind, ids |-> run.ids]
         drained == ~run.cancel /\ ~paused
     IN  /\ paused' = (paused \/ drained)
         /\ IF resumeAfterStop /\ ~paused'
            THEN /\ resumeAfterStop' = FALSE
                 /\ draining' = FALSE /\ run' = NoRun
                 /\ drainLost' = (drainLost \/ draining)
                 /\ immediate' = request /\ pausedRunRequest' = NoRequest
            ELSE /\ resumeAfterStop' = FALSE
                 /\ draining' = (draining /\ ~drained) /\ run' = NoRun
                 /\ pausedRunRequest' = request /\ UNCHANGED <<immediate, drainLost>>
  /\ UNCHANGED <<manual, folder, watched, scheduling, noticed, dirtyFolders, timer, task, events>>

\* Any other error: nothing is scheduled, the marks and dirtyFolders stay.
\* (The flush at the end of every run has nothing to write outside a batch.)
RunFails ==
  /\ MayStep /\ "error" \in Faults /\ ~run.cancel /\ events < MaxEvents
  /\ events' = events + 1
  /\ \E left \in SUBSET Unfinished : marked' = marked \cup left
  /\ run' = NoRun /\ resumeAfterStop' = FALSE
  /\ UNCHANGED <<settings, folder, services, noticed, dirtyFolders, timer,
                 pausedRunRequest, immediate, task>>

Complete ==
  /\ MayStep /\ run.phase = "folders" /\ run.current = {} /\ run.todo = {} /\ ~Boundary
  /\ dirtyFolders' = IF run.kind = "quick" THEN dirtyFolders \ run.done ELSE dirtyFolders
  /\ timer' = (timer \/ dirtyFolders' # {})
  /\ run' = NoRun /\ resumeAfterStop' = FALSE
  /\ UNCHANGED <<settings, catalog, services, noticed, pausedRunRequest, immediate,
                 task, events>>

-----------------------------------------------------------------------------
(* The user: dashboard and tray.                                           *)

\* Mutant: a pause lets the current upload end, as a drain does.
DrainBackup == IF Running THEN [run EXCEPT !.drain = TRUE] ELSE run

StopBackup == IF Running THEN [run EXCEPT !.cancel = TRUE, !.drain = FALSE] ELSE run

Pause ==
  /\ "pause" \in Commands /\ ~paused
  /\ paused' = TRUE /\ draining' = FALSE
  /\ StopServices /\ timer' = FALSE
  /\ run' = StopBackup
  /\ UNCHANGED <<manual, catalog, dirtyFolders, pausedRunRequest,
                 resumeAfterStop, immediate, task, events>>

\* Mutant: an idle worker is drained as well.
RequestDrain == draining' = TRUE /\ UNCHANGED paused

RequestPauseAfterCurrent == paused' = ~Running /\ draining' = Running

PauseAfterCurrent ==
  /\ "drain" \in Commands /\ ~paused
  /\ StopServices /\ timer' = FALSE
  /\ RequestPauseAfterCurrent
  /\ run' = IF Running THEN [run EXCEPT !.drain = TRUE] ELSE run
  /\ UNCHANGED <<manual, catalog, dirtyFolders, pausedRunRequest,
                 resumeAfterStop, immediate, task, events>>

Resume ==
  /\ "resume" \in Commands /\ (paused \/ draining)
  /\ paused' = FALSE
  /\ StartServices
  /\ ResumeScheduledBackup(run, pausedRunRequest)
  /\ UNCHANGED <<manual, catalog, dirtyFolders, task, events>>

BackUpNow ==
  /\ "now" \in Commands /\ ~Running
  /\ RunBackup("full", {}, timer)
  /\ UNCHANGED <<settings, catalog, services, noticed, dirtyFolders, immediate, task, events>>

SetInterval ==
  /\ "interval" \in Commands
  /\ manual' = ~manual
  /\ scheduling' = IF paused THEN scheduling ELSE ~manual'
  /\ UNCHANGED <<paused, draining, catalog, watched, drainLost, noticed, worker, task, events>>

\* Mutant: only the source asked for is watched, not the others of its directory.
WatchOne(f) ==
  /\ watched' = IF paused THEN watched ELSE watched \cup {f}
  /\ UNCHANGED <<scheduling, drainLost>>

\* addPath reads the configurations of every enabled source anew.
Watch(f) ==
  /\ watched' = IF paused THEN watched ELSE watched \cup (Beside(f) \cap Enabled')
  /\ UNCHANGED <<scheduling, drainLost>>

\* removePath closes the watcher of the whole directory and drops the
\* configurations of all sources in it; an event of theirs whose debounce
\* timer fires then is no one's.
Unwatch(f) ==
  /\ watched' = watched \ Beside(f)
  /\ \E dropped \in SUBSET Beside(f) : noticed' = noticed \ dropped
  /\ UNCHANGED <<scheduling, drainLost>>

\* A new folder waits for the next pass; a new single file starts one.
AddSource(f) ==
  /\ "add" \in Commands /\ folder[f] = "new"
  /\ folder' = [folder EXCEPT ![f] = "on"]
  /\ Watch(f)
  /\ \/ UNCHANGED <<timer, run, pausedRunRequest, resumeAfterStop>>
     \/ RunBackup("full", {f}, timer)
  /\ UNCHANGED <<settings, marked, noticed, dirtyFolders, immediate, task, events>>

EnableFolder(f) ==
  /\ "toggle" \in Commands /\ folder[f] = "off"
  /\ folder' = [folder EXCEPT ![f] = "on"]
  /\ Watch(f)
  /\ UNCHANGED <<settings, marked, noticed, worker, task, events>>

DisableFolder(f) ==
  /\ "toggle" \in Commands /\ folder[f] = "on"
  /\ folder' = [folder EXCEPT ![f] = "off"]
  /\ Unwatch(f)
  /\ dirtyFolders' = dirtyFolders \ {f}
  /\ timer' = (timer /\ dirtyFolders' # {})
  /\ UNCHANGED <<settings, marked, run, pausedRunRequest,
                 resumeAfterStop, immediate, task, events>>

RemoveFolder(f) ==
  /\ "remove" \in Commands /\ folder[f] \in {"on", "off"}
  /\ folder' = [folder EXCEPT ![f] = "removed"]
  /\ marked' = marked \ {f}
  /\ Unwatch(f)
  /\ UNCHANGED <<settings, worker, task, events>>

-----------------------------------------------------------------------------
(* Reconnecting Google Drive, transferring the vault, syncing a replica:   *)
(* refused while a backup runs, otherwise done with backups paused.        *)

BeginTask(t) ==
  /\ task[t] = "off" /\ ~Running
  /\ task' = [task EXCEPT ![t] = IF paused THEN "keep" ELSE "resume"]
  /\ paused' = TRUE
  /\ IF paused THEN UNCHANGED <<services, noticed, timer>> ELSE (StopServices /\ timer' = FALSE)
  /\ UNCHANGED <<draining, manual, catalog, dirtyFolders, run, pausedRunRequest,
                 resumeAfterStop, immediate, events>>

EndTask(t) ==
  /\ task[t] # "off"
  /\ task' = [task EXCEPT ![t] = "off"]
  /\ \/ /\ task[t] = "resume"
        /\ StartServices /\ paused' = FALSE
        /\ ResumeScheduledBackup(run, pausedRunRequest)
     \/ /\ task[t] = "keep"
        /\ UNCHANGED <<paused, draining, services, noticed, timer, run, pausedRunRequest,
                       resumeAfterStop, immediate>>
  /\ UNCHANGED <<manual, catalog, dirtyFolders, events>>

\* The program ends, orderly or not, and starts again: settings and manifest
\* survive, a requested drain comes back as a pause, and a folder that was
\* never backed up starts a full pass.
Restart ==
  /\ "restart" \in Faults
  /\ paused' = (paused \/ draining) /\ draining' = FALSE
  /\ marked' = marked \cup Unfinished
  /\ watched' = IF paused' THEN {} ELSE Enabled
  /\ scheduling' = ~paused' /\ drainLost' = FALSE
  /\ noticed' = {} /\ dirtyFolders' = {} /\ timer' = FALSE /\ run' = NoRun
  /\ pausedRunRequest' = NoRequest /\ resumeAfterStop' = FALSE
  /\ immediate' \in {NoRequest} \cup
                     (IF paused' THEN {} ELSE {[kind |-> "full", ids |-> {}]})
  /\ task' = [t \in Tasks |-> "off"]
  /\ UNCHANGED <<manual, folder, events>>

-----------------------------------------------------------------------------
RunSteps == SelectFolders \/ (\E f \in Folders : PlanFolder(f)) \/ FinishFolder
            \/ Interrupt \/ Complete

Next ==
  \/ \E f \in Folders : Change(f) \/ MarkDirtyForPath(f)
  \/ TimerFires \/ SchedulerTick \/ RunImmediate
  \/ RunSteps \/ RunFails
  \/ Pause \/ PauseAfterCurrent \/ Resume \/ BackUpNow \/ SetInterval
  \/ \E f \in Folders : AddSource(f) \/ EnableFolder(f) \/ DisableFolder(f) \/ RemoveFolder(f)
  \/ \E t \in Tasks : BeginTask(t) \/ EndTask(t)
  \/ Restart

Spec == Init /\ [][Next]_vars

\* Timers fire, setImmediate callbacks run and awaited calls return.  The
\* scheduler's interval is due again and again and skips a running backup;
\* a run leaves a debounce of idle time behind it, so that not every due
\* interval falls into a run (strong fairness).
Fairness ==
  /\ \A f \in Folders : WF_vars(MarkDirtyForPath(f))
  /\ WF_vars(TimerFires) /\ SF_vars(SchedulerTick) /\ WF_vars(RunImmediate)
  /\ WF_vars(RunSteps)

LiveSpec == Spec /\ Fairness
-----------------------------------------------------------------------------
(* Properties.                                                             *)

\* Every variable keeps the shape the code gives it.
TypeOK ==
  /\ paused \in BOOLEAN /\ draining \in BOOLEAN /\ manual \in BOOLEAN
  /\ folder \in [Folders -> {"new", "on", "off", "removed"}]
  /\ marked \subseteq Folders /\ watched \subseteq Folders /\ noticed \subseteq Folders
  /\ scheduling \in BOOLEAN /\ drainLost \in BOOLEAN
  /\ dirtyFolders \subseteq Folders /\ timer \in BOOLEAN
  /\ run \in [kind : {"none", "quick", "full"}, ids : SUBSET Folders,
              phase : {"idle", "align", "folders"}, todo : SUBSET Folders,
              done : SUBSET Folders, current : SUBSET Folders, taken : BOOLEAN,
              cancel : BOOLEAN, drain : BOOLEAN]
  /\ pausedRunRequest \in Requests \cup {NoRequest}
  /\ immediate \in Requests \cup {NoRequest}
  /\ resumeAfterStop \in BOOLEAN
  /\ task \in [Tasks -> {"off", "resume", "keep"}]
  /\ events \in 0 .. MaxEvents

\* A run that exists while backups are paused has been told to stop: no
\* timer, tick, resumed request or manual start gets past a pause.
PausedRunIsStopping == paused /\ Running => run.cancel

\* What a pause interrupted is never left behind: once backups are on
\* again the request is being run, however Pause and Resume interleave
\* with the unwinding of the run.
InterruptedRequestWaitsPaused == pausedRunRequest # NoRequest => paused

\* "Pause after current uploads" ends: it lasts no longer than the run it
\* was asked of (scripts/verify-backup-pause.js:159, the worker must enter
\* the normal paused state at the next safe transfer boundary).
DrainOnlyWhileRunning == draining => Running

\* README.md:36: changes are backed up automatically.  Unless backups are
\* paused or about to be, the scheduler is on or switched to manual and every
\* enabled source is watched, with two exceptions.  A source is left unwatched
\* when another one of its directory was disabled or removed, until that one
\* is enabled or the watcher starts again (watcher.js:199).  And a drain asked
\* for after Pause and Resume, while the stopped run still unwinds, is cleared
\* by the end of that run, which starts nothing (backupWorker.js:414).
AutomaticUnlessPaused ==
  ~paused /\ ~draining /\ ~drainLost =>
     /\ scheduling \/ manual
     /\ \A f \in Enabled \ watched : \E g \in Beside(f) \ {f} : folder[g] \in {"off", "removed"}

\* Liveness: a folder with marks is planned by some pass, whatever runs
\* were going on, stopped, failed or coalesced meanwhile, unless the user
\* pauses or disables it.
MarkedFolderIsPlanned ==
  \A f \in Folders :
    (f \in marked /\ f \in Enabled) ~> (f \notin marked \/ f \notin Enabled \/ paused)
=============================================================================
