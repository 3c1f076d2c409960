----------------------- MODULE BackupScheduling_proofs -----------------------
(***************************************************************************)
(* Proofs about BackupScheduling, for any folders, tasks, commands, faults *)
(* and number of events: the types; that no backup runs on through a       *)
(* pause; that an interrupted request waits only while backups are paused; *)
(* that a drain ends with its run, when runs do not fail; and that backups *)
(* are automatic unless paused.                                            *)
(***************************************************************************)
EXTENDS BackupScheduling, TLAPS

-----------------------------------------------------------------------------
(* Types.                                                                  *)

RunType == [kind : {"none", "quick", "full"}, ids : SUBSET Folders,
            phase : {"idle", "align", "folders"}, todo : SUBSET Folders,
            done : SUBSET Folders, current : SUBSET Folders, taken : BOOLEAN,
            cancel : BOOLEAN, drain : BOOLEAN]

\* TypeOK, with the run under a name of its own, and that a run has a kind:
\* an interrupted one leaves a request to run again.
Typed ==
  /\ paused \in BOOLEAN /\ draining \in BOOLEAN /\ manual \in BOOLEAN
  /\ folder \in [Folders -> {"new", "on", "off", "removed"}]
  /\ marked \subseteq Folders /\ watched \subseteq Folders /\ noticed \subseteq Folders
  /\ scheduling \in BOOLEAN /\ drainLost \in BOOLEAN
  /\ dirtyFolders \subseteq Folders /\ timer \in BOOLEAN
  /\ run \in RunType /\ (Running => run.kind # "none")
  /\ pausedRunRequest \in Requests \cup {NoRequest}
  /\ immediate \in Requests \cup {NoRequest}
  /\ resumeAfterStop \in BOOLEAN
  /\ task \in [Tasks -> {"off", "resume", "keep"}]
  /\ events \in 0 .. MaxEvents

\* Typed is TypeOK in other words.
LEMMA TypedIsTypeOK == Typed => TypeOK
BY DEF Typed, TypeOK, RunType

\* The absent run and the absent request have their own kind.
LEMMA NoRunType == NoRun \in RunType /\ NoRequest \notin Requests /\ NoRun.kind = "none"
BY DEF NoRun, RunType, NoRequest, Requests

\* A run that starts is a run.
LEMMA NewRunType ==
  ASSUME NEW kind \in {"quick", "full"}, NEW ids \in SUBSET Folders
  PROVE  NewRun(kind, ids) \in RunType /\ NewRun(kind, ids).kind = kind
BY DEF NewRun, NoRun, RunType

\* A run that is asked for changes only the timer, the run and what a run
\* that was stopped left behind.
LEMMA RunBackupTypes ==
  ASSUME Typed, NEW kind \in {"quick", "full"}, NEW ids \in SUBSET Folders, NEW armed \in BOOLEAN,
         RunAllowed(kind, ids, armed) \/ RunBackup(kind, ids, armed)
  PROVE  /\ timer' \in BOOLEAN /\ run' \in RunType /\ resumeAfterStop' \in BOOLEAN
         /\ pausedRunRequest' \in Requests \cup {NoRequest}
         /\ Running' => run'.kind # "none"
BY NewRunType DEF Typed, RunBackup, RunAllowed, Running

\* resumeScheduledBackup (backupWorker.js) leaves worker and timer well typed.
LEMMA ResumeTypes ==
  ASSUME Typed, ResumeScheduledBackup(run, pausedRunRequest)
  PROVE  /\ draining' \in BOOLEAN /\ run' \in RunType /\ timer' \in BOOLEAN
         /\ pausedRunRequest' \in Requests \cup {NoRequest}
         /\ immediate' \in Requests \cup {NoRequest} /\ resumeAfterStop' \in BOOLEAN
         /\ Running' => run'.kind # "none"
<1>1. draining' \in BOOLEAN /\ run' \in RunType
  BY DEF Typed, ResumeScheduledBackup, RunType
<1>3. Running' => run'.kind # "none"
  BY DEF Typed, ResumeScheduledBackup, RunType, Running
<1>2. run.cancel \in BOOLEAN
  BY DEF Typed, RunType
<1>4. QED BY <1>1, <1>2, <1>3 DEF Typed, ResumeScheduledBackup, ResumeStopping

\* Starting and stopping watcher and scheduler keeps their types.
LEMMA ServiceTypes ==
  ASSUME Typed, StartServices \/ StopServices
  PROVE  /\ watched' \subseteq Folders /\ scheduling' \in BOOLEAN /\ noticed' \subseteq Folders
         /\ drainLost' \in BOOLEAN
BY DEF Typed, StartServices, StopServices, DropEvents, Enabled

\* A freshly started program has the types.
LEMMA TypeInit == Init => Typed
<1> SUFFICES ASSUME Init PROVE Typed
  OBVIOUS
<1>1. folder \in [Folders -> {"new", "on", "off", "removed"}]
  BY DEF Init
<1>2. events \in 0 .. MaxEvents
  BY EventsAssumption DEF Init
<1>3. QED BY <1>1, <1>2, NoRunType DEF Init, Typed, Enabled, Running

\* Every step of watcher, timers, run, user and tasks keeps the types.
LEMMA TypeStep == Typed /\ [Next]_vars => Typed'
<1> SUFFICES ASSUME Typed, [Next]_vars PROVE Typed'
  OBVIOUS
<1> USE NoRunType DEF settings, catalog, services, worker, Running
<1>d. Enabled \subseteq Folders /\ dirtyFolders \in SUBSET Folders /\ {} \in SUBSET Folders
  BY DEF Enabled, Typed
<1>e. folder' \in [Folders -> {"new", "on", "off", "removed"}] => Enabled' \subseteq Folders
  BY DEF Enabled
<1>1. ASSUME NEW f \in Folders, Change(f) PROVE Typed'
  BY <1>1, EventsAssumption DEF Typed, Change
<1>2. ASSUME NEW f \in Folders, MarkDirtyForPath(f) PROVE Typed'
  BY <1>2 DEF Typed, MarkDirtyForPath
<1>3. CASE TimerFires
  BY <1>3, <1>d, RunBackupTypes DEF Typed, TimerFires
<1>4. CASE SchedulerTick
  BY <1>4, <1>d, RunBackupTypes DEF Typed, SchedulerTick
<1>5. CASE RunImmediate
  <2>1. immediate.kind \in {"quick", "full"} /\ immediate.ids \in SUBSET Folders
    BY <1>5 DEF RunImmediate, Typed, Requests
  <2>2. QED BY <1>5, <2>1, RunBackupTypes DEF Typed, RunImmediate
<1>6. CASE SelectFolders
  <2>1. run' \in RunType /\ run'.kind = run.kind
    BY <1>6, <1>d DEF SelectFolders, Typed, RunType, Running
  <2>2. QED BY <1>6, <2>1 DEF Typed, SelectFolders, MayStep, Running
<1>7. ASSUME NEW f \in Folders, PlanFolder(f) PROVE Typed'
  <2>1. run' \in RunType /\ run'.kind = run.kind
    <3>1. (f \in marked) \in BOOLEAN /\ run \in RunType
      BY DEF Typed
    <3>2. QED BY <1>7, <3>1 DEF PlanFolder, RunType
  <2>2. QED BY <1>7, <2>1 DEF Typed, PlanFolder, MayStep, Running
<1>u. Unfinished \subseteq Folders
  BY DEF Unfinished, Typed, RunType
<1>8. CASE FinishFolder
  <2>1. run' \in RunType /\ run'.kind = run.kind
    BY <1>8 DEF FinishFolder, Typed, RunType
  <2>2. marked' \subseteq Folders /\ folder' \in [Folders -> {"new", "on", "off", "removed"}]
    BY <1>8, <1>u DEF FinishFolder, Typed
  <2>3. QED BY <1>8, <2>1, <2>2 DEF Typed, FinishFolder, MayStep, Running
<1>9. CASE Interrupt
  <2>1. run' \in RunType /\ marked' \subseteq Folders
    BY <1>9, <1>u DEF Interrupt, Typed
  <2>2. Running => [kind |-> run.kind, ids |-> run.ids] \in Requests
    BY DEF Running, Typed, RunType, Requests, NoRequest
  <2>3. QED BY <1>9, <2>1, <2>2 DEF Typed, Interrupt, MayStep, Running
<1>10. CASE RunFails
  <2>1. marked' \subseteq Folders /\ events' \in 0 .. MaxEvents
    BY <1>10, <1>u, EventsAssumption DEF RunFails, Typed
  <2>2. QED BY <1>10, <2>1 DEF Typed, RunFails, Running
<1>11. CASE Complete
  <2>1. dirtyFolders' \subseteq Folders /\ timer' \in BOOLEAN
    BY <1>11 DEF Complete, Typed
  <2>2. QED BY <1>11, <2>1 DEF Typed, Complete, Running
<1>s. StopServices => /\ watched' \subseteq Folders /\ scheduling' \in BOOLEAN
                      /\ noticed' \subseteq Folders /\ drainLost' \in BOOLEAN
  BY ServiceTypes
<1>t. StartServices => /\ watched' \subseteq Folders /\ scheduling' \in BOOLEAN
                       /\ noticed' \subseteq Folders /\ drainLost' \in BOOLEAN
  BY ServiceTypes
<1>12. CASE Pause
  <2>1. run' \in RunType /\ run'.kind = run.kind /\ (Running' => Running)
    BY <1>12 DEF Pause, StopBackup, Typed, RunType, Running
  <2>2. QED BY <1>12, <1>s, <2>1 DEF Typed, Pause, Running
<1>13. CASE PauseAfterCurrent
  <2>1. run' \in RunType /\ run'.kind = run.kind
    BY <1>13 DEF PauseAfterCurrent, Typed, RunType
  <2>2. paused' \in BOOLEAN /\ draining' \in BOOLEAN
    BY <1>13 DEF PauseAfterCurrent, RequestPauseAfterCurrent, Running
  <2>3. QED BY <1>13, <1>s, <2>1, <2>2 DEF Typed, PauseAfterCurrent, Running
<1>14. CASE Resume
  BY <1>14, <1>t, ResumeTypes DEF Typed, Resume
<1>15. CASE BackUpNow
  BY <1>15, <1>d, RunBackupTypes DEF Typed, BackUpNow
<1>16. CASE SetInterval
  BY <1>16 DEF Typed, SetInterval
<1>17. ASSUME NEW f \in Folders, AddSource(f) PROVE Typed'
  <2>1. watched' \subseteq Folders /\ folder' \in [Folders -> {"new", "on", "off", "removed"}]
    BY <1>17, <1>e DEF AddSource, Watch, Typed
  <2>2. /\ timer' \in BOOLEAN /\ run' \in RunType /\ resumeAfterStop' \in BOOLEAN
        /\ pausedRunRequest' \in Requests \cup {NoRequest}
        /\ Running' => run'.kind # "none"
    <3>1. {f} \in SUBSET Folders /\ timer \in BOOLEAN
      BY DEF Typed
    <3>2. QED BY <1>17, <3>1, RunBackupTypes DEF AddSource, Typed
  <2>3. scheduling' \in BOOLEAN /\ drainLost' \in BOOLEAN
    BY <1>17 DEF AddSource, Watch, Typed
  <2>4. QED BY <1>17, <2>1, <2>2, <2>3 DEF Typed, AddSource
<1>18. ASSUME NEW f \in Folders, EnableFolder(f) PROVE Typed'
  <2>1. folder' \in [Folders -> {"new", "on", "off", "removed"}]
    BY <1>18 DEF EnableFolder, Typed
  <2>2. watched' \subseteq Folders /\ scheduling' \in BOOLEAN /\ drainLost' \in BOOLEAN
    BY <1>18, <1>e, <2>1 DEF EnableFolder, Watch, Typed
  <2>3. QED BY <1>18, <2>1, <2>2 DEF Typed, EnableFolder
<1>19. ASSUME NEW f \in Folders, DisableFolder(f) PROVE Typed'
  BY <1>19 DEF Typed, DisableFolder, Unwatch
<1>20. ASSUME NEW f \in Folders, RemoveFolder(f) PROVE Typed'
  BY <1>20 DEF Typed, RemoveFolder, Unwatch
<1>21. ASSUME NEW t \in Tasks, BeginTask(t) PROVE Typed'
  <2>1. task' \in [Tasks -> {"off", "resume", "keep"}]
    BY <1>21 DEF BeginTask, Typed
  <2>2. QED BY <1>21, <1>s, <2>1 DEF Typed, BeginTask
<1>22. ASSUME NEW t \in Tasks, EndTask(t) PROVE Typed'
  <2>1. task' \in [Tasks -> {"off", "resume", "keep"}]
    BY <1>22 DEF EndTask, Typed
  <2>2. QED BY <1>22, <1>t, <2>1, ResumeTypes DEF Typed, EndTask
<1>23. CASE Restart
  <2>1. [kind |-> "full", ids |-> {}] \in Requests
    BY DEF Requests
  <2>2. QED BY <1>23, <1>d, <1>u, <2>1 DEF Typed, Restart, Running
<1>24. CASE UNCHANGED vars
  BY <1>24 DEF Typed, vars
<1>25. QED
  BY <1>1, <1>2, <1>3, <1>4, <1>5, <1>6, <1>7, <1>8, <1>9, <1>10, <1>11, <1>12, <1>13, <1>14,
     <1>15, <1>16, <1>17, <1>18, <1>19, <1>20, <1>21, <1>22, <1>23, <1>24 DEF Next, RunSteps

\* Every variable keeps its type, for any constants.
THEOREM TypeCorrect == Spec => []TypeOK
<1>1. Typed => TypeOK
  BY TypedIsTypeOK
<1>2. QED BY <1>1, TypeInit, TypeStep, PTL DEF Spec

-----------------------------------------------------------------------------
(* Pausing and resuming.  The two invariants say what holds at rest; the   *)
(* rest of Control says why, while a run that was told to stop unwinds.    *)

Control ==
  /\ PausedRunIsStopping
  /\ InterruptedRequestWaitsPaused
  /\ Running => pausedRunRequest = NoRequest
  /\ Running /\ run.cancel /\ ~paused => resumeAfterStop

\* A drain is asked of a run, and no pause comes on top of it.
Draining == draining => Running /\ ~paused

Safe == Typed /\ Control

\* The invariants hold when the program starts.
LEMMA SafeInit == Init => Safe /\ Draining
BY TypeInit, NoRunType DEF Init, Safe, Control, Draining, PausedRunIsStopping,
   InterruptedRequestWaitsPaused, Running

\* What the control of the worker depends on.
Kept == /\ UNCHANGED <<paused, draining, pausedRunRequest, resumeAfterStop>>
        /\ Running' <=> Running
        /\ Running => run'.cancel = run.cancel

\* A step that leaves pause, drain, run and requests alone keeps the invariant.
LEMMA KeptKeepsSafe ==
  ASSUME Safe, Kept
  PROVE  Control' /\ (Draining => Draining')
BY DEF Safe, Control, Kept, Draining, PausedRunIsStopping, InterruptedRequestWaitsPaused

\* Steps of a run, and commands that concern folders and the interval.
LEMMA OtherStepsKeep ==
  ASSUME Safe
  PROVE  /\ \A f \in Folders :
              (Change(f) \/ MarkDirtyForPath(f) \/ PlanFolder(f)
               \/ EnableFolder(f) \/ DisableFolder(f) \/ RemoveFolder(f)) => Kept
         /\ SelectFolders \/ FinishFolder \/ SetInterval \/ UNCHANGED vars => Kept
<1> USE DEF settings, catalog, services, worker
<1>1. ASSUME NEW f \in Folders,
             Change(f) \/ MarkDirtyForPath(f) \/ EnableFolder(f) \/ DisableFolder(f) \/ RemoveFolder(f)
      PROVE  Kept
  BY <1>1 DEF Kept, Change, MarkDirtyForPath, EnableFolder, DisableFolder, RemoveFolder, Running
<1>2. ASSUME NEW f \in Folders, PlanFolder(f) PROVE Kept
  <2>1. run'.kind = run.kind /\ run'.cancel = run.cancel
    BY <1>2 DEF PlanFolder, Safe, Typed, RunType
  <2>2. QED BY <1>2, <2>1, NoRunType DEF Kept, PlanFolder, MayStep, Running, Safe, Typed
<1>3. CASE SelectFolders \/ FinishFolder
  <2>1. run'.kind = run.kind /\ run'.cancel = run.cancel
    BY <1>3 DEF SelectFolders, FinishFolder, Safe, Typed, RunType
  <2>2. QED BY <1>3, <2>1, NoRunType DEF Kept, SelectFolders, FinishFolder, MayStep, Running, Safe,
            Typed
<1>4. CASE SetInterval \/ UNCHANGED vars
  BY <1>4 DEF Kept, SetInterval, vars, Running
<1>5. QED BY <1>1, <1>2, <1>3, <1>4

\* Nothing starts a run through a pause or a drain.
LEMMA RunBackupKeepsSafe ==
  ASSUME Safe, UNCHANGED <<paused, draining>>,
         NEW kind \in {"quick", "full"}, NEW ids, NEW armed,
         RunAllowed(kind, ids, armed) \/ RunBackup(kind, ids, armed)
  PROVE  Control' /\ (Draining => Draining')
<1>1. CASE UNCHANGED <<run, pausedRunRequest, resumeAfterStop>>
  BY <1>1, KeptKeepsSafe DEF Kept, Running
<1>2. CASE /\ ~paused /\ ~draining /\ ~Running /\ run' = NewRun(kind, ids)
           /\ pausedRunRequest' = NoRequest
  <2>1. run'.cancel = FALSE
    BY <1>2 DEF NewRun, NoRun
  <2>2. QED BY <1>2, <2>1 DEF Control, Draining, PausedRunIsStopping, InterruptedRequestWaitsPaused
<1>3. QED BY <1>1, <1>2 DEF RunAllowed, RunBackup

\* A resume runs what was interrupted, or sees to it that it is run when the
\* stopped run has unwound.
LEMMA ResumeKeepsSafe ==
  ASSUME Safe, paused' = FALSE, ResumeScheduledBackup(run, pausedRunRequest)
  PROVE  Control' /\ Draining'
<1>1. Running => Running' /\ run'.cancel = run.cancel
  BY NoRunType DEF ResumeScheduledBackup, Running, Safe, Typed, RunType
<1>2. Running' => Running
  BY DEF ResumeScheduledBackup, Running
<1>3. draining' = FALSE
  BY DEF ResumeScheduledBackup
<1>4. pausedRunRequest' = NoRequest
  BY DEF ResumeScheduledBackup, Safe, Control, Running
<1>5. Running /\ run.cancel => resumeAfterStop'
  BY DEF ResumeScheduledBackup, ResumeStopping, Running
<1>6. QED BY <1>1, <1>2, <1>3, <1>4, <1>5 DEF Control, Draining, PausedRunIsStopping,
          InterruptedRequestWaitsPaused

\* A run that unwinds leaves its request behind only under a pause.
LEMMA InterruptKeepsSafe ==
  ASSUME Safe, Interrupt
  PROVE  Control' /\ (Draining => Draining')
<1>1. ~Running'
  BY DEF Interrupt, Running
<1>2. Boundary /\ Running
  BY DEF Interrupt, MayStep
<1>3. InterruptedRequestWaitsPaused'
  BY <1>2 DEF Interrupt, Safe, Control, InterruptedRequestWaitsPaused
<1>4. Draining => Draining'
  BY <1>2 DEF Interrupt, Safe, Control, Draining
<1>5. QED BY <1>1, <1>3, <1>4 DEF Control, PausedRunIsStopping

\* The user, a task or a restart stops backups.
LEMMA StopKeepsSafe ==
  ASSUME Safe, Pause \/ PauseAfterCurrent \/ Restart \/ (\E t \in Tasks : BeginTask(t))
  PROVE  Control' /\ (Draining => Draining')
<1>1. CASE Pause
  <2>1. Running' => run'.cancel = TRUE
    BY <1>1 DEF Pause, StopBackup, Running, Safe, Typed, RunType
  <2>2. Running' => Running
    BY <1>1 DEF Pause, StopBackup, Running
  <2>3. paused' = TRUE /\ draining' = FALSE /\ pausedRunRequest' = pausedRunRequest
    BY <1>1 DEF Pause
  <2>4. QED BY <2>1, <2>2, <2>3 DEF Safe, Control, Draining, PausedRunIsStopping,
            InterruptedRequestWaitsPaused
<1>2. CASE PauseAfterCurrent
  <2>1. Running => Running' /\ run'.cancel = run.cancel
    BY <1>2, NoRunType DEF PauseAfterCurrent, Running, Safe, Typed, RunType
  <2>2. Running' => Running
    BY <1>2 DEF PauseAfterCurrent, Running
  <2>3. /\ ~paused /\ paused' = ~Running /\ draining' = Running
        /\ UNCHANGED <<pausedRunRequest, resumeAfterStop>>
    BY <1>2 DEF PauseAfterCurrent, RequestPauseAfterCurrent
  <2>4. Running \in BOOLEAN
    BY DEF Running
  <2>5. QED BY <2>1, <2>2, <2>3, <2>4 DEF Safe, Control, Draining, PausedRunIsStopping,
            InterruptedRequestWaitsPaused
<1>3. CASE Restart
  BY <1>3 DEF Restart, Control, Draining, PausedRunIsStopping, InterruptedRequestWaitsPaused, Running
<1>4. ASSUME NEW t \in Tasks, BeginTask(t) PROVE Control' /\ (Draining => Draining')
  BY <1>4 DEF BeginTask, Safe, Control, Draining, PausedRunIsStopping,
              InterruptedRequestWaitsPaused, Running
<1>5. QED BY <1>1, <1>2, <1>3, <1>4

\* A run that ends by itself was not told to stop and left nothing behind.
LEMMA EndKeepsSafe ==
  ASSUME Safe, Complete \/ RunFails
  PROVE  Control' /\ (Draining /\ Complete => Draining')
<1>1. ~Running' /\ UNCHANGED <<paused, draining, pausedRunRequest>> /\ Running
  BY DEF Complete, RunFails, Running, settings, MayStep
<1>2. Complete => ~draining
  BY DEF Complete, Boundary
<1>3. QED BY <1>1, <1>2 DEF Safe, Control, Draining, PausedRunIsStopping,
          InterruptedRequestWaitsPaused

\* The invariants are inductive.
LEMMA SafeStep ==
  ASSUME Safe, [Next]_vars
  PROVE  Safe' /\ (Draining /\ ~RunFails => Draining')
<1> USE DEF settings
<1> SUFFICES Control' /\ (Draining /\ ~RunFails => Draining')
  BY TypeStep DEF Safe
<1>1. ASSUME NEW f \in Folders,
             \/ Change(f) \/ MarkDirtyForPath(f) \/ PlanFolder(f)
             \/ EnableFolder(f) \/ DisableFolder(f) \/ RemoveFolder(f)
      PROVE  Control' /\ (Draining => Draining')
  BY <1>1, OtherStepsKeep, KeptKeepsSafe
<1>2. CASE SelectFolders \/ FinishFolder \/ SetInterval \/ UNCHANGED vars
  BY <1>2, OtherStepsKeep, KeptKeepsSafe
<1>3. CASE TimerFires \/ SchedulerTick \/ BackUpNow
  BY <1>3, RunBackupKeepsSafe DEF TimerFires, SchedulerTick, BackUpNow
<1>4. CASE RunImmediate
  <2>1. immediate.kind \in {"quick", "full"}
    BY <1>4 DEF RunImmediate, Safe, Typed, Requests
  <2>2. QED BY <1>4, <2>1, RunBackupKeepsSafe DEF RunImmediate
<1>5. ASSUME NEW f \in Folders, AddSource(f) PROVE Control' /\ (Draining => Draining')
  <2>1. CASE RunBackup("full", {f}, timer)
    BY <1>5, <2>1, RunBackupKeepsSafe DEF AddSource
  <2>2. CASE UNCHANGED <<timer, run, pausedRunRequest, resumeAfterStop>>
    BY <1>5, <2>2, KeptKeepsSafe DEF AddSource, Kept, Running
  <2>3. QED BY <1>5, <2>1, <2>2 DEF AddSource
<1>6. CASE Resume
  BY <1>6, ResumeKeepsSafe DEF Resume
<1>7. ASSUME NEW t \in Tasks, EndTask(t) PROVE Control' /\ (Draining => Draining')
  <2>1. CASE UNCHANGED <<paused, draining, run, pausedRunRequest, resumeAfterStop>>
    BY <2>1, KeptKeepsSafe DEF Kept, Running
  <2>2. CASE paused' = FALSE /\ ResumeScheduledBackup(run, pausedRunRequest)
    BY <2>2, ResumeKeepsSafe
  <2>3. QED BY <1>7, <2>1, <2>2 DEF EndTask
<1>8. CASE Interrupt
  BY <1>8, InterruptKeepsSafe
<1>9. CASE Pause \/ PauseAfterCurrent \/ Restart \/ (\E t \in Tasks : BeginTask(t))
  BY <1>9, StopKeepsSafe
<1>10. CASE Complete \/ RunFails
  BY <1>10, EndKeepsSafe
<1>11. QED
  BY <1>1, <1>2, <1>3, <1>4, <1>5, <1>6, <1>7, <1>8, <1>9, <1>10 DEF Next, RunSteps, Safe

\* No run goes on through a pause: a run under a pause was told to stop.
THEOREM PauseStopsRuns == Spec => []PausedRunIsStopping
<1>1. Safe /\ [Next]_vars => Safe'
  BY SafeStep
<1>2. Init => Safe
  BY SafeInit
<1>3. Safe => PausedRunIsStopping
  BY DEF Safe, Control
<1>4. QED BY <1>1, <1>2, <1>3, PTL DEF Spec

\* What a pause interrupted is run again by the resume, however often the
\* user pauses and resumes while the run unwinds.
THEOREM InterruptedRequestIsNotForgotten == Spec => []InterruptedRequestWaitsPaused
<1>1. Safe /\ [Next]_vars => Safe'
  BY SafeStep
<1>2. Init => Safe
  BY SafeInit
<1>3. Safe => InterruptedRequestWaitsPaused
  BY DEF Safe, Control
<1>4. QED BY <1>1, <1>2, <1>3, PTL DEF Spec

\* A drain ends with the run it was asked of, provided no run fails (the
\* finding of the README is what happens when one does).
THEOREM DrainEnds ==
  ASSUME "error" \notin Faults
  PROVE  Spec => []DrainOnlyWhileRunning
<1>1. Safe /\ Draining /\ [Next]_vars => Safe' /\ Draining'
  BY SafeStep DEF RunFails
<1>2. Init => Safe /\ Draining
  BY SafeInit
<1>3. Draining => DrainOnlyWhileRunning
  BY DEF Draining, DrainOnlyWhileRunning
<1>4. QED BY <1>1, <1>2, <1>3, PTL DEF Spec

-----------------------------------------------------------------------------
(* Automatic backups.  What the code promises is inductive as it stands:   *)
(* the end of a run that clears a drain is the step that drainLost marks,  *)
(* and a source loses its watcher only with another of its directory.      *)

LEMMA AutomaticInit == Init => AutomaticUnlessPaused
BY DEF Init, AutomaticUnlessPaused

\* What the services depend on.
LEMMA ServicesStay ==
  ASSUME Typed, AutomaticUnlessPaused, UNCHANGED <<paused, draining, manual, folder, services>>
  PROVE  AutomaticUnlessPaused'
BY DEF AutomaticUnlessPaused, services, Enabled

\* Starting the services ends every exception.
LEMMA StartIsAutomatic ==
  ASSUME StartServices, UNCHANGED folder
  PROVE  AutomaticUnlessPaused'
BY DEF AutomaticUnlessPaused, StartServices, Enabled

\* A run that unwinds clears a drain, and says so.
LEMMA InterruptIsAutomatic ==
  ASSUME Typed, AutomaticUnlessPaused, Interrupt
  PROVE  AutomaticUnlessPaused'
<1>1. UNCHANGED <<manual, folder, watched, scheduling>>
  BY DEF Interrupt
<1>2. ~paused' /\ ~draining' /\ ~drainLost' => ~paused /\ ~draining /\ ~drainLost
  BY DEF Interrupt
<1>3. QED BY <1>1, <1>2 DEF AutomaticUnlessPaused, Enabled

\* A source that is switched on is watched with its whole directory, and one
\* that is switched off accounts for those of its directory.
LEMMA FoldersStayAutomatic ==
  ASSUME Typed, AutomaticUnlessPaused, NEW f \in Folders,
         UNCHANGED settings,
         \/ folder' = [folder EXCEPT ![f] = "on"] /\ Watch(f)
         \/ \E off \in {"off", "removed"} :
              folder' = [folder EXCEPT ![f] = off] /\ Unwatch(f)
  PROVE  AutomaticUnlessPaused'
<1> SUFFICES ASSUME ~paused, ~draining, ~drainLost
             PROVE  /\ scheduling' \/ manual'
                    /\ \A g \in Enabled' \ watched' :
                         \E h \in Beside(g) \ {g} : folder'[h] \in {"off", "removed"}
  BY DEF AutomaticUnlessPaused, settings, Watch, Unwatch
<1>1. UNCHANGED <<scheduling, manual>>
  BY DEF settings, Watch, Unwatch
<1>2. ASSUME NEW g \in Enabled', g \notin watched'
      PROVE  \E h \in Beside(g) \ {g} : folder'[h] \in {"off", "removed"}
  <2>1. CASE g \in Enabled /\ g \notin watched
    <3>1. PICK h \in Beside(g) \ {g} : folder[h] \in {"off", "removed"}
      BY <2>1 DEF AutomaticUnlessPaused
    <3>2. h \in Folders
      BY <3>1, <2>1, DirectoriesAssumption DEF Beside, Enabled
    <3>3. CASE folder' = [folder EXCEPT ![f] = "on"] /\ Watch(f)
      <4>1. g \notin Beside(f)
        BY <3>3, <1>2 DEF Watch
      <4>2. h # f
        BY <4>1, <3>1 DEF Beside
      <4>3. QED BY <3>1, <3>2, <3>3, <4>2 DEF Typed
    <3>4. CASE \E off \in {"off", "removed"} :
                 folder' = [folder EXCEPT ![f] = off] /\ Unwatch(f)
      BY <3>1, <3>2, <3>4 DEF Typed
    <3>5. QED BY <3>3, <3>4
  <2>2. CASE g \notin Enabled \/ g \in watched
    <3>1. CASE folder' = [folder EXCEPT ![f] = "on"] /\ Watch(f)
      <4>1. g \in watched \/ g = f
        BY <2>2, <3>1, <1>2 DEF Enabled, Typed
      <4>2. g \in watched'
        BY <4>1, <3>1, <1>2 DEF Watch, Beside
      <4>3. QED BY <4>2, <1>2
    <3>2. ASSUME NEW off \in {"off", "removed"},
                 folder' = [folder EXCEPT ![f] = off], Unwatch(f)
          PROVE  \E h \in Beside(g) \ {g} : folder'[h] \in {"off", "removed"}
      <4>1. g \in Enabled /\ g # f
        BY <3>2, <1>2 DEF Enabled, Typed
      <4>2. g \in Beside(f)
        BY <4>1, <2>2, <3>2, <1>2 DEF Unwatch
      <4>3. f \in Beside(g)
        BY <4>1, <4>2 DEF Beside
      <4>4. folder'[f] = off
        BY <3>2 DEF Typed
      <4>5. QED BY <4>1, <4>3, <4>4, <3>2
    <3>3. QED BY <3>1, <3>2
  <2>3. QED BY <2>1, <2>2
<1>3. QED BY <1>1, <1>2 DEF AutomaticUnlessPaused

\* The services are on after every step that leaves backups on.
LEMMA AutomaticStep ==
  ASSUME Typed, AutomaticUnlessPaused, [Next]_vars
  PROVE  AutomaticUnlessPaused'
<1> USE DEF settings, catalog, worker
<1>1. ASSUME NEW f \in Folders, Change(f) \/ MarkDirtyForPath(f) \/ PlanFolder(f)
      PROVE  AutomaticUnlessPaused'
  BY <1>1, ServicesStay DEF Change, MarkDirtyForPath, PlanFolder
<1>2. ASSUME NEW f \in Folders,
             AddSource(f) \/ EnableFolder(f) \/ DisableFolder(f) \/ RemoveFolder(f)
      PROVE  AutomaticUnlessPaused'
  BY <1>2, FoldersStayAutomatic DEF AddSource, EnableFolder, DisableFolder, RemoveFolder
<1>3. CASE TimerFires \/ SchedulerTick \/ BackUpNow \/ RunImmediate
  BY <1>3, ServicesStay DEF TimerFires, SchedulerTick, BackUpNow, RunImmediate
<1>4. CASE SelectFolders \/ Complete \/ RunFails \/ UNCHANGED vars
  BY <1>4, ServicesStay DEF SelectFolders, Complete, RunFails, vars
<1>5. CASE FinishFolder
  <2>1. UNCHANGED <<settings, services>> /\ folder' \in [Folders -> {"new", "on", "off", "removed"}]
    BY <1>5 DEF FinishFolder, Typed
  <2>2. \A f \in Folders : folder'[f] = folder[f] \/ folder[f] = "on"
    BY <1>5 DEF FinishFolder, Typed
  <2>3. Enabled' \subseteq Enabled
    BY <1>5 DEF FinishFolder, Enabled, Typed
  <2>4. \A f \in Folders : folder[f] \in {"off", "removed"} => folder'[f] \in {"off", "removed"}
    BY <2>2
  <2>5. \A g \in Enabled : Beside(g) \subseteq Folders
    BY DirectoriesAssumption DEF Beside, Enabled
  <2>6. QED BY <2>1, <2>3, <2>4, <2>5 DEF AutomaticUnlessPaused, services
<1>6. CASE Interrupt
  BY <1>6, InterruptIsAutomatic
<1>7. CASE Pause \/ PauseAfterCurrent
  BY <1>7 DEF Pause, PauseAfterCurrent, RequestPauseAfterCurrent, Running, AutomaticUnlessPaused
<1>8. CASE Resume
  BY <1>8, StartIsAutomatic DEF Resume
<1>9. ASSUME NEW t \in Tasks, BeginTask(t) PROVE AutomaticUnlessPaused'
  BY <1>9 DEF BeginTask, AutomaticUnlessPaused
<1>10. ASSUME NEW t \in Tasks, EndTask(t) PROVE AutomaticUnlessPaused'
  BY <1>10, StartIsAutomatic, ServicesStay DEF EndTask
<1>11. CASE Restart
  BY <1>11 DEF Restart, AutomaticUnlessPaused, Enabled
<1>12. CASE SetInterval
  BY <1>12 DEF SetInterval, AutomaticUnlessPaused, Enabled
<1>13. QED
  BY <1>1, <1>2, <1>3, <1>4, <1>5, <1>6, <1>7, <1>8, <1>9, <1>10, <1>11, <1>12 DEF Next, RunSteps

\* While backups are on, the scheduler is on, unless it is set to manual, and
\* every enabled source is watched, through runs, failures, pauses, drains,
\* tasks and restarts, with the two exceptions the property names.
THEOREM BackupsAreAutomatic == Spec => []AutomaticUnlessPaused
<1>1. Typed /\ AutomaticUnlessPaused /\ [Next]_vars => (Typed /\ AutomaticUnlessPaused)'
  BY TypeStep, AutomaticStep
<1>2. Init => Typed /\ AutomaticUnlessPaused
  BY TypeInit, AutomaticInit
<1>3. QED BY <1>1, <1>2, PTL DEF Spec
=============================================================================
