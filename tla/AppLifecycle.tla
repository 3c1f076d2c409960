---------------------------- MODULE AppLifecycle ----------------------------
(***************************************************************************)
(* The program as a process (index.js): start, windows, quit, updates, and *)
(* the session file from which the next start learns whether the last one  *)
(* ended cleanly (crashMonitor.js).  Quitting saves the database for at    *)
(* most five seconds; an update restarts the program after doing the same. *)
(***************************************************************************)
EXTENDS Naturals

CONSTANTS MaxChanges,     \* bound: changes of the database document
          MaxDeaths,      \* bound: renderer processes that die
          LifeFaults      \* "crash" of the program, "flush" fails or takes too long, "update" a
                          \* check or a download fails, "install" quitAndInstall throws

LifecycleAssumption ==
  /\ MaxChanges \in Nat /\ MaxDeaths \in Nat
  /\ LifeFaults \subseteq {"crash", "flush", "update", "install"}

VARIABLES
  life,          \* "off"; "opening" until the services start; "open"
  quit,          \* isQuitting, quitCleanupStarted, quitDatabaseFlushPromise, and a quit
                 \* that nothing holds back
  flush,         \* quitDatabaseFlushComplete, and whether the flush succeeded
  install,       \* how far restartAndInstallUpdate is
  mainWindow,    \* of the main process
  renderer,      \* the process behind it
  deaths,        \* how often that process died
  services,      \* watcher and schedulers
  changes, written,   \* the document's changes, and those in the file
  updateStatus,  \* updateStatus.status
  check,         \* updateCheckPromise
  download,      \* what electron-updater has of the new version
  version,       \* the installed version
  session,       \* current-session.json
  clean,         \* (ghost) the last session ended through will-quit
  owed           \* (ghost) the changes there were when the quit began

lifeVars == <<life, quit, flush, install, mainWindow, renderer, deaths, services, changes, written,
              updateStatus, check, download, version, session, clean, owed>>

Statuses == {"idle", "checking", "up-to-date", "available", "downloading", "downloaded", "error",
             "installing"}
NoQuit == [asked |-> FALSE, cleaned |-> FALSE, flushing |-> FALSE, leaving |-> FALSE]

TypeOK ==
  /\ life \in {"off", "opening", "open"} /\ quit \in [DOMAIN NoQuit -> BOOLEAN]
  /\ flush \in {"none", "saved", "lost"}
  /\ install \in {"none", "flushing", "ready"}
  /\ mainWindow \in {"none", "hidden", "shown"} /\ renderer \in {"ok", "reloading", "dead"}
  /\ deaths \in 0 .. MaxDeaths
  /\ changes \in 0 .. MaxChanges /\ written \in 0 .. changes /\ owed \in 0 .. MaxChanges
  /\ updateStatus \in Statuses /\ download \in {"none", "running", "file"}
  /\ version \in {"old", "new"} /\ session \in {"none", "running", "clean"}
  /\ \A b \in {services, check, clean} : b \in BOOLEAN

Init ==
  /\ life = "off" /\ quit = NoQuit /\ flush = "none" /\ install = "none"
  /\ mainWindow = "none" /\ renderer = "ok" /\ deaths = 0 /\ services = FALSE
  /\ changes = 0 /\ written = 0 /\ updateStatus = "idle" /\ check = FALSE /\ download = "none"
  /\ version = "old" /\ session = "none" /\ clean = TRUE /\ owed = 0

Window   == <<mainWindow, renderer, deaths>>
Document == <<changes, written>>
Updates  == <<updateStatus, check, download>>
Kept     == <<version, session, clean>>
Quitting == <<quit, flush, install, owed>>

-----------------------------------------------------------------------------
(* Start and services. *)

BeginSession == session' = "running" /\ clean' = FALSE
EndSession   == session' = "clean" /\ clean' = TRUE

\* With --hidden the window stays hidden.
CreateWindow == mainWindow' \in {"hidden", "shown"} /\ renderer' = "ok"

\* A start without the database quits before it begins a session.
Ready ==
  /\ life = "off" /\ life' = "opening" /\ quit' = NoQuit /\ flush' = "none" /\ install' = "none"
  /\ BeginSession /\ CreateWindow /\ changes' = written /\ owed' = 0
  /\ updateStatus' = "idle" /\ check' = FALSE
  /\ UNCHANGED <<deaths, services, written, download, version>>

\* After ensureUnifiedCloudLayout, whatever happened in the meantime.
StartServices ==
  /\ life = "opening" /\ life' = "open" /\ services' = TRUE
  /\ UNCHANGED <<Quitting, Window, Document, Updates, Kept>>

Change ==
  /\ life # "off" /\ changes < MaxChanges /\ changes' = changes + 1
  /\ UNCHANGED <<life, Quitting, Window, services, written, Updates, Kept>>

\* The timer of database.js.
Save ==
  /\ life # "off" /\ written < changes /\ written' = changes
  /\ UNCHANGED <<life, Quitting, Window, services, changes, Updates, Kept>>

-----------------------------------------------------------------------------
(* Windows. *)

ShowMainWindow ==
  /\ life # "off" /\ mainWindow = "hidden" /\ mainWindow' = "shown"
  /\ UNCHANGED <<life, Quitting, renderer, deaths, services, Document, Updates, Kept>>

\* Closing the window hides it.
CloseWindow ==
  /\ life # "off" /\ ~quit.asked /\ mainWindow = "shown" /\ mainWindow' = "hidden"
  /\ UNCHANGED <<life, Quitting, renderer, deaths, services, Document, Updates, Kept>>

\* A process that dies is reloaded, but not the third time in a minute.
RecoverRenderer ==
  /\ life # "off" /\ mainWindow # "none" /\ renderer = "ok" /\ deaths < MaxDeaths
  /\ deaths' = deaths + 1
  /\ renderer' = IF quit.asked \/ deaths >= 2 THEN "dead" ELSE "reloading"
  /\ UNCHANGED <<life, Quitting, mainWindow, services, Document, Updates, Kept>>

Reload ==
  /\ life # "off" /\ renderer = "reloading"
  /\ renderer' = IF quit.asked THEN "dead" ELSE "ok"
  /\ UNCHANGED <<life, Quitting, mainWindow, deaths, services, Document, Updates, Kept>>

\* A minute without a death.
Forget ==
  /\ renderer = "ok" /\ deaths > 0 /\ deaths' = 0
  /\ UNCHANGED <<life, Quitting, mainWindow, renderer, services, Document, Updates, Kept>>

-----------------------------------------------------------------------------
(* Quit. *)

Begun == [quit EXCEPT !.asked = TRUE, !.cleaned = TRUE]

BeginQuitCleanup ==
  /\ services' = (services /\ quit.cleaned)
  /\ owed' = IF quit.cleaned THEN owed ELSE changes

\* before-quit: it waits for the flush, and passes when one is over.
Quit ==
  /\ life # "off" /\ BeginQuitCleanup
  /\ quit' = IF flush = "none" THEN [Begun EXCEPT !.flushing = TRUE] ELSE [Begun EXCEPT !.leaving = TRUE]
  /\ UNCHANGED <<life, flush, install, Window, Document, Updates, Kept>>

\* Mutant: the flush is taken for done before it is.
FlushedAtOnce == flush' = "saved" /\ UNCHANGED written

Flushed ==
  \/ flush' = "saved" /\ written' = changes
  \/ "flush" \in LifeFaults /\ flush' = "lost" /\ UNCHANGED written

\* flushWritesAsync, or its five seconds are over; then app.quit() again.
FlushEnds ==
  /\ life # "off" /\ quit.flushing /\ Flushed
  /\ quit' = [Begun EXCEPT !.flushing = FALSE, !.leaving = TRUE]
  /\ UNCHANGED <<life, install, Window, services, changes, owed, Updates, Kept>>

\* A downloaded version is installed when the program ends (autoInstallOnAppQuit).
Installed == IF download = "file" THEN "new" ELSE version

\* will-quit: endSession.
WillQuit ==
  /\ life # "off" /\ quit.leaving
  /\ life' = "off" /\ mainWindow' = "none" /\ renderer' = "ok" /\ services' = FALSE
  /\ EndSession /\ version' = Installed /\ download' = "none"
  /\ UNCHANGED <<Quitting, deaths, Document, updateStatus, check>>

\* A crash, a power failure, or a shutdown of Windows that does not wait.
Crash ==
  /\ "crash" \in LifeFaults /\ life # "off" /\ life' = "off"
  /\ mainWindow' = "none" /\ renderer' = "ok" /\ services' = FALSE
  /\ download' = IF download = "running" THEN "none" ELSE download
  /\ UNCHANGED <<Quitting, deaths, Document, updateStatus, check, Kept>>

-----------------------------------------------------------------------------
(* Updates. *)

CheckForLabSuiteUpdates ==
  /\ life # "off" /\ updateStatus # "downloaded" /\ ~check
  /\ check' = TRUE /\ updateStatus' = "checking"
  /\ UNCHANGED <<life, Quitting, Window, services, Document, download, Kept>>

\* update-available starts the download, or finds it done before.
CheckEnds ==
  /\ life # "off" /\ check /\ check' = FALSE
  /\ \/ version = "new" /\ updateStatus' = "up-to-date" /\ UNCHANGED download
     \/ /\ version = "old" /\ updateStatus' = "available"
        /\ download' = IF download = "file" THEN "file" ELSE "running"
     \/ "update" \in LifeFaults /\ updateStatus' = "error" /\ UNCHANGED download
  /\ UNCHANGED <<life, Quitting, Window, services, Document, Kept>>

DownloadProgress ==
  /\ life # "off" /\ download = "running" /\ updateStatus' = "downloading"
  /\ UNCHANGED <<life, Quitting, Window, services, Document, check, download, Kept>>

UpdateDownloaded ==
  /\ life # "off" /\ \/ download = "running"
                     \/ download = "file" /\ updateStatus = "available"
  /\ download' = "file" /\ updateStatus' = "downloaded"
  /\ UNCHANGED <<life, Quitting, Window, services, Document, check, Kept>>

DownloadFails ==
  /\ life # "off" /\ "update" \in LifeFaults /\ download = "running"
  /\ download' = "none" /\ updateStatus' = "error"
  /\ UNCHANGED <<life, Quitting, Window, services, Document, check, Kept>>

RestartAndInstallUpdate ==
  /\ life # "off" /\ updateStatus = "downloaded" /\ install = "none" /\ install' = "flushing"
  /\ BeginQuitCleanup /\ quit' = Begun
  /\ UNCHANGED <<life, flush, Window, Document, Updates, Kept>>

\* The window is gone before quitAndInstall runs.
InstallFlushEnds ==
  /\ life # "off" /\ install = "flushing" /\ install' = "ready"
  /\ Flushed /\ updateStatus' = "installing" /\ mainWindow' = "none"
  /\ UNCHANGED <<life, quit, renderer, deaths, services, changes, check, download, owed, Kept>>

QuitAndInstall ==
  /\ life # "off" /\ install = "ready" /\ install' = "none"
  /\ \/ quit' = [quit EXCEPT !.leaving = TRUE] /\ UNCHANGED updateStatus
     \/ "install" \in LifeFaults /\ quit' = [quit EXCEPT !.asked = FALSE] /\ updateStatus' = "error"
  /\ UNCHANGED <<life, flush, Window, services, Document, check, download, owed, Kept>>

Next ==
  \/ Ready \/ StartServices \/ Change \/ Save
  \/ ShowMainWindow \/ CloseWindow \/ RecoverRenderer \/ Reload \/ Forget
  \/ Quit \/ FlushEnds \/ WillQuit \/ Crash
  \/ CheckForLabSuiteUpdates \/ CheckEnds \/ DownloadProgress \/ UpdateDownloaded \/ DownloadFails
  \/ RestartAndInstallUpdate \/ InstallFlushEnds \/ QuitAndInstall

Spec == Init /\ [][Next]_lifeVars

-----------------------------------------------------------------------------
(* Properties. *)

\* A session that ended through will-quit has in its file every change there was when the
\* quit began, also when the quit met an update that was being installed, unless saving
\* failed or took more than five seconds.
QuitSaves == life = "off" /\ session = "clean" => written >= owed \/ flush = "lost"

\* What a start takes for an unclean exit is one: the session before it ended otherwise
\* than through will-quit.
UncleanIsReported == life = "off" => (session = "running" <=> ~clean)

\* An update shown as ready is there to be installed, and one shown as on its way is
\* being downloaded or is there: also when checks, downloads and failures overlap.
UpdateAsShown ==
  /\ updateStatus = "downloaded" /\ life # "off" => download = "file"
  /\ updateStatus \in {"available", "downloading"} /\ life # "off" => download # "none"

\* While nobody quits the program has a window that can be shown, and services that run.
ReachableUnlessQuitting ==
  life = "open" /\ ~quit.asked => mainWindow # "none" /\ services

LifecycleAsTold == QuitSaves /\ UncleanIsReported /\ UpdateAsShown /\ ReachableUnlessQuitting
=============================================================================
