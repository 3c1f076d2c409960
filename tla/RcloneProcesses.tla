--------------------------- MODULE RcloneProcesses --------------------------
(***************************************************************************)
(* The rclone processes that the program runs (main/rclone.js): the        *)
(* registry of transfers, their cancellation and time limits, and the      *)
(* bandwidth that each is told through the port it listens on.             *)
(*                                                                         *)
(* Bandwidths are numbers, 0 for no limit.  The smart throttle turns idle  *)
(* time into one of two, which the clock moves only as fast as it passes.  *)
(*                                                                         *)
(* Two servers a user opens on this PC: the web restore, an HTTP server in *)
(* the program that reads the vault with one rclone per download           *)
(* (main/rclone.js), and the folder shared over WebDAV, an rclone of its   *)
(* own (main/webdavServer.js).                                             *)
(***************************************************************************)
EXTENDS Naturals, FiniteSets, FiniteSetsExt

CONSTANTS Runs,       \* bound: calls of runRclone
          Limits,     \* limits the user can set
          MaxEvents   \* bound: settings changed and times the user leaves or returns

RunsAssumption == IsFiniteSet(Runs) /\ Limits \subseteq Nat /\ 0 \in Limits /\ MaxEvents \in Nat

\* The limits of the smart throttle: while the user works, and while not.
Working == 1
Idle    == 2

VARIABLES
  run,        \* of each call: what it is, how far it is
  monitor,    \* smartThrottleInterval
  applied,    \* lastAppliedBwlimit, 0 for none
  smart,      \* the setting smart_throttle_enabled
  bwlimit,    \* the setting bwlimit
  idle,       \* the user is away
  events      \* so far

rcloneVars == <<run, monitor, applied, smart, bwlimit, idle, events>>

Operations == {"backup", "general"}

\* "transfer" copies or moves under transfer controls, "control" without,
\* "query" reads; the last two may have a time limit.
Commands == {"transfer", "control", "query"}

NotRun == [state |-> "none", command |-> "query", operation |-> "general", port |-> 0, limit |-> 0,
           cancelled |-> FALSE, answer |-> "none"]

MaxPort == Cardinality(Runs)

TypeOK ==
  /\ run \in [Runs -> [state : {"none", "running", "dying", "gone"}, command : Commands,
                       operation : Operations, port : 0 .. MaxPort,
                       limit : Limits \cup {Working, Idle}, cancelled : BOOLEAN,
                       answer : {"none", "ok", "error", "cancelled", "timeout"}]]
  /\ monitor \in BOOLEAN /\ applied \in {0, Working, Idle} /\ smart \in BOOLEAN
  /\ bwlimit \in Limits /\ idle \in BOOLEAN /\ events \in 0 .. MaxEvents

Init ==
  /\ run = [r \in Runs |-> NotRun]
  /\ monitor = FALSE /\ applied = 0 /\ smart \in BOOLEAN
  /\ bwlimit = 0 /\ idle = FALSE /\ events = 0

IsTransfer(r) == run[r].command \in {"transfer", "control"}

\* activeRcloneProcesses.
Registered == {r \in Runs : run[r].state # "none" /\ IsTransfer(r) /\ run[r].answer = "none"}

\* Mutant: the port of a transfer is free as soon as it is cancelled.
GetFreeRcPortEarly == Min(1 .. MaxPort \ {run[r].port : r \in {q \in Registered : ~run[q].cancelled}})

\* getFreeRcPort.
GetFreeRcPort == Min(1 .. MaxPort \ {run[r].port : r \in Registered})

\* getSmartBwlimit, as far as idle time decides it.
GetSmartBwlimit == IF idle THEN Idle ELSE Working

\* getCurrentBwlimit; what the schedule says is one more setting.
GetCurrentBwlimit == IF smart THEN GetSmartBwlimit ELSE bwlimit

\* runRclone: the process is spawned and, if a transfer, registered.
Spawn(r) ==
  /\ run[r].state = "none"
  /\ \E c \in Commands, o \in Operations :
       /\ run' = [run EXCEPT ![r] =
                    [NotRun EXCEPT !.state = "running", !.command = c, !.operation = o,
                                   !.port = IF c = "transfer" THEN GetFreeRcPort ELSE 0,
                                   !.limit = IF c = "transfer" THEN GetCurrentBwlimit ELSE 0]]
       /\ monitor' = (monitor \/ (smart /\ c = "transfer"))
  /\ UNCHANGED <<applied, smart, bwlimit, idle, events>>

\* resolveOnce and rejectOnce; with the last transfer the monitor goes.
Settle(r, state, answer) ==
  /\ run' = [run EXCEPT ![r].state = state, ![r].answer = IF @ = "none" THEN answer ELSE @]
  /\ LET last == Registered = {r} IN
     /\ monitor' = (monitor /\ ~last)
     /\ applied' = IF last THEN 0 ELSE applied
  /\ UNCHANGED <<smart, bwlimit, idle, events>>

\* The close event: a cancelled call fails, also when rclone had done its work.
Closes(r) ==
  /\ run[r].state \in {"running", "dying"}
  /\ \E code \in {"ok", "error"} :
       /\ run[r].state = "dying" => code = "error"
       /\ Settle(r, "gone", IF run[r].cancelled THEN "cancelled" ELSE code)

\* rclone could not be spawned.
SpawnFails(r) ==
  /\ run[r].state = "running" /\ ~run[r].cancelled
  /\ Settle(r, "gone", "error")

\* The time limit: the caller goes on while the process is being ended.
TimesOut(r) ==
  /\ run[r].state = "running" /\ run[r].command \in {"query", "control"}
  /\ Settle(r, "dying", "timeout")

\* cancelOperation: a process that cannot be killed goes on.
CancelOperation(o) ==
  LET hit == {r \in Registered : run[r].operation = o /\ ~run[r].cancelled} IN
  /\ hit # {}
  /\ \E killed \in SUBSET hit :
       run' = [r \in Runs |-> IF r \notin hit THEN run[r]
                              ELSE [run[r] EXCEPT !.cancelled = TRUE,
                                                  !.state = IF r \in killed THEN "dying" ELSE @]]
  /\ UNCHANGED <<monitor, applied, smart, bwlimit, idle, events>>

\* core/bwlimit over the port of every registered transfer; those being ended, and
\* those whose port is not open yet, do not hear it.
Push(limit) ==
  \E hears \in SUBSET {r \in Registered : run[r].port # 0} :
    run' = [r \in Runs |-> IF r \in hears THEN [run[r] EXCEPT !.limit = limit] ELSE run[r]]

\* The monitor looks every 10 s, and pushes what has changed since it last did.
MonitorTicks ==
  /\ monitor /\ smart /\ Registered # {}
  /\ GetSmartBwlimit # applied
  /\ applied' = GetSmartBwlimit
  /\ Push(GetSmartBwlimit)
  /\ UNCHANGED <<monitor, smart, bwlimit, idle, events>>

\* The user sets a limit: applyBwlimitToActiveProcesses.
SetBwlimit(limit) ==
  /\ limit # bwlimit /\ events < MaxEvents
  /\ events' = events + 1
  /\ bwlimit' = limit
  /\ Push(limit)
  /\ UNCHANGED <<monitor, applied, smart, idle>>

SetSmart ==
  /\ events < MaxEvents
  /\ events' = events + 1
  /\ smart' = ~smart
  /\ UNCHANGED <<run, monitor, applied, bwlimit, idle>>

LeaveOrReturn ==
  /\ events < MaxEvents
  /\ events' = events + 1
  /\ idle' = ~idle
  /\ UNCHANGED <<run, monitor, applied, smart, bwlimit>>

Next ==
  \/ \E r \in Runs : Spawn(r) \/ Closes(r) \/ SpawnFails(r) \/ TimesOut(r)
  \/ \E o \in Operations : CancelOperation(o)
  \/ MonitorTicks \/ SetSmart \/ LeaveOrReturn
  \/ \E limit \in Limits : SetBwlimit(limit)


-----------------------------------------------------------------------------

\* Two processes that are alive never listen on one port, also while one of them
\* is being ended: the limit of one would reach the other, and the one that
\* comes second could not start.
PortsApart ==
  \A r, q \in Runs :
    (r # q /\ run[r].port # 0 /\ run[r].port = run[q].port) => "gone" \in {run[r].state, run[q].state}

-----------------------------------------------------------------------------

CONSTANTS MaxServers,    \* bound: starts of each server; also the ports that are tried
          Downloads,     \* bound: downloads
          Overlaps       \* a start may begin while another is underway

ServersAssumption == MaxServers \in Nat \ {0} /\ IsFiniteSet(Downloads) /\ Overlaps \in BOOLEAN

Servers == 1 .. MaxServers
None    == 0

VARIABLES
  web,        \* each start of the web restore: how far it is, and its port
  webServer,  \* serveServer
  taken,      \* ports that other programs hold
  download,   \* each download: its rclone
  killable,   \* activeServeDownloads
  share,      \* each start of the WebDAV server: its process
  handle,     \* webdavProcess
  shown       \* webdavStatus, the address and password the page shows

webVars    == <<web, webServer, taken, download, killable>>
shareVars  == <<share, handle, shown>>
serverVars == <<webVars, shareVars>>

ServerTypeOK ==
  /\ web \in [Servers -> [at : {"none", "probing", "found", "listening", "closed"},
                          port : 0 .. MaxServers + 1]]
  /\ webServer \in Servers \cup {None} /\ taken \subseteq Servers
  /\ download \in [Downloads -> {"none", "asked", "running", "dying", "gone"}]
  /\ killable \subseteq Downloads
  /\ share \in [Servers -> {"none", "starting", "serving", "dying", "gone"}]
  /\ handle \in Servers \cup {None} /\ shown \in Servers \cup {None}

ServerInit ==
  /\ web = [s \in Servers |-> [at |-> "none", port |-> 0]] /\ webServer = None
  /\ taken \in SUBSET Servers
  /\ download = [d \in Downloads |-> "none"] /\ killable = {}
  /\ share = [s \in Servers |-> "none"] /\ handle = None /\ shown = None

-----------------------------------------------------------------------------
(* The web restore. *)

Listening == {s \in Servers : web[s].at = "listening"}

IsFree(port) == port \notin taken \cup {web[s].port : s \in Listening}

\* startHttpServer, unless it serves already.
StartWeb(s) ==
  /\ webServer = None /\ web[s].at = "none" /\ \A t \in 1 .. s - 1 : web[t].at # "none"
  /\ Overlaps \/ \A t \in Servers : web[t].at \notin {"probing", "found"}
  /\ web' = [web EXCEPT ![s].at = "probing"]
  /\ UNCHANGED <<webServer, taken, download, killable, shareVars>>

\* findFreePort: the first port that could be bound, and is let go again.
FindFreePort(s) ==
  /\ web[s].at = "probing"
  /\ \E port \in 1 .. MaxServers + 1 :
       /\ IsFree(port) /\ \A p \in 1 .. port - 1 : ~IsFree(p)
       /\ web' = [web EXCEPT ![s] = [at |-> "found", port |-> port]]
  /\ UNCHANGED <<webServer, taken, download, killable, shareVars>>

\* listen(): the server is known from here on, whatever was stopped meanwhile.
WebListens(s) ==
  /\ web[s].at = "found" /\ IsFree(web[s].port)
  /\ web' = [web EXCEPT ![s].at = "listening"]
  /\ webServer' = s
  /\ UNCHANGED <<taken, download, killable, shareVars>>

\* Somebody took the port in between.
WebFails(s) ==
  /\ web[s].at = "found" /\ ~IsFree(web[s].port)
  /\ web' = [web EXCEPT ![s].at = "closed"]
  /\ webServer' = None
  /\ UNCHANGED <<taken, download, killable, shareVars>>

OtherProgramListens ==
  /\ \E port \in Servers : IsFree(port) /\ taken' = taken \cup {port}
  /\ UNCHANGED <<web, webServer, download, killable, shareVars>>

\* handleServeDownload waits for the metadata, then spawns.
AskForDownload(d) ==
  /\ Listening # {} /\ download[d] = "none"
  /\ download' = [download EXCEPT ![d] = "asked"]
  /\ UNCHANGED <<web, webServer, taken, killable, shareVars>>

DownloadBegins(d) ==
  /\ download[d] = "asked"
  /\ download' = [download EXCEPT ![d] = "running"]
  /\ killable' = killable \cup {d}
  /\ UNCHANGED <<web, webServer, taken, shareVars>>

\* The browser goes away: its download is killed.
BrowserCloses(d) ==
  /\ download[d] = "running"
  /\ download' = [download EXCEPT ![d] = "dying"]
  /\ UNCHANGED <<web, webServer, taken, killable, shareVars>>

DownloadEnds(d) ==
  /\ download[d] \in {"running", "dying"}
  /\ download' = [download EXCEPT ![d] = "gone"]
  /\ killable' = killable \ {d}
  /\ UNCHANGED <<web, webServer, taken, shareVars>>

\* Mutant: the server is forgotten before it is closed.
StopWebForgets ==
  /\ download' = [d \in Downloads |-> IF d \in killable /\ download[d] = "running" THEN "dying" ELSE download[d]]
  /\ killable' = {} /\ webServer' = None
  /\ UNCHANGED <<web, taken, shareVars>>

\* stopHttpServer.  A start that is underway goes on; so does a download that
\* still waits for its metadata.
StopWeb ==
  /\ download' = [d \in Downloads |-> IF d \in killable /\ download[d] = "running" THEN "dying" ELSE download[d]]
  /\ killable' = {}
  /\ web' = IF webServer = None THEN web ELSE [web EXCEPT ![webServer].at = "closed"]
  /\ webServer' = None
  /\ UNCHANGED <<taken, shareVars>>

-----------------------------------------------------------------------------
(* The shared folder. *)

\* startWebdavServer throws while there is a process.
StartShare(s) ==
  /\ handle = None /\ share[s] = "none" /\ \A t \in 1 .. s - 1 : share[t] # "none"
  /\ Overlaps \/ \A t \in Servers : share[t] # "dying"
  /\ share' = [share EXCEPT ![s] = "starting"]
  /\ handle' = s
  /\ UNCHANGED <<shown, webVars>>

\* One second later, if it is still the one and has not ended.
ShareServes(s) ==
  /\ share[s] = "starting" /\ handle = s
  /\ share' = [share EXCEPT ![s] = "serving"]
  /\ shown' = s
  /\ UNCHANGED <<handle, webVars>>

\* rclone ends, by itself or killed.
ShareCloses(s) ==
  /\ share[s] \in {"starting", "serving", "dying"}
  /\ share' = [share EXCEPT ![s] = "gone"]
  /\ handle' = IF handle = s THEN None ELSE handle
  /\ shown' = None
  /\ UNCHANGED webVars

StopShare ==
  /\ share' = IF handle = None THEN share ELSE [share EXCEPT ![handle] = "dying"]
  /\ handle' = None /\ shown' = None
  /\ UNCHANGED webVars

ServerNext ==
  \/ \E s \in Servers :
       \/ StartWeb(s) \/ FindFreePort(s) \/ WebListens(s) \/ WebFails(s)
       \/ StartShare(s) \/ ShareServes(s) \/ ShareCloses(s)
  \/ \E d \in Downloads :
       AskForDownload(d) \/ DownloadBegins(d) \/ BrowserCloses(d) \/ DownloadEnds(d)
  \/ OtherProgramListens \/ StopWeb \/ StopShare


-----------------------------------------------------------------------------

\* Whatever is open can be closed: a listening web restore is the one that Stop
\* closes, a serving WebDAV process is the one whose password is shown and that
\* Stop kills.  With starts that overlap it does not hold.
OpenIsKnown ==
  /\ Listening \subseteq {webServer}
  /\ \A s \in Servers : share[s] = "serving" => handle = s /\ shown = s
=============================================================================
