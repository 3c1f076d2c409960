---------------------------- MODULE MediaWidget ----------------------------
(***************************************************************************)
(* The helper process of LabMedia (main/mediaWidget.js): started, stopped, *)
(* restarted by the user and after a crash, with a stop that waits for the *)
(* exit of the process while everything else goes on.  The session that    *)
(* the helper shows is left out.                                           *)
(*                                                                         *)
(* And the connection of LabMedia to the YTmusic app                       *)
(* (ytmDesktopProvider.js): pairing, the token in the keychain, the        *)
(* realtime socket, the answers of a server that the user closes or that   *)
(* no longer accepts the token.  A call waits for answers while others     *)
(* run; between two answers it has a phase.  Tokens are numbered as        *)
(* YTmusic hands them out.  The commands that wait for the one being sent, *)
(* and what is played, are left out.                                       *)
(***************************************************************************)
EXTENDS Naturals, FiniteSets

CONSTANTS MaxHelpers,   \* bound: processes started
          MaxCrashes,   \* MAX_CRASHES_PER_WINDOW
          Overlaps      \* the app list and the settings change at any time; a call of the
                        \* user to YTmusic may begin while another is under way, and an
                        \* answer come after the user's approval

WidgetAssumption == MaxHelpers \in Nat \ {0} /\ MaxCrashes \in Nat \ {0} /\ Overlaps \in BOOLEAN

Helpers == 1 .. MaxHelpers
None    == 0

VARIABLES
  installed, enabled,   \* settings
  childProcess,
  helpers,              \* the processes that live
  spawned,              \* processes started so far
  intentionalStops,
  stops,                \* the calls of stopWidget that wait, and whether they restart
  currentState, restartTimer,
  crashHistory          \* length of the list

widgetVars == <<installed, enabled, childProcess, helpers, spawned, intentionalStops, stops,
                currentState, restartTimer, crashHistory>>

TypeOK ==
  /\ installed \in BOOLEAN /\ enabled \in BOOLEAN /\ restartTimer \in BOOLEAN
  /\ childProcess \in {None} \cup helpers
  /\ helpers \subseteq 1 .. spawned /\ spawned \in 0 .. MaxHelpers
  /\ intentionalStops \subseteq helpers
  /\ stops \subseteq [helper : Helpers, restart : BOOLEAN]
  /\ currentState \in {"stopped", "starting", "no_session", "error"}
  /\ crashHistory \in 0 .. MaxHelpers

\* startWidget, while the processes in alive live; it fails without a configuration
\* file or a program to run.
StartWidget(alive) ==
  \/ ~(installed' /\ enabled') /\ currentState' = "stopped"
     /\ helpers' = alive /\ UNCHANGED <<childProcess, spawned>>
  \/ installed' /\ enabled' /\ currentState' = "error"
     /\ helpers' = alive /\ UNCHANGED <<childProcess, spawned>>
  \/ /\ installed' /\ enabled' /\ spawned < MaxHelpers
     /\ spawned' = spawned + 1 /\ childProcess' = spawned' /\ helpers' = alive \cup {spawned'}
     /\ currentState' = "starting"

\* initMediaWidget
Init ==
  /\ installed \in BOOLEAN /\ enabled \in BOOLEAN
  /\ spawned = (IF installed /\ enabled THEN 1 ELSE 0)
  /\ childProcess = spawned /\ helpers = 1 .. spawned
  /\ intentionalStops = {} /\ stops = {} /\ restartTimer = FALSE /\ crashHistory = 0
  /\ currentState = IF spawned = 1 THEN "starting" ELSE "stopped"

-----------------------------------------------------------------------------
(* Stops. *)

\* stopWidget up to its wait; without a process there is none.
StopChild(restart) ==
  IF childProcess # None
  THEN /\ intentionalStops' = intentionalStops \cup {childProcess} /\ childProcess' = None
       /\ stops' = stops \cup {[helper |-> childProcess, restart |-> restart]}
       /\ UNCHANGED <<helpers, spawned, currentState>>
  ELSE /\ UNCHANGED <<intentionalStops, stops>>
       /\ IF restart THEN StartWidget(helpers)
          ELSE currentState' = "stopped" /\ UNCHANGED <<childProcess, helpers, spawned>>

\* Mutant: the restart after a crash stays scheduled.
StopKeepsTimer(restart) == UNCHANGED restartTimer /\ StopChild(restart)

StopWidget(restart) == restartTimer' = FALSE /\ StopChild(restart)

Restarting == \E s \in stops : s.restart

\* restartWidget: while one is under way another only waits for it.
RestartWidget ==
  IF Restarting
  THEN UNCHANGED <<childProcess, helpers, spawned, intentionalStops, stops, currentState,
                   restartTimer, crashHistory>>
  ELSE crashHistory' = 0 /\ StopWidget(TRUE)

\* The end of the wait, after which a restart goes on.
Continue(s, alive) ==
  /\ stops' = stops \ {s}
  /\ IF s.restart THEN StartWidget(alive)
     ELSE /\ currentState' = IF childProcess = None THEN "stopped" ELSE currentState
          /\ helpers' = alive /\ UNCHANGED <<childProcess, spawned>>

\* After three seconds.
StopTimesOut(s) ==
  /\ UNCHANGED <<installed, enabled, intentionalStops, restartTimer, crashHistory>>
  /\ Continue(s, helpers)

\* handleTermination of a process that was stopped.
StoppedHelperExits(h) ==
  /\ h \in intentionalStops
  /\ UNCHANGED <<installed, enabled, restartTimer, crashHistory>>
  /\ intentionalStops' = intentionalStops \ {h}
  /\ \/ \E s \in stops : s.helper = h /\ Continue(s, helpers \ {h})
     \/ /\ \A s \in stops : s.helper # h
        /\ currentState' = IF childProcess = None THEN "stopped" ELSE currentState
        /\ helpers' = helpers \ {h} /\ UNCHANGED <<stops, childProcess, spawned>>

\* handleTermination of one that was not: n ends within five minutes, this one included.
\* A process that is not the current one is of no interest.
HelperFails(h, n) ==
  /\ h \in helpers \ intentionalStops
  /\ helpers' = helpers \ {h}
  /\ IF h # childProcess
     THEN UNCHANGED <<childProcess, crashHistory, currentState, restartTimer>>
     ELSE /\ childProcess' = None /\ crashHistory' = n
          /\ IF n > MaxCrashes
             THEN currentState' = "error" /\ UNCHANGED restartTimer
             ELSE currentState' = "starting" /\ restartTimer' = TRUE
  /\ UNCHANGED <<installed, enabled, spawned, intentionalStops, stops>>

TimerFires ==
  /\ restartTimer /\ restartTimer' = FALSE
  /\ UNCHANGED <<installed, enabled, intentionalStops, stops, crashHistory>>
  /\ StartWidget(helpers)

\* handleStdoutLine: ready, where an error of before is still shown, and error.  The
\* line may come from any process.
Says(line) ==
  /\ helpers # {}
  /\ \/ line = "ready" /\ currentState = "starting"
        /\ currentState' = IF restartTimer THEN "error" ELSE "no_session"
     \/ line = "error" /\ currentState' = "error"
  /\ UNCHANGED <<installed, enabled, childProcess, helpers, spawned, intentionalStops, stops,
                 restartTimer, crashHistory>>

-----------------------------------------------------------------------------
(* The user, from the app, the tray or the helper. *)

RestartOrStop ==
  IF installed' /\ enabled' THEN RestartWidget ELSE StopWidget(FALSE) /\ UNCHANGED crashHistory

SetEnabled(value) == enabled' = value /\ UNCHANGED installed /\ RestartOrStop

\* The default is enabled.
ResetSettings == enabled' = TRUE /\ UNCHANGED installed /\ RestartOrStop

Restart == UNCHANGED <<installed, enabled>> /\ RestartWidget

\* updateSettings, of anything but enabled.
UpdateSettings ==
  /\ Overlaps \/ ~Restarting
  /\ UNCHANGED <<installed, enabled, crashHistory>>
  /\ IF ~(installed /\ enabled) THEN StopWidget(FALSE)
     ELSE /\ childProcess = None /\ currentState # "starting" /\ ~restartTimer
          /\ StartWidget(helpers) /\ UNCHANGED <<intentionalStops, stops, restartTimer>>

\* handleInstalledAppsChanged, for this app or another one.
InstalledAppsChanged(value) ==
  /\ Overlaps \/ (value # installed /\ ~Restarting)
  /\ installed' = value /\ UNCHANGED crashHistory
  /\ IF value
     THEN /\ UNCHANGED <<enabled, intentionalStops, stops, restartTimer>>
          /\ IF enabled THEN StartWidget(helpers)
             ELSE UNCHANGED <<childProcess, helpers, spawned, currentState>>
     ELSE enabled' = TRUE /\ StopWidget(FALSE)

Next ==
  \/ \E s \in stops : StopTimesOut(s)
  \/ \E h \in helpers :
       StoppedHelperExits(h) \/ \E n \in 1 .. crashHistory + 1 : HelperFails(h, n)
  \/ TimerFires
  \/ \E line \in {"ready", "error"} : Says(line)
  \/ \E value \in BOOLEAN : SetEnabled(value) \/ InstalledAppsChanged(value)
  \/ ResetSettings \/ Restart \/ UpdateSettings

-----------------------------------------------------------------------------

\* There is one widget at most, and none when the app is not installed or not enabled,
\* through every order of crashes, delayed restarts, stops that wait and changes of
\* the settings: no process runs that the program neither knows nor has told to stop,
\* and what shows as starting or running does, or is about to.  It does not hold when
\* another app is installed, or the settings change during a restart: startWidget never
\* looks at childProcess, and the helper it replaces stays on the taskbar.
OneWidget ==
  /\ helpers \subseteq intentionalStops \cup {childProcess}
  /\ ~(installed /\ enabled) => childProcess = None /\ ~restartTimer
  /\ currentState \in {"starting", "no_session"} =>
       childProcess # None \/ restartTimer \/ stops # {}

-----------------------------------------------------------------------------
(* The connection to YTmusic. *)

CONSTANTS MaxTokens,    \* bound: tokens handed out
          MaxCalls      \* bound: calls under way at one time

CompanionAssumption == MaxTokens \in Nat /\ MaxCalls \in Nat \ {0}

Tokens == 1 .. MaxTokens

VARIABLES
  issued, accepted,     \* tokens YTmusic has handed out, and those it accepts
  credential,           \* the token in the keychain
  token, status,
  socket,               \* the token of the socket that is open
  calls

companionVars == <<issued, accepted, credential, token, status, socket, calls>>

UserCalls == {"refresh", "pair", "forget"}
Call(kind, phase, sent) == [kind |-> kind, phase |-> phase, sent |-> sent]

CompanionTypeOK ==
  /\ issued \in 0 .. MaxTokens /\ accepted \subseteq 1 .. issued
  /\ credential \in {None} \cup Tokens /\ token \in {None} \cup Tokens
  /\ socket \in {None} \cup Tokens
  /\ status \in {"notInstalled", "starting", "stopped", "requiresPairing", "pairing", "connected",
                 "reauthRequired", "incompatible", "error"}
  /\ Cardinality(calls) <= MaxCalls
  /\ calls \subseteq [kind : UserCalls \cup {"command", "event"},
                      phase : {"metadata", "state", "approve", "store", "command", "delete", "revoked"},
                      sent : {None} \cup Tokens]

\* initialize: what the keychain has is used at once, and the server is asked.
CompanionInit ==
  /\ issued = 0 /\ accepted = {} /\ credential = None
  /\ token = None /\ status = "notInstalled" /\ socket = None
  /\ calls = {Call("refresh", "metadata", None)}

Ends(c)     == calls' = calls \ {c}
Goes(c, d)  == calls' = (calls \ {c}) \cup {d}

\* A call of the user; commands go out one at a time.
Free(kind) ==
  /\ Cardinality(calls) < MaxCalls
  /\ \A c \in calls : c.kind # kind /\ (kind \in UserCalls /\ ~Overlaps => c.kind \notin UserCalls)

-----------------------------------------------------------------------------
(* Asking the server: refreshStatus. *)

Refresh ==
  /\ Free("refresh")
  /\ calls' = calls \cup {Call("refresh", "metadata", None)}
  /\ UNCHANGED <<issued, accepted, credential, token, status, socket>>

\* The server is there and is the right one.  A pairing closes the socket and asks for
\* approval, a refresh goes on when there is a token.
MetadataFits(c) ==
  /\ c.phase = "metadata"
  /\ IF c.kind = "pair"
     THEN status' = "pairing" /\ socket' = None /\ Goes(c, Call("pair", "approve", None))
     ELSE /\ status' = IF token # None THEN "connected" ELSE "requiresPairing"
          /\ IF token # None THEN Goes(c, Call("refresh", "state", token)) ELSE Ends(c)
          /\ UNCHANGED socket
  /\ UNCHANGED <<issued, accepted, credential, token>>

\* No server, another one, or an old one.  That the user has to pair again stays on
\* view, unless an old server answers.  A pairing asks again for some time.
MetadataFails(c) ==
  /\ c.phase = "metadata"
  /\ \/ status' = "incompatible" /\ socket' = None
     \/ status # "reauthRequired" /\ socket' = None /\ status' \in {"error", "stopped", "incompatible"}
     \/ status = "reauthRequired" /\ UNCHANGED <<status, socket>>
  /\ Ends(c) \/ (c.kind = "pair" /\ UNCHANGED calls)
  /\ UNCHANGED <<issued, accepted, credential, token>>

\* _connectSocket
ConnectSocket == socket' = IF token # None THEN token ELSE socket

\* _connectAuthenticated, where the server takes the token.
StateAnswers(c) ==
  /\ c.phase = "state" /\ c.sent \in accepted
  /\ ConnectSocket /\ status' = "connected" /\ Ends(c)
  /\ UNCHANGED <<issued, accepted, credential, token>>

StateFails(c) ==
  /\ c.phase = "state" /\ Ends(c)
  /\ \/ c.kind = "refresh" /\ status # "reauthRequired" /\ socket' = None /\ status' = "error"
     \/ c.kind = "refresh" /\ status = "reauthRequired" /\ UNCHANGED <<status, socket>>
     \/ c.kind = "pair" /\ UNCHANGED socket
        /\ status' = IF status = "pairing" THEN "error" ELSE status
  /\ UNCHANGED <<issued, accepted, credential, token>>

\* _markReauthRequired, up to the deletion in the keychain.
Revoked == socket' = None /\ token' = None

Unauthorized(c) ==
  /\ c.phase \in {"state", "command"} /\ c.sent \notin accepted
  /\ Revoked /\ Goes(c, Call(c.kind, "revoked", None))
  /\ UNCHANGED <<issued, accepted, credential, status>>

\* The deletion may fail; that is not noticed.
CredentialDeleted(c) ==
  /\ c.phase \in {"revoked", "delete"} /\ Ends(c)
  /\ credential' \in {None, credential}
  /\ status' = IF c.phase = "delete" THEN "requiresPairing" ELSE "reauthRequired"
  /\ UNCHANGED <<issued, accepted, token, socket>>

-----------------------------------------------------------------------------
(* Pairing and forgetting. *)

\* launch, with the pairing link.
Pair ==
  /\ Free("pair")
  /\ status' = "starting"
  /\ calls' = calls \cup {Call("pair", "metadata", None)}
  /\ UNCHANGED <<issued, accepted, credential, token, socket>>

\* The user approves the code that both show, which takes longer than a command or the
\* keychain.
Approve(c) ==
  /\ c.phase = "approve" /\ issued < MaxTokens
  /\ Overlaps \/ calls = {c}
  /\ issued' = issued + 1 /\ accepted' = accepted \cup {issued'}
  /\ Goes(c, Call("pair", "store", issued'))
  /\ UNCHANGED <<credential, token, status, socket>>

PairingFails(c) ==
  /\ c.phase \in {"approve", "store"} /\ Ends(c)
  /\ status' \in IF status = "pairing" THEN {"requiresPairing", "error"} ELSE {status}
  /\ UNCHANGED <<issued, accepted, credential, token, socket>>

\* Mutant: the token is used before it is stored.
UseUnstored(c) ==
  /\ c.phase = "store" /\ token' = c.sent
  /\ Goes(c, Call("pair", "state", c.sent))
  /\ UNCHANGED <<issued, accepted, credential, status, socket>>

Store(c) ==
  /\ c.phase = "store" /\ credential' = c.sent /\ token' = c.sent
  /\ Goes(c, Call("pair", "state", c.sent))
  /\ UNCHANGED <<issued, accepted, status, socket>>

Forget ==
  /\ Free("forget")
  /\ socket' = None /\ token' = None
  /\ calls' = calls \cup {Call("forget", "delete", None)}
  /\ UNCHANGED <<issued, accepted, credential, status>>

-----------------------------------------------------------------------------
(* Commands, the socket, YTmusic and a restart of the program. *)

SendCommand ==
  /\ status = "connected" /\ token # None /\ Free("command")
  /\ calls' = calls \cup {Call("command", "command", token)}
  /\ UNCHANGED <<issued, accepted, credential, token, status, socket>>

\* Done, or failed in another way than for the token.
CommandAnswers(c) ==
  c.phase = "command" /\ Ends(c)
    /\ UNCHANGED <<issued, accepted, credential, token, status, socket>>

SocketEvent ==
  /\ socket # None
  /\ \/ socket \in accepted /\ status' = "connected" /\ UNCHANGED <<socket, token, calls>>
     \/ status' = "error" /\ UNCHANGED <<socket, token, calls>>
     \/ /\ socket \notin accepted /\ Free("event") /\ Revoked
        /\ calls' = calls \cup {Call("event", "revoked", None)} /\ UNCHANGED status
  /\ UNCHANGED <<issued, accepted, credential>>

\* The user removes LabSuite from the companions of YTmusic.
Revoke(t) ==
  /\ accepted' = accepted \ {t}
  /\ UNCHANGED <<issued, credential, token, status, socket, calls>>

\* shutdown, and initialize of the next start.
CompanionRestarts ==
  /\ token' = credential /\ status' = "notInstalled" /\ socket' = None
  /\ calls' = {Call("refresh", "metadata", None)}
  /\ UNCHANGED <<issued, accepted, credential>>

CompanionNext ==
  \/ Refresh \/ Pair \/ Forget \/ SendCommand \/ SocketEvent \/ CompanionRestarts
  \/ \E t \in accepted : Revoke(t)
  \/ \E c \in calls :
       \/ MetadataFits(c) \/ MetadataFails(c) \/ StateAnswers(c) \/ StateFails(c)
       \/ Unauthorized(c) \/ CredentialDeleted(c)
       \/ Approve(c) \/ PairingFails(c) \/ Store(c) \/ CommandAnswers(c)

-----------------------------------------------------------------------------

\* What is used is what is stored, and what shows as connected is: the token of the
\* program is the one a restart finds, the socket speaks for it, and between calls
\* "connected" means that there is one.  It relies on the user's calls coming one at a
\* time: Forget during a refresh ends with "connected" and no token.
ConnectedHasToken ==
  /\ token # None => credential = token
  /\ socket # None => socket = token
  /\ calls = {} /\ status = "connected" => token # None
=============================================================================
