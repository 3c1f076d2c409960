----------------------------- MODULE TrayStatus -----------------------------
(***************************************************************************)
(* What LabSuite shows of itself without a window, and what it knows of    *)
(* the Google account.                                                     *)
(*                                                                         *)
(* Tray part, src/main/tray.js and the worker's events in src/main/ipc.js: *)
(* the icon and the menu follow the backup's messages; a health check,     *)
(* one at a time, looks for problems while messages go on arriving, and    *)
(* only its end redraws the icon after "idle" and "syncing".  A run is     *)
(* abstracted to whether it goes on, is drained or is being stopped.       *)
(*                                                                         *)
(* Account part, getCachedOrFreshGDriveInfo and its users: what Google     *)
(* says of the account is kept in the document for a minute, the tray uses *)
(* it for five, and the account may be changed while Google is asked.      *)
(* Bounds: MaxTrayMoves messages and commands, MaxAsks questions.          *)
(*                                                                         *)
(* Sign-in part, the Google accounts in rclone.conf: signing in again,     *)
(* perhaps with an OAuth client of one's own (auth:reconnectGDriveClient   *)
(* of main/ipc.js, reconnectGoogleDriveClient of main/rclone.js), next to  *)
(* the sign-in of another account for a copy of the vault                  *)
(* (main/vaultDestinations.js).  Both change the one file; the browser may *)
(* take ten minutes.  Disconnecting is in VaultAccess.                     *)
(***************************************************************************)
EXTENDS Naturals, FiniteSets

CONSTANTS
  MaxTrayMoves, MaxAsks, GoogleAccounts,
  TrayHabits   \* "during": a file fails while the health check inspects the vault,
               \* "restart": LabSuite is started again while backups are paused,
               \* "inflight": the account changes while Google is asked about the old one,
               \* "disconnect": another account signs in right after the old one was removed

TrayAssumption ==
  TrayHabits \subseteq {"during", "restart", "inflight", "disconnect"} /\ MaxAsks \in Nat

VARIABLES
  appStatus, lastProblem, visual, menu,   \* tray.js
  health,        \* "no", "info" while Google is asked, "safety" while the vault is
  problemFound,  \* what the check has found so far
  pausedFlag, drainFlag,                  \* sync_paused and sync_pause_after_current
  backup,        \* "no", "running", "draining" or "stopping"
  itemFailed,    \* the run has reported a failed file
  failing,       \* a folder's rows in the document say that it failed
  resumed,       \* the run that is stopped is to be started again
  denied,        \* the network did not admit the last run
  trayMoves,
  account,       \* the account in rclone's configuration, or NoAccount
  info,          \* the cache entry gdrive_info
  slot,          \* gDriveInfoRefresh: the question that others join, or 0
  asking,        \* questions to Google, each with what it has been answered
  asked, switching

trayVars    == <<appStatus, lastProblem, visual, menu, health, problemFound, pausedFlag, drainFlag,
                 backup, itemFailed, failing, resumed, denied, trayMoves>>
accountVars == <<account, info, slot, asking, asked, switching>>

-----------------------------------------------------------------------------
(* The tray. *)

\* computeVisualStatus.
VisualOf(s, p) ==
  IF p # "" THEN "error"
  ELSE IF s \in {"syncing", "draining"} THEN "syncing" ELSE IF s = "paused" THEN "paused" ELSE "idle"

\* updateTrayMenu: which commands the menu offers is fixed when it is built.
MenuOf(s, p, d) == [resume |-> p \/ d, now |-> ~p /\ ~d /\ s # "syncing",
                    drain |-> ~p /\ ~d /\ s = "syncing"]

TrayInit ==
  /\ appStatus = "idle" /\ lastProblem = "" /\ health = "info" /\ problemFound = ""
  /\ visual = "idle" /\ menu = MenuOf("idle", FALSE, FALSE)
  /\ pausedFlag = FALSE /\ drainFlag = FALSE /\ backup = "no" /\ itemFailed = FALSE
  /\ failing = FALSE /\ resumed = FALSE /\ denied = FALSE /\ trayMoves = 0

\* applyTrayVisual, with what the settings say now.
Apply ==
  visual' = VisualOf(appStatus', lastProblem') /\ menu' = MenuOf(appStatus', pausedFlag', drainFlag')

\* Mutant: good news is drawn only by a later check.
OnlySet(status) ==
  appStatus' = status /\ lastProblem' = lastProblem
  /\ UNCHANGED <<visual, menu, health, problemFound>>

\* refreshTrayHealth: a call during a check is given that check.
Refresh == IF health = "no" THEN health' = "info" /\ problemFound' = ""
                            ELSE UNCHANGED <<health, problemFound>>

\* updateTrayStatus: good news is drawn when a health check has ended.
Show(status) ==
  /\ appStatus' = status
  /\ lastProblem' = IF status = "error" THEN "backup" ELSE lastProblem
  /\ IF status \in {"idle", "syncing"} THEN Refresh /\ UNCHANGED <<visual, menu>>
                                       ELSE Apply /\ UNCHANGED <<health, problemFound>>

TrayMove == trayMoves < MaxTrayMoves /\ trayMoves' = trayMoves + 1

\* Five seconds after the start and every five minutes.
HealthTimer ==
  /\ health = "no" /\ TrayMove /\ Refresh
  /\ UNCHANGED <<appStatus, lastProblem, visual, menu, pausedFlag, drainFlag, backup, itemFailed,
                 failing, resumed, denied>>

\* The account was asked for; its space and the folders' rows are judged.
HealthInfo ==
  /\ health = "info"
  /\ UNCHANGED <<pausedFlag, drainFlag, backup, itemFailed, failing, resumed, denied, trayMoves>>
  /\ \E warning \in BOOLEAN : \E signedIn \in BOOLEAN :
       LET found == IF ~signedIn \/ warning THEN "drive" ELSE IF failing THEN "backup" ELSE "" IN
       IF signedIn
       THEN /\ health' = "safety" /\ problemFound' = found
            /\ UNCHANGED <<appStatus, lastProblem, visual, menu>>
       ELSE /\ health' = "no" /\ problemFound' = "" /\ lastProblem' = found
            /\ UNCHANGED appStatus /\ Apply

\* The vault was inspected, without a further problem, with one, or not at all.
HealthEnds ==
  /\ health = "safety" /\ health' = "no" /\ problemFound' = ""
  /\ UNCHANGED <<pausedFlag, drainFlag, backup, itemFailed, failing, resumed, denied, trayMoves>>
  /\ \E vault \in {"", "vault"} :
       lastProblem' = IF problemFound # "" THEN problemFound ELSE vault
  /\ UNCHANGED appStatus /\ Apply

\* A backup begins, on a command or by itself, unless the network does not admit it.
RunStarts ==
  /\ backup = "no" /\ ~pausedFlag /\ ~drainFlag /\ TrayMove
  /\ UNCHANGED <<pausedFlag, drainFlag, failing>>
  /\ \/ backup' = "running" /\ denied' = FALSE /\ Show("syncing")
     \/ UNCHANGED backup /\ denied' = TRUE /\ Show("paused")
  /\ itemFailed' = FALSE /\ resumed' = FALSE

\* A file fails; its row says so.
FileFails ==
  /\ backup # "no" /\ ~itemFailed /\ TrayMove
  /\ UNCHANGED <<pausedFlag, drainFlag, backup, resumed, denied>>
  /\ health = "safety" => "during" \in TrayHabits
  /\ itemFailed' = TRUE /\ failing' = TRUE /\ Show("error")

\* The run is complete, with its failed files or without; a folder that failed earlier
\* may have been in it.
RunCompletes ==
  /\ backup = "running" /\ TrayMove /\ backup' = "no"
  /\ UNCHANGED <<pausedFlag, drainFlag, itemFailed, resumed, denied>>
  /\ IF itemFailed THEN Show("error") /\ UNCHANGED failing
                   ELSE Show("idle") /\ failing' \in {FALSE, failing}

\* A run that fails as a whole marks its folder.
RunFails ==
  /\ backup \in {"running", "draining"} /\ TrayMove /\ backup' = "no"
  /\ UNCHANGED <<pausedFlag, drainFlag, itemFailed, resumed, denied>>
  /\ health = "safety" => "during" \in TrayHabits
  /\ failing' = TRUE /\ Show("error")

\* A drained run pauses the backups; one that is stopped says so, though backups may
\* have been resumed, and is then started again.
RunPauses ==
  /\ backup \in {"draining", "stopping"} /\ backup' = "no"
  /\ IF backup = "draining" THEN pausedFlag' = TRUE /\ drainFlag' = FALSE
                            ELSE UNCHANGED <<pausedFlag, drainFlag>>
  /\ UNCHANGED <<itemFailed, failing, resumed, denied, trayMoves>> /\ Show("paused")

\* sync:pause and the menu's command.
PauseBackups ==
  /\ ~pausedFlag /\ TrayMove /\ pausedFlag' = TRUE /\ drainFlag' = FALSE
  /\ backup' = IF backup = "no" THEN "no" ELSE "stopping"
  /\ resumed' = FALSE /\ UNCHANGED <<itemFailed, failing, denied>> /\ Show("paused")

\* sync:pauseAfterCurrent and the menu's command.
DrainBackups ==
  /\ ~pausedFlag /\ ~drainFlag /\ TrayMove /\ backup # "stopping"
  /\ UNCHANGED <<itemFailed, failing, resumed, denied>>
  /\ IF backup = "no"
     THEN pausedFlag' = TRUE /\ UNCHANGED <<drainFlag, backup>> /\ Show("paused")
     ELSE drainFlag' = TRUE /\ backup' = "draining" /\ UNCHANGED pausedFlag /\ Show("draining")

\* sync:resume and the menu's command.
ResumeBackups ==
  /\ (pausedFlag \/ drainFlag) /\ TrayMove
  /\ UNCHANGED <<itemFailed, failing, denied>>
  /\ pausedFlag' = FALSE /\ drainFlag' = FALSE
  /\ backup' = IF backup = "draining" THEN "running" ELSE backup
  /\ resumed' = (backup = "stopping")
  /\ Show(IF backup # "no" THEN "syncing" ELSE "idle")

\* The program ends and is started: what it shows begins anew, the settings stay.
StartAgain ==
  /\ TrayMove /\ (pausedFlag => "restart" \in TrayHabits)
  /\ appStatus' = "idle" /\ lastProblem' = "" /\ health' = "info" /\ problemFound' = ""
  /\ backup' = "no" /\ itemFailed' = FALSE /\ resumed' = FALSE /\ denied' = FALSE
  /\ UNCHANGED <<pausedFlag, drainFlag, failing>> /\ Apply

TrayStep ==
  \/ HealthTimer \/ HealthInfo \/ HealthEnds
  \/ RunStarts \/ FileFails \/ RunCompletes \/ RunFails \/ RunPauses
  \/ PauseBackups \/ DrainBackups \/ ResumeBackups \/ StartAgain

-----------------------------------------------------------------------------
(* The account. *)

NoAccount == "none"
NoInfo    == [of |-> NoAccount, age |-> 0]
\* What Google's answer says when the account's name cannot be found, or nothing.
Placeholders == {"unnamed", "disconnected"}

AccountInit ==
  /\ account \in GoogleAccounts /\ info = NoInfo /\ slot = 0 /\ asking = {} /\ asked = 0
  /\ switching = FALSE

\* getGDriveInfoForRemote: about, userinfo and the user's endpoint.
Ask(by) ==
  /\ asked < MaxAsks /\ asked' = asked + 1
  /\ asking' = asking \cup {[n |-> asked', by |-> by, says |-> "asking"]}

\* Time passes: a minute, then five.
InfoAges == info.of # NoAccount /\ info.age < 2 /\ info' = [info EXCEPT !.age = @ + 1]
            /\ UNCHANGED <<account, slot, asking, asked, switching>>

\* The panel asks; an entry that is too old is deleted, a question under way joined.
PanelAsks(force) ==
  /\ force \/ info.age > 0 \/ info.of \in {NoAccount} \cup Placeholders
  /\ slot = 0 /\ Ask("panel") /\ slot' = asked'
  /\ info' = IF ~force /\ info.age > 0 THEN NoInfo ELSE info
  /\ UNCHANGED <<account, switching>>

\* The tray's check takes an entry of five minutes and asks on its own.
TrayAsks ==
  /\ info.of = NoAccount \/ info.age = 2
  /\ \A q \in asking : q.by # "tray"
  /\ Ask("tray") /\ info' = NoInfo /\ UNCHANGED <<account, slot, switching>>

\* Google answers from the configuration as it is now.
GoogleAnswers(q) ==
  /\ q \in asking /\ q.says = "asking"
  /\ \E says \in Placeholders \cup (GoogleAccounts \cap {account}) :
       asking' = (asking \ {q}) \cup {[q EXCEPT !.says = says]}
  /\ UNCHANGED <<account, info, slot, asked, switching>>

\* The panel keeps no placeholder, the tray keeps one that is connected.  Whichever
\* question ends, its own slot or a later one's is cleared.
Keeps(q) == q.says \notin (IF q.by = "panel" THEN Placeholders ELSE {"disconnected"})
QuestionEnds(q) ==
  /\ q \in asking /\ q.says # "asking" /\ asking' = asking \ {q}
  /\ info' = IF Keeps(q) THEN [of |-> q.says, age |-> 0] ELSE info
  /\ slot' = IF q.by = "panel" THEN 0 ELSE slot
  /\ UNCHANGED <<account, asked, switching>>

Undisturbed == asking = {} \/ "inflight" \in TrayHabits

\* Mutant: the entry is left for the question to replace.
LeavesInfo == UNCHANGED info

\* What Google said before is forgotten.
DropsInfo == info' = NoInfo

\* The account is authorized anew, or the vault moved to another one; when that is over
\* the entry is dropped and Google asked.
SignIn(a) ==
  /\ account # NoAccount /\ ~switching /\ Undisturbed
  /\ account' = a /\ switching' = TRUE /\ UNCHANGED <<info, slot, asking, asked>>
Reconnected ==
  /\ switching /\ Undisturbed /\ switching' = FALSE /\ DropsInfo
  /\ Ask("panel") /\ slot' = asked' /\ UNCHANGED account

\* auth:disconnect leaves the entry; a new setup signs in.
Disconnect ==
  /\ account # NoAccount /\ ~switching /\ account' = NoAccount
  /\ UNCHANGED <<info, slot, asking, asked, switching>>
NewSetup(a) ==
  /\ account = NoAccount /\ account' = a
  /\ "disconnect" \in TrayHabits \/ (info = NoInfo /\ asking = {})
  /\ UNCHANGED <<info, slot, asking, asked, switching>>

AccountStep ==
  \/ InfoAges \/ TrayAsks \/ \E force \in BOOLEAN : PanelAsks(force)
  \/ \E q \in asking : GoogleAnswers(q) \/ QuestionEnds(q)
  \/ \E a \in GoogleAccounts : SignIn(a) \/ NewSetup(a)
  \/ Reconnected \/ Disconnect

-----------------------------------------------------------------------------
(* What holds. *)

TrayTypeOK ==
  /\ appStatus \in {"idle", "syncing", "draining", "paused", "error"}
  /\ visual \in {"idle", "syncing", "paused", "error"} /\ health \in {"no", "info", "safety"}
  /\ backup \in {"no", "running", "draining", "stopping"}
  /\ info.of \in GoogleAccounts \cup Placeholders \cup {NoAccount} /\ slot <= asked

\* Once no check is under way the icon is that of the last message and the menu offers
\* what the settings allow, whatever message came during the check.
DrawnAsTold ==
  health = "no" => visual = VisualOf(appStatus, lastProblem)
                   /\ menu = MenuOf(appStatus, pausedFlag, drainFlag)

\* Backups that are paused are shown as paused, and "paused" is shown for no other reason
\* than a pause, a run that stops and starts again, or a network that admits none.
PausedIsTold ==
  /\ pausedFlag /\ backup = "no" => appStatus = "paused"
  /\ appStatus = "paused" => pausedFlag \/ denied \/ resumed \/ backup = "stopping"

\* While a folder's rows say that it failed, the icon does once a check is over.
FailureIsTold == failing /\ health = "no" => visual = "error"

\* What is shown of the account is of the account that is connected
\* (auth:reconnectGDriveClient).
InfoIsOfAccount ==
  /\ ~switching /\ account # NoAccount => info.of \in {NoAccount, account} \cup Placeholders
  /\ Cardinality({q \in asking : q.by = "panel"}) <= 1

TrayHolds    == DrawnAsTold /\ PausedIsTold /\ FailureIsTold
AccountHolds == InfoIsOfAccount

-----------------------------------------------------------------------------
(* Signing in. *)

CONSTANTS Clients,          \* OAuth clients; Shared is the one of rclone
          Shared,
          Destinations,     \* accounts for copies of the vault
          Hurried           \* the user does not wait for the browser: connects an account,
                            \* pauses or resumes while signing in again

AccountAssumption == Shared \in Clients /\ Hurried \in BOOLEAN

VARIABLES
  client, token,    \* the section of the account: its client, and who issued its token
  sections,         \* the accounts with a section of their own in rclone.conf
  connected,        \* the destinations that are stored as connected
  connecting,       \* a destination that signs in: NoSignIn, or its name and step
  reconnect,        \* auth:reconnectGDriveClient: its step and what it keeps
  paused,           \* sync_paused
  working,          \* the worker runs
  byUser,           \* (ghost) the user paused
  torn              \* (ghost) LabSuite ended while signing in again

signInVars ==
  <<client, token, sections, connected, connecting, reconnect, paused, working, byUser, torn>>

NoSignIn    == [who |-> "none", step |-> "none"]
NoConfig    == [client |-> Shared, token |-> Shared, sections |-> {}]
NoReconnect == [step |-> "none", pins |-> FALSE, resumes |-> FALSE, wants |-> Shared,
                previous |-> NoConfig]

SignInTypeOK ==
  /\ client \in Clients /\ token \in Clients
  /\ sections \subseteq Destinations /\ connected \subseteq Destinations
  /\ connecting \in {NoSignIn} \cup [who : Destinations, step : {"browser", "info"}]
  /\ reconnect.step \in {"none", "browser", "verify"} /\ reconnect.wants \in Clients
  /\ reconnect.pins \in BOOLEAN /\ reconnect.resumes \in BOOLEAN
  /\ \A b \in {paused, working, byUser, torn} : b \in BOOLEAN

SignInInit ==
  /\ client = Shared /\ token = Shared /\ sections = {} /\ connected = {}
  /\ connecting = NoSignIn /\ reconnect = NoReconnect
  /\ paused = FALSE /\ working = FALSE /\ byUser = FALSE /\ torn = FALSE

Config     == [client |-> client, token |-> token, sections |-> sections]
SigningIn  == reconnect.step # "none"
Unhurried  == SigningIn => Hurried
Pausing    == <<paused, working, byUser>>
Accounts   == <<sections, connected, connecting>>

-----------------------------------------------------------------------------
\* connectDestination: rclone config create, in the browser.
ConnectDestination(d) ==
  /\ Unhurried /\ connecting = NoSignIn /\ d \notin connected
  /\ connecting' = [who |-> d, step |-> "browser"]
  /\ UNCHANGED <<client, token, sections, connected, reconnect, Pausing, torn>>

SignedIn ==
  /\ connecting.step = "browser" /\ sections' = sections \cup {connecting.who}
  /\ connecting' = [connecting EXCEPT !.step = "info"]
  /\ UNCHANGED <<client, token, connected, reconnect, Pausing, torn>>

\* getGDriveInfoForRemote needs the section.
InfoSeen ==
  /\ connecting.step = "info" /\ connecting.who \in sections
  /\ connected' = connected \cup {connecting.who} /\ connecting' = NoSignIn
  /\ UNCHANGED <<client, token, sections, reconnect, Pausing, torn>>

ConnectFails ==
  /\ connecting # NoSignIn /\ connecting' = NoSignIn
  /\ UNCHANGED <<client, token, sections, connected, reconnect, Pausing, torn>>

-----------------------------------------------------------------------------
\* Mutant: a reconnect does not wait for other calls of rclone.
BusyNever == FALSE

\* activeRcloneProcesses, which include the browser of another account.
Busy == connecting # NoSignIn

\* Either a client is given, which is pinned, or the saved one is used again: then it
\* must be the user's own.  Backups pause meanwhile.
Reconnect ==
  /\ ~SigningIn /\ ~working /\ ~Busy
  /\ \E c \in Clients \ {Shared} :
       /\ client' = c
       /\ reconnect' = [step |-> "browser", pins |-> TRUE, resumes |-> ~paused, wants |-> c,
                        previous |-> Config]
  /\ paused' = TRUE
  /\ UNCHANGED <<token, Accounts, working, byUser, torn>>

\* Mutant: the client that rclone leaves behind is kept.
AsLeft(left) == left

\* updateRcloneRemoteConfig on what rclone wrote.
Pinned(left) == IF reconnect.pins THEN reconnect.wants ELSE left

\* rclone config reconnect: a token for the client; some flows lose the client.
Authorized ==
  /\ reconnect.step = "browser"
  /\ token' = client
  /\ \E left \in {client, Shared} : client' = Pinned(left)
  /\ reconnect' = [reconnect EXCEPT !.step = "verify"] /\ torn' = FALSE
  /\ UNCHANGED <<Accounts, Pausing>>

Resumed == paused' = (paused /\ ~reconnect.resumes)

\* The account is asked for its name; backups go on whether it answers or not.
Verified ==
  /\ reconnect.step = "verify" /\ reconnect' = NoReconnect /\ Resumed
  /\ UNCHANGED <<client, token, Accounts, working, byUser, torn>>

\* Mutant: the new client stays when the browser is closed.
ClientKept == client

PreviousClient == reconnect.previous.client

\* The browser is closed, or ten minutes are over: the file is put back as it was.
Refused ==
  /\ reconnect.step = "browser"
  /\ client' = PreviousClient /\ token' = reconnect.previous.token
  /\ sections' = reconnect.previous.sections
  /\ reconnect' = NoReconnect /\ Resumed
  /\ UNCHANGED <<connected, connecting, working, byUser, torn>>

-----------------------------------------------------------------------------
\* sync:pause and sync:resume.
UserPauses ==
  /\ Unhurried /\ paused' = TRUE /\ byUser' = TRUE /\ working' = FALSE
  /\ UNCHANGED <<client, token, Accounts, reconnect, torn>>

UserResumes ==
  /\ Unhurried /\ paused' = FALSE /\ byUser' = FALSE
  /\ UNCHANGED <<client, token, Accounts, reconnect, working, torn>>

BackupStarts ==
  /\ ~working /\ ~paused /\ working' = TRUE
  /\ UNCHANGED <<client, token, Accounts, reconnect, paused, byUser, torn>>

BackupEnds ==
  /\ working /\ working' = FALSE
  /\ UNCHANGED <<client, token, Accounts, reconnect, paused, byUser, torn>>

\* LabSuite ends and starts; the setting and the file stay as they are.
SignInCrash ==
  /\ connecting' = NoSignIn /\ reconnect' = NoReconnect /\ working' = FALSE
  /\ torn' = (torn \/ reconnect.step = "browser")
  /\ byUser' = (byUser \/ paused)
  /\ UNCHANGED <<client, token, sections, connected, paused>>

SignInStep ==
  \/ \E d \in Destinations : ConnectDestination(d)
  \/ SignedIn \/ InfoSeen \/ ConnectFails
  \/ Reconnect \/ Authorized \/ Verified \/ Refused
  \/ UserPauses \/ UserResumes \/ BackupStarts \/ BackupEnds \/ SignInCrash

-----------------------------------------------------------------------------
\* A destination that is stored as connected has its section in rclone.conf, also
\* after a sign-in that put the file back.  Only a user who connects an account while
\* the browser of the first is open can lose one.
ConnectedIsConfigured == connected \subseteq sections

\* The token in rclone.conf was issued to the client in it, or rclone cannot renew it:
\* whether signing in again succeeded, failed or lost the client on the way.  A crash
\* with the browser open leaves a client without a token until the next sign-in.
TokenFitsClient == ~SigningIn /\ ~torn => token = client

\* Signing in again neither ends a pause of the user nor leaves one of its own; a
\* crash leaves one.
PauseIsUsers == ~SigningIn => (paused <=> byUser)

AccountsKept == ConnectedIsConfigured /\ TokenFitsClient /\ PauseIsUsers
=============================================================================
