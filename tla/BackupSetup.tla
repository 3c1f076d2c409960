------------------------------ MODULE BackupSetup ------------------------------
(***************************************************************************)
(* The way from a fresh installation to a running backup and back: the     *)
(* steps of the setup wizard, the sign-in to Google Drive with the polls   *)
(* and refreshes around it, the folders that are chosen, the services that *)
(* watch and schedule, and the loads that keep the panel like the          *)
(* document.  Requests of the panel are answered in the order of their     *)
(* questions, except when "late" is in SetupFaults.                        *)
(***************************************************************************)
EXTENDS Naturals, FiniteSets, Sequences, SequencesExt

CONSTANTS Places,        \* paths that a user may back up
          SystemPlaces,  \* those the wizard offers by itself
          Inside,        \* the pair {inner, outer}; Outer is the outer one
          Outer,
          SetupFaults,   \* "password": the vault refuses, "keychain", "late", "toggle",
                         \* "early": the user acts before the services have started,
                         \* "back": goes back in the wizard while the folders are added
          MaxSteps       \* bound on what the user does

SetupAssumption ==
  /\ SystemPlaces \subseteq Places /\ IsFiniteSet(SystemPlaces)
  /\ Outer \in Inside /\ Inside \subseteq Places
  /\ Cardinality(Inside) = 2
  /\ SetupFaults \subseteq {"password", "keychain", "late", "toggle", "early", "back"}
  /\ MaxSteps \in Nat

VARIABLES drive, key, complete, chosen, off, pausedSetting,  \* rclone.conf, keychain, document
          scheduling, watched, starting,                     \* the services
          restoring,   \* set up to restore only, since the program was started
          setup, step, mode, connected, authStarted, picks,  \* the panel
          listed, adding, added, saving, reading, joined,
          signIns, refreshes, steps

savedVars == <<drive, key, complete, chosen, off, pausedSetting>>
serviceVars == <<scheduling, watched, starting, restoring>>
wizardVars == <<setup, step, mode, picks, adding, added, saving>>
driveVars == <<connected, authStarted, signIns, refreshes>>
loadVars == <<listed, reading, joined>>
setupVars == <<savedVars, serviceVars, wizardVars, driveVars, loadVars, steps>>

TypeOK ==
  /\ drive \in BOOLEAN /\ key \in BOOLEAN /\ complete \in BOOLEAN /\ pausedSetting \in BOOLEAN
  /\ chosen \subseteq Places /\ off \subseteq Places /\ chosen \cap off = {}
  /\ restoring \in BOOLEAN
  /\ scheduling \in BOOLEAN /\ watched \subseteq Places /\ starting \in {"no", "start", "paused"}
  /\ setup \in {"unknown", "no", "yes"} /\ step \in 1..4 /\ mode \in {"none", "backup", "access"}
  /\ connected \in BOOLEAN /\ authStarted \in BOOLEAN /\ picks \in Seq(Places)
  /\ listed \subseteq Places /\ adding \in Seq(Places) /\ added \in 0..Len(adding)
  /\ saving \in {"none", "backup", "access"}
  /\ reading \in {"no", "refresh", "info"} /\ joined \in BOOLEAN
  /\ signIns \in 0..2 /\ steps \in 0..MaxSteps
  /\ \A i \in DOMAIN refreshes :
       refreshes[i] \in [by : {"poll", "signin", "failed", "continue", "load"}, seen : BOOLEAN]

\* The main process starts with what was saved, the window with nothing.
SetupInit ==
  /\ complete \in BOOLEAN /\ drive = complete /\ key = complete
  /\ pausedSetting \in BOOLEAN /\ (pausedSetting => complete)
  /\ chosen = {} /\ off = {}
  /\ scheduling = FALSE /\ watched = {} /\ restoring = FALSE
  /\ starting = IF ~complete THEN "no" ELSE IF pausedSetting THEN "paused" ELSE "start"
  /\ setup = "unknown" /\ step = 1 /\ mode = "none" /\ picks = <<>> /\ adding = <<>> /\ added = 0
  /\ saving = "none"
  /\ connected = FALSE /\ authStarted = FALSE /\ signIns = 0 /\ refreshes = <<>>
  /\ listed = {} /\ reading = "no" /\ joined = FALSE /\ steps = 0

\* A step of the user, whose questions the main process has answered.
Act == steps < MaxSteps /\ steps' = steps + 1

Nested(p, q) == p = q \/ {p, q} = Inside

\* What ensureUnifiedCloudLayout is over and the services start, unless the setting
\* that was read before says paused.
ServicesStart ==
  /\ starting # "no" /\ starting' = "no"
  /\ IF starting = "start" THEN scheduling' = TRUE /\ watched' = chosen
                           ELSE UNCHANGED <<scheduling, watched>>
  /\ UNCHANGED <<savedVars, wizardVars, driveVars, loadVars, steps, restoring>>

-----------------------------------------------------------------------------
(* Is Google Drive connected? *)

\* rclone shows its configuration when asked; the answer comes later.
Ask(by, seen) == refreshes' = Append(refreshes, [by |-> by, seen |-> seen])

\* A request of the panel that is under way is joined, not sent again.
JoinsRequest == reading # "no"

\* loadAppConfigs: the rows and settings are read and shown; then the account is asked
\* for, from Google or, while there is no setup, from rclone's configuration.  A call
\* that meets another that is under way joins it and leaves the panel at what the caller
\* has shown.
Load(shown) ==
  IF JoinsRequest
  THEN joined' = TRUE /\ setup' = shown /\ UNCHANGED <<listed, reading, refreshes>>
  ELSE /\ listed' = chosen' \cup off' /\ joined' = FALSE
       /\ setup' = (IF complete' THEN "yes" ELSE "no")
       /\ reading' = (IF complete' THEN "info" ELSE "refresh")
       /\ IF complete' THEN UNCHANGED refreshes ELSE Ask("load", drive')

\* The window opens, or an event of the backup asks for the state again.
Reload ==
  /\ setup = "unknown" /\ reading = "no"
  /\ UNCHANGED <<savedVars, serviceVars, step, mode, picks, adding, added, saving,
                 connected, authStarted, signIns, steps>>
  /\ Load("unknown")
LoadEnds ==
  /\ reading = "info" /\ reading' = "no"
  /\ UNCHANGED <<savedVars, serviceVars, wizardVars, driveVars, listed, joined, steps>>

\* The browser opens; rclone waits for the approval in a process of its own.
StartGoogleAuth ==
  /\ setup = "no" /\ step = 1 /\ ~connected /\ ~authStarted /\ signIns < 2 /\ Act
  /\ authStarted' = TRUE /\ signIns' = signIns + 1
  /\ UNCHANGED <<savedVars, serviceVars, wizardVars, connected, refreshes, loadVars>>

SignInEnds ==
  /\ signIns > 0 /\ signIns' = signIns - 1
  /\ \/ drive' = TRUE /\ Ask("signin", TRUE)
     \/ UNCHANGED drive /\ Ask("failed", drive)
  /\ UNCHANGED <<key, complete, chosen, off, pausedSetting, serviceVars, wizardVars,
                 connected, authStarted, loadVars, steps>>

\* Every two seconds while the approval is awaited; here one at a time.
Poll ==
  /\ authStarted /\ ~connected /\ setup = "no"
  /\ \A i \in DOMAIN refreshes : refreshes[i].by # "poll"
  /\ Ask("poll", drive)
  /\ UNCHANGED <<savedVars, serviceVars, wizardVars, connected, authStarted, signIns, loadVars, steps>>

\* Ninety polls found nothing.  The sign-in goes on.
PollsEnd ==
  /\ authStarted /\ ~connected /\ setup = "no" /\ signIns > 0 /\ authStarted' = FALSE
  /\ UNCHANGED <<savedVars, serviceVars, wizardVars, connected, signIns, refreshes, loadVars, steps>>

\* setGDriveConnected and what the asker does then.
Refreshed(i) ==
  LET r == refreshes[i] IN
  /\ connected' = r.seen
  /\ authStarted' = (authStarted /\ ~r.seen /\ r.by \notin {"signin", "failed"})
  /\ reading' = (IF r.by = "load" THEN "no" ELSE reading)
  /\ refreshes' = RemoveAt(refreshes, i)
  /\ UNCHANGED <<savedVars, serviceVars, wizardVars, signIns, listed, joined, steps>>

RefreshEnds ==
  \E i \in DOMAIN refreshes : ("late" \in SetupFaults \/ i = 1) /\ Refreshed(i)

-----------------------------------------------------------------------------
(* The wizard. *)

\* The button is there only while the account is shown as connected.
Continue ==
  /\ setup = "no" /\ step = 1 /\ connected /\ Act /\ step' = 2
  /\ UNCHANGED <<savedVars, serviceVars, setup, mode, picks, adding, added, saving, driveVars, loadVars>>

ChooseMode ==
  /\ setup = "no" /\ step = 2 /\ Act /\ step' = 3 /\ mode' \in {"backup", "access"}
  /\ UNCHANGED <<savedVars, serviceVars, setup, picks, adding, added, saving, driveVars, loadVars>>

Back ==
  /\ setup = "no" /\ step > 1 /\ Act /\ step' = step - 1
  /\ adding = <<>> \/ "back" \in SetupFaults
  /\ UNCHANGED <<savedVars, serviceVars, setup, mode, picks, adding, added, saving, driveVars, loadVars>>

SavePassword ==
  /\ setup = "no" /\ step = 3 /\ saving = "none" /\ Act /\ saving' = mode
  /\ UNCHANGED <<savedVars, serviceVars, setup, step, mode, picks, adding, added, driveVars, loadVars>>

\* The folders that the last step selects by itself.
Preselected == SetToSeq(SystemPlaces \ chosen)

\* The key and the encrypted remote stand for each other here; VaultAccess takes them
\* apart.  A failure puts back what was there before.
PasswordSaved ==
  /\ saving # "none" /\ saving' = "none" /\ key' = TRUE
  /\ IF saving = "access"
     THEN /\ complete' = TRUE /\ restoring' = TRUE
          /\ UNCHANGED <<drive, chosen, off, pausedSetting, step, picks>>
          /\ Load("yes")
     ELSE /\ step' = 4 /\ picks' = (IF step = 4 THEN picks ELSE Preselected)
          /\ UNCHANGED <<drive, complete, chosen, off, pausedSetting, restoring, loadVars, refreshes,
                         setup>>
  /\ UNCHANGED <<scheduling, watched, starting, mode, adding, added, connected, authStarted, signIns,
                 steps>>

\* The check of the vault, or the keychain after it, refuses.  In the mode that only
\* restores, the setting was written before the keychain.
PasswordFails ==
  /\ saving # "none" /\ saving' = "none"
  /\ \/ "password" \in SetupFaults /\ UNCHANGED complete
     \/ "keychain" \in SetupFaults /\ complete' = (complete \/ saving = "access")
  /\ UNCHANGED <<drive, key, chosen, off, pausedSetting, serviceVars, setup, step, mode, picks,
                 adding, added, driveVars, loadVars, steps>>

Pick(p) ==
  /\ setup = "no" /\ step = 4 /\ ~Contains(picks, p) /\ Act /\ picks' = Append(picks, p)
  /\ UNCHANGED <<savedVars, serviceVars, setup, step, mode, adding, added, saving, driveVars, loadVars>>

\* No folder is picked twice.
Unpick(p) ==
  /\ setup = "no" /\ step = 4 /\ Act
  /\ \E i \in DOMAIN picks : picks[i] = p /\ picks' = RemoveAt(picks, i)
  /\ UNCHANGED <<savedVars, serviceVars, setup, step, mode, adding, added, saving, driveVars, loadVars>>

\* settings:set with setup_complete; the services start unless backups are paused.
CompleteSetup ==
  /\ complete' = TRUE /\ restoring' = FALSE
  /\ IF pausedSetting THEN UNCHANGED <<scheduling, watched>>
                      ELSE scheduling' = TRUE /\ watched' = chosen'

\* folders:add: refused where it would overlap a folder that is enabled; a disabled
\* folder of that path is taken up again.
Allowed(p) == \A q \in chosen : ~Nested(p, q)
Take(p) == chosen' = chosen \cup {p} /\ off' = off \ {p}
Watch(p) == watched' = IF pausedSetting THEN watched ELSE watched \cup {p}

\* The folders are added one after the other; the last one, or having none, completes
\* the setup.
FinishUp == CompleteSetup /\ adding' = <<>> /\ added' = 0 /\ Load("yes")
nothingFinished == <<complete, scheduling, restoring, loadVars, refreshes, setup>>
finishRest == <<drive, key, pausedSetting, starting, step, mode, picks, saving, connected,
                authStarted, signIns>>

Finish ==
  /\ setup = "no" /\ step = 4 /\ adding = <<>> /\ Act
  /\ UNCHANGED <<chosen, off, finishRest>>
  /\ IF picks = <<>> THEN FinishUp
     ELSE adding' = picks /\ UNCHANGED <<added, watched, nothingFinished>>

\* The first folder that is refused ends it.
FinishAdds ==
  LET p == adding[added + 1] IN
  /\ adding # <<>> /\ Allowed(p) /\ Take(p) /\ UNCHANGED <<finishRest, steps>>
  /\ IF added + 1 = Len(adding) THEN FinishUp
     ELSE added' = added + 1 /\ Watch(p) /\ UNCHANGED <<adding, nothingFinished>>

FinishFails ==
  /\ adding # <<>> /\ ~Allowed(adding[added + 1]) /\ adding' = <<>> /\ added' = 0
  /\ UNCHANGED <<chosen, off, watched, nothingFinished, finishRest, steps>>

-----------------------------------------------------------------------------
(* The panel after the setup: folders, pause and disconnect.  Every handler ends with
   a load. *)

\* While the services still have to start only with "early" in SetupFaults.
Ready == setup = "yes" /\ Act /\ (starting = "no" \/ "early" \in SetupFaults)
panelRest == <<starting, restoring, step, mode, picks, adding, added, saving, connected, authStarted, signIns>>

AddFolder(p) ==
  /\ Ready /\ Allowed(p) /\ Take(p) /\ Watch(p)
  /\ UNCHANGED <<drive, key, complete, pausedSetting, scheduling, panelRest>> /\ Load(setup)

RemoveFolder(p) ==
  /\ Ready /\ p \in chosen \cup off
  /\ chosen' = chosen \ {p} /\ off' = off \ {p} /\ watched' = watched \ {p}
  /\ UNCHANGED <<drive, key, complete, pausedSetting, scheduling, panelRest>> /\ Load(setup)

\* Enabling asks for no overlap: the folder may lie in one that was added since.
ToggleFolder(p) ==
  /\ Ready
  /\ \/ p \in chosen /\ chosen' = chosen \ {p} /\ off' = off \cup {p} /\ watched' = watched \ {p}
     \/ p \in off /\ ("toggle" \in SetupFaults \/ Allowed(p)) /\ Take(p) /\ Watch(p)
  /\ UNCHANGED <<drive, key, complete, pausedSetting, scheduling, panelRest>> /\ Load(setup)

Pause ==
  /\ Ready /\ ~pausedSetting /\ pausedSetting' = TRUE /\ scheduling' = FALSE /\ watched' = {}
  /\ UNCHANGED <<drive, key, complete, chosen, off, panelRest>> /\ Load(setup)
Resume ==
  /\ Ready /\ pausedSetting /\ pausedSetting' = FALSE /\ scheduling' = TRUE /\ watched' = chosen
  /\ UNCHANGED <<drive, key, complete, chosen, off, panelRest>> /\ Load(setup)

\* What was asked before a long request is answered before it.
Answered == refreshes = <<>> \/ "late" \in SetupFaults

\* rclone.conf, the key, the folders and the setting go; the panel shows the wizard.
Disconnect ==
  /\ Ready /\ Answered /\ drive' = FALSE /\ key' = FALSE /\ complete' = FALSE
  /\ chosen' = {} /\ off' = {} /\ scheduling' = FALSE /\ watched' = {}
  /\ step' = 1 /\ connected' = FALSE /\ authStarted' = FALSE /\ mode' = "none" /\ picks' = <<>>
  /\ UNCHANGED <<pausedSetting, starting, restoring, adding, added, saving, signIns>> /\ Load("no")

\* The program is closed and started again; what it was doing is lost.
Launch ==
  /\ Act /\ UNCHANGED savedVars
  /\ scheduling' = FALSE /\ watched' = {} /\ restoring' = FALSE
  /\ starting' = (IF ~complete THEN "no" ELSE IF pausedSetting THEN "paused" ELSE "start")
  /\ setup' = "unknown" /\ step' = 1 /\ mode' = "none" /\ picks' = <<>> /\ adding' = <<>> /\ added' = 0
  /\ saving' = "none"
  /\ connected' = FALSE /\ authStarted' = FALSE /\ signIns' = 0 /\ refreshes' = <<>>
  /\ listed' = {} /\ reading' = "no" /\ joined' = FALSE

SetupStep ==
  \/ ServicesStart \/ Reload \/ LoadEnds \/ StartGoogleAuth \/ SignInEnds \/ Poll \/ PollsEnd
  \/ RefreshEnds \/ Continue \/ ChooseMode \/ Back \/ SavePassword \/ PasswordSaved
  \/ PasswordFails \/ Finish \/ FinishAdds \/ FinishFails \/ Pause \/ Resume \/ Disconnect \/ Launch
  \/ \E p \in Places : Pick(p) \/ Unpick(p) \/ AddFolder(p) \/ RemoveFolder(p) \/ ToggleFolder(p)

-----------------------------------------------------------------------------
(* What a user takes from the panel. *)

\* What is called set up can back up or restore: the account is connected and the key
\* is there.
SetUpIsWhole == complete => drive /\ key

\* No file is in two enabled folders.
FoldersApart == \A p, q \in chosen : p = q \/ ~Nested(p, q)

\* The folders shown are the folders kept, except where a load was asked for while
\* another one waited for Google.
ListIsKept == setup = "yes" /\ reading = "no" /\ ~joined => listed = chosen \cup off

\* Whoever has finished the wizard for backups is watched and scheduled without a
\* restart, unless backups are paused; before it, and after a disconnect, nothing is.
ServicesRun ==
  /\ complete /\ ~pausedSetting /\ starting = "no" /\ ~restoring =>
       scheduling /\ watched = chosen
  /\ ~complete /\ starting = "no" => ~scheduling /\ watched \subseteq chosen

\* With no answer under way the wizard shows whether the account is connected.
ConnectionIsShown ==
  setup = "no" /\ refreshes = <<>> /\ reading = "no" => connected = drive

SetupHolds == SetUpIsWhole /\ FoldersApart /\ ListIsKept /\ ServicesRun /\ ConnectionIsShown

\* The setup for backups ends only when every folder that was picked is backed up.
PicksAreKept ==
  [][~complete /\ complete' => \A i \in DOMAIN adding : adding[i] \in chosen']_setupVars
==============================================================================
