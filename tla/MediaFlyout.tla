----------------------------- MODULE MediaFlyout ----------------------------
(***************************************************************************)
(* What the LabMedia helper shows, in three parts.                         *)
(*                                                                         *)
(* When the strip and its flyout are on the screen (MainWindow.xaml.cs,    *)
(* NowPlayingPanel.xaml.cs): the settings file that LabSuite writes and a  *)
(* watcher reads, the room on the taskbar, and the clicks, of which one on *)
(* the strip also deactivates the flyout.                                  *)
(*                                                                         *)
(* The volume of the player that LabMedia shows (NowPlayingPanel.xaml.cs   *)
(* and AppVolume.cs): the slider of the flyout, whose changes are applied  *)
(* 120 ms after the last one, and the volume that Windows keeps of each    *)
(* audio stream of a program.  Reading and setting run beside the window.  *)
(*                                                                         *)
(* Which of the players on the machine LabMedia shows and controls         *)
(* (SmtcManager.cs): Windows lists a session per player, a refresh chooses *)
(* one and then reads it, and the user may have picked one from the list.  *)
(***************************************************************************)
EXTENDS Naturals, Integers, FiniteSetsExt

CONSTANTS AutoHideWhenIdle,
          Slow     \* the window needs more than 350 ms from the one event of a click to the other

FlyoutAssumption == AutoHideWhenIdle \in BOOLEAN /\ Slow \in BOOLEAN

VARIABLES
  file,        \* the settings: is it enabled, or half written
  events,      \* of the watcher, that wait
  enabled,     \* _config.Enabled
  hasSession,
  room,        \* on the taskbar, with no window over the whole screen
  strip,       \* the window is visible
  panel,       \* the flyout: "hidden", "opening" until the window is idle, "open"
  anchor,      \* _lastTaskbarInfo is of a taskbar
  deactivated, \* LastDeactivatedUtc is less than 350 ms ago
  clicking,    \* a click on the strip has deactivated the flyout
  hiding,      \* LabSuite has been told to hide the strip
  closing      \* (ghost) the user asked with that click to close the flyout

flyoutVars == <<file, events, enabled, hasSession, room, strip, panel, anchor, deactivated,
                clicking, hiding, closing>>

TypeOK ==
  /\ file \in {"on", "off", "torn"} /\ panel \in {"hidden", "opening", "open"}
  /\ \A b \in {events, enabled, hasSession, room, strip, anchor, deactivated, clicking, hiding,
               closing} : b \in BOOLEAN

Init ==
  /\ file \in {"on", "off"} /\ events = FALSE /\ enabled = (file = "on") /\ hasSession = FALSE
  /\ room \in BOOLEAN /\ strip = (enabled /\ room /\ ~AutoHideWhenIdle) /\ panel = "hidden"
  /\ anchor = strip /\ deactivated = FALSE /\ clicking = FALSE /\ hiding = FALSE /\ closing = FALSE

-----------------------------------------------------------------------------
\* Mutant: the flyout stays when the strip goes.
PanelWithoutStrip(visible) == panel

PanelWith(visible) == IF visible THEN panel ELSE "hidden"

\* UpdatePositionAndVisibility.
UpdatePositionAndVisibility(on, session) ==
  LET wanted == on /\ (session \/ ~AutoHideWhenIdle) IN
    /\ strip' = (wanted /\ room) /\ panel' = PanelWith(strip')
    /\ anchor' = (anchor \/ strip')

Poll ==
  /\ UpdatePositionAndVisibility(enabled, hasSession)
  /\ UNCHANGED <<file, events, enabled, hasSession, room, deactivated, clicking, hiding, closing>>

TaskbarChanges ==
  /\ room' = ~room
  /\ UNCHANGED <<file, events, enabled, hasSession, strip, panel, anchor, deactivated, clicking,
                 hiding, closing>>

SessionStateChanged ==
  /\ hasSession' = ~hasSession /\ UpdatePositionAndVisibility(enabled, ~hasSession)
  /\ UNCHANGED <<file, events, enabled, room, deactivated, clicking, hiding, closing>>

-----------------------------------------------------------------------------
(* The settings. *)

\* writeFileSync empties the file before it writes; each of the two is an event.
WriteBegins ==
  /\ file # "torn" /\ file' = "torn" /\ events' = TRUE
  /\ UNCHANGED <<enabled, hasSession, room, strip, panel, anchor, deactivated, clicking, hiding,
                 closing>>

\* The menu hides the strip by this way, too.
WriteEnds ==
  /\ file = "torn" /\ events' = TRUE
  /\ file' \in (IF hiding THEN {"off"} ELSE {"on", "off"})
  /\ hiding' = FALSE
  /\ UNCHANGED <<enabled, hasSession, room, strip, panel, anchor, deactivated, clicking, closing>>

\* LoadConfig: what cannot be read changes nothing.
LoadConfig ==
  /\ events /\ events' = FALSE
  /\ IF file = "torn" THEN UNCHANGED <<enabled, strip, panel, anchor>>
     ELSE /\ enabled' = (file = "on")
          /\ UpdatePositionAndVisibility(enabled', hasSession)
  /\ UNCHANGED <<file, hasSession, room, deactivated, clicking, hiding, closing>>

MenuItem_Hide ==
  /\ strip /\ ~hiding /\ hiding' = TRUE /\ strip' = FALSE /\ panel' = "hidden"
  /\ UNCHANGED <<file, events, enabled, hasSession, room, anchor, deactivated, clicking, closing>>

-----------------------------------------------------------------------------
(* The flyout. *)

\* The mouse goes down on the strip, or elsewhere: Window_Deactivated.
Deactivate(onStrip) ==
  /\ ~clicking /\ panel # "hidden"
  /\ onStrip => strip
  /\ closing' = (onStrip /\ panel = "open") /\ clicking' = onStrip
  /\ IF panel = "opening" THEN UNCHANGED <<panel, deactivated>>
     ELSE panel' = "hidden" /\ deactivated' = TRUE
  /\ UNCHANGED <<file, events, enabled, hasSession, room, strip, anchor, hiding>>

ClickBegins ==
  /\ ~clicking /\ strip /\ panel = "hidden" /\ clicking' = TRUE
  /\ UNCHANGED <<file, events, enabled, hasSession, room, strip, panel, anchor, deactivated,
                 hiding, closing>>

\* Mutant: a click opens the flyout that it has just closed.
OpensAlways == anchor

\* ShowAnchored needs a taskbar.
Opens == anchor /\ ~deactivated

HandlePrimaryClick ==
  /\ clicking /\ clicking' = FALSE
  /\ panel' = IF panel # "hidden" THEN "hidden" ELSE IF strip /\ Opens THEN "opening" ELSE "hidden"
  /\ closing' = (closing /\ panel' # "hidden")
  /\ UNCHANGED <<file, events, enabled, hasSession, room, strip, anchor, deactivated, hiding>>

ApplicationIdle ==
  /\ panel = "opening" /\ panel' = "open"
  /\ UNCHANGED <<file, events, enabled, hasSession, room, strip, anchor, deactivated, clicking,
                 hiding, closing>>

EscapeKey ==
  /\ panel # "hidden" /\ panel' = "hidden"
  /\ UNCHANGED <<file, events, enabled, hasSession, room, strip, anchor, deactivated, clicking,
                 hiding, closing>>

TimePasses ==
  /\ deactivated /\ deactivated' = FALSE
  /\ clicking => Slow
  /\ UNCHANGED <<file, events, enabled, hasSession, room, strip, panel, anchor, clicking, hiding,
                 closing>>

Next ==
  \/ Poll \/ TaskbarChanges \/ SessionStateChanged
  \/ WriteBegins \/ WriteEnds \/ LoadConfig \/ MenuItem_Hide
  \/ \E onStrip \in BOOLEAN : Deactivate(onStrip)
  \/ ClickBegins \/ HandlePrimaryClick \/ ApplicationIdle \/ EscapeKey \/ TimePasses


-----------------------------------------------------------------------------
(* Properties. *)

\* A flyout is never left on the screen without the strip that closes it, whatever takes
\* the strip away.
FlyoutHasItsStrip == panel # "hidden" => strip

\* A click on the strip that began over an open flyout closes it.
ClickCloses == closing => clicking

\* When the watcher has no event left, the settings are those of the file.
SettingsAreRead == file # "torn" /\ ~events => (enabled <=> file = "on")

FlyoutAsAsked == FlyoutHasItsStrip /\ ClickCloses /\ SettingsAreRead

-----------------------------------------------------------------------------

CONSTANTS Players, None,
          Audible,      \* the players that may have audio streams, two at most
          Unnamed,      \* players that are all shown as "Media Player"
          MaxLevel,     \* bound: a volume is 0 .. MaxLevel
          Hasty         \* something else happens before a change is applied: another player is
                        \* shown, an answer arrives, the flyout is closed

VolumeAssumption ==
  /\ None \notin Players /\ Audible \subseteq Players /\ Unnamed \subseteq Players
  /\ MaxLevel \in Nat /\ Hasty \in BOOLEAN

VARIABLES
  player,      \* _state: the player that is shown
  streams,     \* what Windows says of each audio stream
  level,       \* the volume of each
  master,      \* the volume of the machine
  flyout,      \* the flyout is open
  slider,
  commitTimer, \* _volumeCommitTimer runs
  settings,    \* volumes on their way: [player, level]
  readings,    \* and readings: [player, level]
  wanted,      \* (ghost) what the user asked for last: [player, level]
  touched      \* (ghost) another program changed something since the last reading

volumeVars == <<player, streams, level, master, flyout, slider, commitTimer, settings, readings,
                wanted, touched>>

Levels  == 0 .. MaxLevel
Unread  == MaxLevel + 1
Streams == Audible \X {1, 2}
Someone == Players \cup {None}

VolumeTypeOK ==
  /\ player \in Someone /\ streams \in [Streams -> {"none", "quiet", "active"}]
  /\ level \in [Streams -> Levels] /\ master \in Levels /\ slider \in Levels
  /\ flyout \in BOOLEAN /\ commitTimer \in BOOLEAN /\ touched \in BOOLEAN
  /\ settings \subseteq [player : Someone, level : Levels]
  /\ readings \subseteq [player : Someone, level : Levels \cup {Unread}]
  /\ wanted \in {<<>>} \cup (Someone \X Levels)

VolumeInit ==
  /\ player = None /\ streams = [s \in Streams |-> "none"] /\ level = [s \in Streams |-> MaxLevel]
  /\ master = MaxLevel /\ flyout = FALSE /\ slider = 0 /\ commitTimer = FALSE
  /\ settings = {} /\ readings = {} /\ wanted = <<>> /\ touched = FALSE

Sounds == <<streams, level, master>>
Calm   == Hasty \/ (~commitTimer /\ settings = {} /\ readings = {})

-----------------------------------------------------------------------------
(* AppVolume. *)

\* VisitMatchingVolumes: the active streams of the player, or the others.
Targets(p) ==
  LET candidates == {s \in Streams : s[1] = p /\ streams[s] # "none"}
      active     == {s \in candidates : streams[s] = "active"} IN
    IF active # {} THEN active ELSE candidates

\* Without a stream it is the volume of the machine.
FirstOf(ts) == CHOOSE s \in ts : \A t \in ts : s[2] <= t[2]
LastOf(ts)  == CHOOSE s \in ts : \A t \in ts : s[2] >= t[2]

GetMediaVolume(p) == IF Targets(p) = {} THEN master ELSE level[FirstOf(Targets(p))]

SetMediaVolume(p, of(_)) ==
  /\ level'  = [s \in Streams |-> IF s \in Targets(p) THEN of(level[s]) ELSE level[s]]
  /\ master' = IF Targets(p) = {} THEN of(master) ELSE master
  /\ UNCHANGED streams

Clamp(l) == IF l < 0 THEN 0 ELSE IF l > MaxLevel THEN MaxLevel ELSE l

\* Windows, and other programs.
OthersChange ==
  /\ Calm
  /\ \/ \E s \in Streams, to \in {"none", "quiet", "active"} :
          streams' = [streams EXCEPT ![s] = to] /\ UNCHANGED <<level, master>>
     \/ \E s \in Streams, l \in Levels : level' = [level EXCEPT ![s] = l] /\ UNCHANGED <<streams, master>>
     \/ master' \in Levels /\ UNCHANGED <<streams, level>>
  /\ touched' = TRUE /\ wanted' = <<>>
  /\ UNCHANGED <<player, flyout, slider, commitTimer, settings, readings>>

-----------------------------------------------------------------------------
(* The flyout. *)

NameOf(p) == IF p \in Unnamed THEN "Media Player" ELSE p

\* RefreshVolume, for the player that is shown.
Asked(p) == readings \cup {[player |-> p, level |-> Unread]}

ShowAnchored ==
  /\ ~flyout /\ flyout' = TRUE /\ readings' = Asked(player)
  /\ UNCHANGED <<player, Sounds, slider, commitTimer, settings, wanted, touched>>

\* HideFlyout: what waits for the timer is not applied.
HideFlyout ==
  /\ flyout /\ Calm /\ flyout' = FALSE /\ commitTimer' = FALSE
  /\ UNCHANGED <<player, Sounds, slider, settings, readings, wanted, touched>>

\* Mutant: another player is shown with the volume of the one before.
NotAsked(p) == readings

\* Players are told apart by the name that is shown.
AskedFor(p) == IF flyout /\ NameOf(p) # NameOf(player) THEN Asked(p) ELSE readings

UpdateState(p) ==
  /\ p # player /\ Calm /\ player' = p
  /\ readings' = AskedFor(p)
  /\ UNCHANGED <<Sounds, flyout, slider, commitTimer, settings, wanted, touched>>

\* A drag, a click or the wheel over the flyout.
MoveSlider(l) ==
  /\ Hasty \/ (settings = {} /\ readings = {})
  /\ flyout /\ slider # l /\ slider' = l /\ commitTimer' = TRUE /\ wanted' = <<player, l>>
  /\ UNCHANGED <<player, Sounds, flyout, settings, readings, touched>>

VolumeCommitTimer ==
  /\ commitTimer /\ commitTimer' = FALSE
  /\ settings' = settings \cup {[player |-> player, level |-> slider]}
  /\ UNCHANGED <<player, Sounds, flyout, slider, readings, wanted, touched>>

IsSet(t) ==
  /\ t \in settings /\ settings' = settings \ {t}
  /\ SetMediaVolume(t.player, LAMBDA l : t.level) /\ readings' = Asked(player)
  /\ UNCHANGED <<player, flyout, slider, commitTimer, wanted, touched>>

Reads(r) ==
  /\ r \in readings /\ r.level = Unread
  /\ readings' = (readings \ {r}) \cup {[r EXCEPT !.level = GetMediaVolume(r.player)]}
  /\ touched' = (touched /\ readings # {r})
  /\ UNCHANGED <<player, Sounds, flyout, slider, commitTimer, settings, wanted>>

IsRead(r) ==
  /\ r \in readings /\ r.level # Unread
  /\ readings' = readings \ {r} /\ slider' = r.level
  /\ UNCHANGED <<player, Sounds, flyout, commitTimer, settings, wanted, touched>>

\* The wheel over the widget: AdjustMediaVolume, then SyncVolumeLevel.
Window_PreviewMouseWheel(delta) ==
  /\ Calm /\ SetMediaVolume(player, LAMBDA l : Clamp(l + delta))
  /\ slider' = IF Targets(player) = {} THEN master' ELSE level'[LastOf(Targets(player))]
  /\ wanted' = <<>>
  /\ UNCHANGED <<player, flyout, commitTimer, settings, readings, touched>>

VolumeNext ==
  \/ OthersChange \/ ShowAnchored \/ HideFlyout \/ VolumeCommitTimer
  \/ \E p \in Someone : UpdateState(p)
  \/ \E l \in Levels : MoveSlider(l)
  \/ \E t \in settings : IsSet(t)
  \/ \E r \in readings : Reads(r) \/ IsRead(r)
  \/ \E delta \in {-1, 1} : Window_PreviewMouseWheel(delta)


-----------------------------------------------------------------------------
(* Properties, when no change and no reading is under way. *)

Rests == ~commitTimer /\ settings = {} /\ readings = {}

\* The slider shows the volume of the player that is shown, or of one of its streams.
SliderIsTrue ==
  Rests /\ flyout /\ ~touched =>
    slider \in (IF Targets(player) = {} THEN {master} ELSE {level[s] : s \in Targets(player)})

\* What the user asked for last is the volume of that player, after the readings that
\* were under way, and of no stream of another one.
LastChangeWins ==
  Rests /\ wanted # <<>> =>
    \/ Targets(wanted[1]) = {} /\ master = wanted[2]
    \/ Targets(wanted[1]) # {} /\ \A s \in Targets(wanted[1]) : level[s] = wanted[2]

VolumeAsShown == SliderIsTrue /\ LastChangeWins

-----------------------------------------------------------------------------

CONSTANTS Apps,
          Lost   \* the id of a session that is gone: it never comes back

SessionsAssumption == None \notin Apps /\ Lost \notin Apps \cup {None}

VARIABLES
  live, playing, shuffle,   \* Windows: the sessions, and what each does
  current,    \* _currentSession, which the buttons control
  forced,     \* _forcedSessionId
  state,      \* CurrentSessionState, as it is shown: [app, playing, shuffle, sessions]
  listed,     \* the sessions of that list whose ids are still the ones in use
  refreshing, \* the refresh that holds the gate: the sessions it listed
  waiting,    \* a refresh with forceWait stands at the gate
  chosen,     \* (ghost) what the user picked and has not been closed
  changed     \* (ghost) something happened since the last refresh began

sessionVars == <<live, playing, shuffle, current, forced, state, listed, refreshing, waiting,
                 chosen, changed>>

States == [app : Apps \cup {None}, playing : BOOLEAN, shuffle : BOOLEAN, sessions : SUBSET Apps]

SessionsTypeOK ==
  /\ live \subseteq Apps /\ playing \subseteq Apps /\ shuffle \subseteq Apps
  /\ current \in Apps \cup {None} /\ forced \in Apps \cup {None, Lost} /\ state \in States
  /\ listed \subseteq state.sessions /\ refreshing \in {{}} \cup {{s} : s \in SUBSET Apps}
  /\ waiting \in BOOLEAN /\ chosen \in Apps \cup {None} /\ changed \in BOOLEAN

SessionsInit ==
  /\ live = {} /\ playing = {} /\ shuffle = {} /\ current = None /\ forced = None
  /\ state = [app |-> None, playing |-> FALSE, shuffle |-> FALSE, sessions |-> {}]
  /\ listed = {} /\ refreshing = {} /\ waiting = FALSE /\ chosen = None /\ changed = FALSE

Manager == <<current, forced, state, listed, refreshing, waiting, chosen>>

-----------------------------------------------------------------------------
(* The players. *)

AppStarts(a) == live' = live \cup {a} /\ playing' = playing \ {a} /\ UNCHANGED shuffle

AppCloses(a) == live' = live \ {a} /\ playing' = playing \ {a} /\ shuffle' = shuffle \ {a}

PlaysOrPauses(a) ==
  /\ a \in live /\ UNCHANGED <<live, shuffle>>
  /\ playing' = IF a \in playing THEN playing \ {a} ELSE playing \cup {a}

PlayerActs(a) ==
  /\ \/ a \notin live /\ AppStarts(a)
     \/ a \in live /\ AppCloses(a)
     \/ PlaysOrPauses(a)
  /\ changed' = TRUE /\ UNCHANGED Manager

-----------------------------------------------------------------------------
(* RefreshAsync. *)

\* ReconcileSessionIds: who is gone loses its id.
Reconciled(id) == IF id \in Apps \ live THEN Lost ELSE id

\* Mutant: who plays comes first.
PlayingFirst(id) == IF playing # {} THEN playing
                    ELSE IF id \in live THEN {id} ELSE IF live = {} THEN {None} ELSE live

\* SelectCurrentSession: what the user picked, else one that plays, else the one that
\* Windows takes for the current one, which may be any.
Selections(id) ==
  IF id \in live THEN {id} ELSE IF playing # {} THEN playing
  ELSE IF live = {} THEN {None} ELSE live

\* An event that finds the gate closed is dropped; the poll comes every second.
BeginRefresh ==
  /\ refreshing = {} /\ refreshing' = {live}
  /\ current' \in Selections(Reconciled(forced))
  /\ forced' = IF forced \in live THEN forced ELSE None
  /\ listed' = listed \cap live
  /\ chosen' = IF chosen \in live THEN chosen ELSE None
  /\ waiting' \in {FALSE, waiting} /\ changed' = FALSE
  /\ UNCHANGED <<live, playing, shuffle, state>>

\* RefreshStateAsync; a session that is gone by now cannot be read.
EndRefresh ==
  \E sessions \in refreshing :
    /\ state' = [app |-> current, playing |-> current \in playing,
                 shuffle |-> current \in shuffle, sessions |-> sessions]
    /\ listed' = sessions /\ refreshing' = {}
    /\ UNCHANGED <<live, playing, shuffle, current, forced, waiting, chosen, changed>>

\* Two seconds.
GiveUpWaiting ==
  /\ waiting /\ refreshing # {} /\ waiting' = FALSE
  /\ UNCHANGED <<live, playing, shuffle, current, forced, state, listed, refreshing, chosen,
                 changed>>

-----------------------------------------------------------------------------
(* The user. *)

\* SelectSessionAsync.
SelectSession(a) ==
  /\ a \in state.sessions /\ a # state.app /\ ~waiting
  /\ forced' = IF a \in listed THEN a ELSE Lost
  /\ chosen' = IF a \in listed THEN a ELSE None
  /\ waiting' = TRUE /\ changed' = TRUE
  /\ UNCHANGED <<live, playing, shuffle, current, state, listed, refreshing>>

\* TogglePlayPauseAsync, of the session that the last refresh has chosen.
TogglePlayPause ==
  /\ current \in live /\ changed' = TRUE
  /\ playing' = IF current \in playing THEN playing \ {current} ELSE playing \cup {current}
  /\ UNCHANGED <<live, shuffle, Manager>>

\* ToggleShuffleAsync: shown at once, then asked for; a player may not do it.
ToggleShuffle ==
  /\ current # None /\ ~waiting /\ waiting' = TRUE /\ changed' = TRUE
  /\ state' = [state EXCEPT !.shuffle = ~@]
  /\ \/ shuffle' = IF state'.shuffle THEN shuffle \cup ({current} \cap live) ELSE shuffle \ {current}
     \/ UNCHANGED shuffle
  /\ UNCHANGED <<live, playing, current, forced, listed, refreshing, chosen>>

SessionsNext ==
  \/ BeginRefresh \/ EndRefresh \/ GiveUpWaiting \/ TogglePlayPause \/ ToggleShuffle
  \/ \E a \in Apps : PlayerActs(a) \/ SelectSession(a)

-----------------------------------------------------------------------------
(* Properties, between two refreshes. *)

SessionsRests == refreshing = {}

\* The buttons control the player that is shown, whatever other players did meanwhile.
ControlsWhatIsShown == SessionsRests => state.app = current

\* One refresh in which nothing happens is enough to show what is, after any number of
\* events that found the gate closed, and shuffles that no player did.
OneRefreshHeals ==
  SessionsRests /\ ~changed =>
    /\ state.sessions = live /\ (state.playing <=> state.app \in playing)
    /\ state.shuffle <=> state.app \in shuffle

\* What the user picked stays until its player is closed, over other players that start
\* to play, and a refresh that was under way when it was picked.
ChoiceIsKept == SessionsRests /\ ~changed /\ chosen # None => state.app = chosen

SessionsAreShown == ControlsWhatIsShown /\ OneRefreshHeals /\ ChoiceIsKept
=============================================================================
