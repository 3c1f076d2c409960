------------------------------ MODULE MCDesktop ------------------------------
(***************************************************************************)
(* What LabSuite does on the machine it runs on, side by side: the         *)
(* Telegram archive, the table editor, the LabMedia helper and what it     *)
(* shows, the YTmusic companion, the network tools, the shutdown after a   *)
(* backup, the backup of Telegram sessions, the accounts of rclone, the    *)
(* backup panel, the program's windows and updates, LabShot, the crypto    *)
(* portfolio and its market data, the servers in the local network, and    *)
(* the tray with what it knows of the Google account.                      *)
(* As in MCPromises a behaviour moves one of the parts.                    *)
(***************************************************************************)
EXTENDS Naturals, FiniteSets

CONSTANTS Chats, MaxDay, MaxText, MaxCrashes, Together,
          Names, MaxRows, MaxColumns, MinRows, MaxEdits, Waits,
          MaxHelpers, CrashesPerWindow, MaxTokens, MaxCalls, Overlaps,
          Routers, MaxProfiles, Original, Devices, Macs,
          MaxHandlers, ShutdownFaults, Careful,
          Installs, Files, SessionFaults, Overlap,
          Clients, Shared, Destinations, Hurried,
          Items, Edited, MaxMessages, PanelFaults, WholeRuns,
          MaxChanges, MaxDeaths, LifeFaults,
          Points, MaxAnnotations, MaxDrags, Blunders,
          Shots, MaxRecords, MaxOverlays, Simultaneous,
          PCs, Ports, MaxStarts, MaxRequests,
          Guests, Legacy, Invitations, Bulk, MaxActive, MaxRestarts, MaxOpening, MaxToggles,
          Pairings, MaxHelperContent, MaxAttempts, HelperFaults, PairingReplaced,
          Apps, Nobody, Lost,
          Players, Audible, Unnamed, MaxLevel, Hasty,
          AutoHideWhenIdle, Slow,
          MaxEntries, MaxReads, MaxTime, SyncFaults,
          Amounts, Prices, Fees, LastDay, Imported, MaxTransactions, Habits,
          Symbols, Typed, Priced, LastPrice, Blank,
          Coins, NameLength, Fresh, Stale,
          HistoryDays, MaxHistoryRequests,
          PeerPCs, NoPC, Pages, MaxMoves, MaxEvents, BrowseFaults, Inboxes, MaxDrops, SameSecond,
          MaxTrayMoves, MaxAsks, GoogleAccounts, TrayHabits

VARIABLES part,
          today, telegram, segments, state, remote, checkpoint, backupStatus, job, newest, crashes,
          tables, activeTable, activeFileName, dirty, call, cutOff, recovery, edits,
          installed, enabled, childProcess, helpers, spawned, intentionalStops, stops,
          currentState, restartTimer, crashHistory,
          issued, acceptedTokens, credential, token, companion, socket, calls,
          before, wan, logins, profiles, active, restart, forgetting, shown,
          devices, wakes, listed, kills,
          phase, armed, backupCompleted, handlers, windows, label, paused, drain, automatic,
          run, lastRun, noted,
          registered, on, last, saved, due, tdata, snapshot, cloud, runs, orphaned,
          client, accountToken, sections, connected, connecting, reconnect, syncPaused, worker,
          byUser, torn,
          panelRun, runPaused, dueItems, work, buffer, channel, pending, rows, syncStatus,
          life, quit, flush, install, mainWindow, renderer, deaths, services, changes, written,
          updateStatus, check, download, version, session, clean, owed,
          tool, selection, mouse, startPos, annotations, stepCount, drags, finished,
          history, images, shotHandlers, fresh, keptRecords,
          overlays, activeOverlayWindows, capturing, captured,
          starting, starts, server, listening, advert, peers,
          trust, pairRequest, requester, pendingPeers,
          receiver, opening, stopping, receiverWanted, refused, invitation, consumed, guest, told,
          uploading, busy, activeUploads, committed, sourceOn, sourceOff, late, restarts, toggles,
          content, stateFile, helperInstalled, agents, pairedWith, arriving, stagedFile,
          live, playing, shuffle, current, forced, mediaState, listedSessions, refreshing, waiting,
          chosen, changed,
          player, streams, level, master, flyout, slider, commitTimer, settings, readings, wanted,
          touched,
          config, watched, stripEnabled, hasSession, room, strip, flyoutPanel, anchor, deactivated,
          clicking, hiding, closing,
          opened, table, updatedAt, mutatedAt, loaded, saveTimer, cache, file, sends, reads,
          lastRead, time, blank, done, everyone,
          transactions, importing,
          txSymbol, txAmount, txPrice, txTotalSpent, editing, showing, first,
          now, setFiles, coinFiles,
          day, prices, sharedPrices, requests,
          seen, paired, admits, selected, drivesOf, path, items, more, loading, loadingMore, pages,
          asks, moves, events,
          dropOn, inbox, made, dropFiles, recents, second, drops, queued, upload, toldDropped, spared,
          appStatus, lastProblem, visual, menu, health, problemFound, pausedFlag, drainFlag, backup,
          itemFailed, failing, resumed, denied, trayMoves,
          account, info, slot, asking, asked, switching

archiveVars   == <<today, telegram, segments, state, remote, checkpoint, backupStatus, job,
                   newest, crashes>>
sheetsVars    == <<tables, activeTable, activeFileName, dirty, call, cutOff, recovery, edits>>
widgetVars    == <<installed, enabled, childProcess, helpers, spawned, intentionalStops, stops,
                   currentState, restartTimer, crashHistory>>
companionVars == <<issued, acceptedTokens, credential, token, companion, socket, calls>>
toolVars      == <<before, wan, logins, profiles, active, restart, forgetting, shown,
                   devices, wakes, listed, kills>>
shutdownVars  == <<phase, armed, backupCompleted, handlers, windows, label, paused, drain,
                   automatic, run, lastRun, noted>>
sessionVars   == <<registered, on, last, saved, due, tdata, snapshot, cloud, runs, orphaned>>
accountVars   == <<client, accountToken, sections, connected, connecting, reconnect, syncPaused,
                   worker, byUser, torn>>
panelVars     == <<panelRun, runPaused, dueItems, work, buffer, channel, pending, rows, syncStatus>>
trayVars      == <<appStatus, lastProblem, visual, menu, health, problemFound, pausedFlag,
                   drainFlag, backup, itemFailed, failing, resumed, denied, trayMoves>>
infoVars      == <<account, info, slot, asking, asked, switching>>
backupVars    == <<shutdownVars, sessionVars, accountVars, panelVars, trayVars, infoVars>>
lifeVars      == <<life, quit, flush, install, mainWindow, renderer, deaths, services, changes,
                   written, updateStatus, check, download, version, session, clean, owed>>
overlayVars   == <<tool, selection, mouse, startPos, annotations, stepCount, drags, finished>>
shotVars      == <<history, images, shotHandlers, fresh, keptRecords,
                   overlays, activeOverlayWindows, capturing, captured>>
appVars       == <<lifeVars, overlayVars, shotVars>>
peersVars    == <<starting, starts, server, listening, advert, peers,
                  trust, pairRequest, requester, pendingPeers>>
receiverVars == <<receiver, opening, stopping, receiverWanted, refused, invitation, consumed, guest,
                  told, uploading, busy, activeUploads, committed, sourceOn, sourceOff, late,
                  restarts, toggles>>
helperVars   == <<content, stateFile, helperInstalled, agents, pairedWith, arriving, stagedFile>>
browseVars   == <<seen, paired, admits, selected, drivesOf, path, items, more, loading,
                  loadingMore, pages, asks, moves, events>>
dropVars     == <<dropOn, inbox, made, dropFiles, recents, second, drops, queued, upload,
                  toldDropped, spared>>
networkVars  == <<peersVars, receiverVars, helperVars, browseVars, dropVars>>
playerVars == <<live, playing, shuffle, current, forced, mediaState, listedSessions, refreshing,
                waiting, chosen, changed>>
volumeVars == <<player, streams, level, master, flyout, slider, commitTimer, settings, readings,
                wanted, touched>>
flyoutVars == <<config, watched, stripEnabled, hasSession, room, strip, flyoutPanel, anchor,
                deactivated, clicking, hiding, closing>>
musicVars  == <<playerVars, volumeVars, flyoutVars>>
syncVars    == <<opened, table, updatedAt, mutatedAt, loaded, saveTimer, cache, file, sends, reads,
                 lastRead, time, blank, done, everyone>>
ledgerVars  == <<transactions, importing>>
formVars    == <<txSymbol, txAmount, txPrice, txTotalSpent, editing, showing, first>>
marketVars  == <<now, setFiles, coinFiles>>
historyVars == <<day, prices, sharedPrices, requests>>
coinVars    == <<syncVars, ledgerVars, formVars, marketVars, historyVars>>
vars == <<part, archiveVars, sheetsVars, widgetVars, companionVars, toolVars,
          backupVars, appVars, networkVars, musicVars, coinVars>>

A == INSTANCE TelegramArchive WITH status <- backupStatus, temp <- snapshot
S == INSTANCE SheetsEditor
W == INSTANCE MediaWidget WITH MaxCrashes <- CrashesPerWindow,
                               status <- companion, accepted <- acceptedTokens
N == INSTANCE NetworkTools WITH credential <- logins, crashes <- kills
P == INSTANCE ShutdownAfterBackup WITH calls <- handlers
B == INSTANCE BackupPanel WITH run <- panelRun, paused <- runPaused, due <- dueItems,
                               status <- syncStatus
Tray == INSTANCE TrayStatus WITH token <- accountToken, paused <- syncPaused, working <- worker
L == INSTANCE AppLifecycle
H == INSTANCE LabShotHistory WITH handlers <- shotHandlers

\* The servers in the local network.
Peers    == INSTANCE LanPeers WITH request <- pairRequest, client <- requester,
                                   pending <- pendingPeers
Receiver == INSTANCE VmReceiver WITH server <- receiver, starting <- opening, closing <- stopping,
                                     wanted <- receiverWanted, active <- activeUploads,
                                     enabled <- sourceOn, disabled <- sourceOff,
                                     MaxStarts <- MaxOpening
Helper   == INSTANCE VmHelper WITH Replaced <- PairingReplaced,
                                   MaxContent <- MaxHelperContent, request <- arriving,
                                   staged <- stagedFile, installed <- helperInstalled,
                                   helpers <- agents
Drive    == INSTANCE NetworkDrive WITH told <- toldDropped

\* The LabMedia helper as its user sees it.
Flyout == INSTANCE MediaFlyout WITH None <- Nobody, file <- config, events <- watched,
                                    enabled <- stripEnabled, panel <- flyoutPanel,
                                    state <- mediaState, listed <- listedSessions

\* The crypto portfolio.
Sync   == INSTANCE PortfolioSync WITH MaxEdits <- MaxEntries, uploads <- sends, request <- lastRead,
                                     LastDay <- HistoryDays, MaxRequests <- MaxHistoryRequests,
                                     today <- day, history <- prices, shared <- sharedPrices
Ledger == INSTANCE PortfolioLedger WITH Empty <- Blank

NetworkAssumption ==
  /\ Peers!PortsAssumption /\ Peers!PeersBoundsAssumption
  /\ Receiver!ReceiverAssumption /\ Helper!HelperAssumption /\ Drive!DriveAssumption

MusicAssumption ==
  Flyout!SessionsAssumption /\ Flyout!VolumeAssumption /\ Flyout!FlyoutAssumption

CoinAssumption ==
  /\ Sync!SyncAssumption /\ Ledger!LedgerAssumption /\ Ledger!FormAssumption
  /\ Sync!MarketAssumption /\ Sync!HistoryAssumption

ASSUME DesktopAssumption ==
  /\ A!ArchiveAssumption /\ S!SheetsAssumption
  /\ W!WidgetAssumption /\ W!CompanionAssumption /\ N!ToolsAssumption
  /\ P!ShutdownAssumption /\ A!SessionsAssumption /\ Tray!AccountAssumption /\ B!PanelAssumption
  /\ Tray!TrayAssumption
  /\ L!LifecycleAssumption /\ H!OverlayAssumption /\ H!ShotAssumption
  /\ NetworkAssumption /\ MusicAssumption /\ CoinAssumption

-----------------------------------------------------------------------------
NetworkParts == {"peers", "receiver", "helper", "drive", "drops"}

NetworkInit ==
  /\ Peers!Init /\ Receiver!Init /\ Helper!Init
  /\ Drive!BrowseInit /\ Drive!DropInit
  /\ part # "receiver" => ~receiverWanted
  /\ part # "drive" => paired = {}
  /\ part # "drops" => inbox = CHOOSE f \in Inboxes : TRUE

NetworkNext ==
  \/ part = "peers" /\ Peers!Next /\ UNCHANGED <<receiverVars, helperVars, browseVars, dropVars>>
  \/ part = "receiver" /\ Receiver!Next /\ UNCHANGED <<peersVars, helperVars, browseVars, dropVars>>
  \/ part = "helper" /\ Helper!Next /\ UNCHANGED <<peersVars, receiverVars, browseVars, dropVars>>
  \/ part = "drive" /\ Drive!BrowseStep /\ UNCHANGED <<peersVars, receiverVars, helperVars, dropVars>>
  \/ part = "drops" /\ Drive!DropStep /\ UNCHANGED <<peersVars, receiverVars, helperVars, browseVars>>

MusicParts == {"players", "volume", "flyout"}

MusicInit ==
  /\ Flyout!SessionsInit /\ Flyout!VolumeInit /\ Flyout!Init
  /\ part # "flyout" => config = "on" /\ room

MusicNext ==
  \/ part = "players" /\ Flyout!SessionsNext /\ UNCHANGED <<volumeVars, flyoutVars>>
  \/ part = "volume" /\ Flyout!VolumeNext /\ UNCHANGED <<playerVars, flyoutVars>>
  \/ part = "flyout" /\ Flyout!Next /\ UNCHANGED <<playerVars, volumeVars>>

CoinParts == {"portfolio", "ledger", "form", "market", "history"}

CoinInit ==
  /\ Sync!Init /\ Ledger!Init /\ Ledger!FormInit /\ Sync!MarketInit /\ Sync!HistoryInit
  /\ part # "form" => txSymbol = CHOOSE s \in Symbols : TRUE

CoinNext ==
  \/ part = "portfolio" /\ Sync!Next /\ UNCHANGED <<ledgerVars, formVars, marketVars, historyVars>>
  \/ part = "ledger" /\ Ledger!Next /\ UNCHANGED <<syncVars, formVars, marketVars, historyVars>>
  \/ part = "form" /\ Ledger!FormNext /\ UNCHANGED <<syncVars, ledgerVars, marketVars, historyVars>>
  \/ part = "market" /\ Sync!MarketNext /\ UNCHANGED <<syncVars, ledgerVars, formVars, historyVars>>
  \/ part = "history" /\ Sync!HistoryNext /\ UNCHANGED <<syncVars, ledgerVars, formVars, marketVars>>

\* The parts that a behaviour does not move have one initial state.
Init ==
  /\ part \in {"archive", "sheets", "widget", "companion", "router", "devices", "shutdown", "sessions",
               "accounts", "panel", "tray", "google", "life", "overlay", "shots", "windows"}
              \cup NetworkParts \cup MusicParts \cup CoinParts
  /\ A!Init /\ S!Init /\ W!Init /\ W!CompanionInit /\ N!Init
  /\ P!Init /\ A!SessionInit /\ Tray!SignInInit /\ B!Init /\ Tray!TrayInit /\ Tray!AccountInit
  /\ L!Init /\ H!OverlayInit /\ H!Init
  /\ NetworkInit /\ MusicInit /\ CoinInit
  /\ part # "archive" => newest = CHOOSE c \in Chats : TRUE
  /\ part # "google" => account = CHOOSE a \in GoogleAccounts : TRUE
  /\ part # "widget" => ~installed /\ ~enabled
  /\ part # "shots" => history = <<>>
  /\ part # "router" => \A r \in Routers : before[r] = 0

appGroups   == <<appVars, networkVars, musicVars, coinVars>>
localGroups == <<archiveVars, sheetsVars, widgetVars, companionVars, toolVars>>

LocalNext ==
  /\ \/ part = "archive" /\ A!Next
        /\ UNCHANGED <<sheetsVars, widgetVars, companionVars, toolVars>>
     \/ part = "sheets" /\ S!Next
        /\ UNCHANGED <<archiveVars, widgetVars, companionVars, toolVars>>
     \/ part = "widget" /\ W!Next
        /\ UNCHANGED <<archiveVars, sheetsVars, companionVars, toolVars>>
     \/ part = "companion" /\ W!CompanionNext
        /\ UNCHANGED <<archiveVars, sheetsVars, widgetVars, toolVars>>
     \/ part = "router" /\ N!RouterStep
        /\ UNCHANGED <<archiveVars, sheetsVars, widgetVars, companionVars>>
     \/ part = "devices" /\ N!DeviceStep
        /\ UNCHANGED <<archiveVars, sheetsVars, widgetVars, companionVars>>
     \/ part \in {"router", "devices"} /\ N!Crash
        /\ UNCHANGED <<archiveVars, sheetsVars, widgetVars, companionVars>>
  /\ UNCHANGED <<part, backupVars, appGroups>>

BackupNext ==
  /\ \/ part = "shutdown" /\ P!Next /\ UNCHANGED <<sessionVars, accountVars, panelVars>>
     \/ part = "sessions" /\ A!SessionNext /\ UNCHANGED <<shutdownVars, accountVars, panelVars>>
     \/ part = "accounts" /\ Tray!SignInStep /\ UNCHANGED <<shutdownVars, sessionVars, panelVars>>
     \/ part = "panel" /\ B!Next /\ UNCHANGED <<shutdownVars, sessionVars, accountVars>>
  /\ UNCHANGED <<part, trayVars, infoVars, localGroups, appGroups>>

ShellNext ==
  /\ \/ part = "tray" /\ Tray!TrayStep /\ UNCHANGED infoVars
     \/ part = "google" /\ Tray!AccountStep /\ UNCHANGED trayVars
  /\ UNCHANGED <<part, shutdownVars, sessionVars, accountVars, panelVars, localGroups, appGroups>>

AppNext ==
  /\ \/ part = "life" /\ L!Next /\ UNCHANGED <<overlayVars, shotVars>>
     \/ part = "overlay" /\ H!OverlayNext /\ UNCHANGED <<lifeVars, shotVars>>
     \/ part = "shots" /\ H!HistoryStep /\ UNCHANGED <<lifeVars, overlayVars>>
     \/ part = "windows" /\ H!WindowStep /\ UNCHANGED <<lifeVars, overlayVars>>
  /\ UNCHANGED <<part, localGroups, backupVars, networkVars, musicVars, coinVars>>

ExtraNext ==
  /\ \/ part \in NetworkParts /\ NetworkNext /\ UNCHANGED <<musicVars, coinVars>>
     \/ part \in MusicParts /\ MusicNext /\ UNCHANGED <<networkVars, coinVars>>
     \/ part \in CoinParts /\ CoinNext /\ UNCHANGED <<networkVars, musicVars>>
  /\ UNCHANGED <<part, localGroups, backupVars, appVars>>

Spec == Init /\ [][LocalNext \/ BackupNext \/ ShellNext \/ AppNext \/ ExtraNext]_vars

-----------------------------------------------------------------------------
(* The properties of the modules, by name. *)

NetworkTypes ==
  /\ part = "peers" => Peers!TypeOK
  /\ part = "receiver" => Receiver!TypeOK
  /\ part = "helper" => Helper!TypeOK
  /\ part = "drive" => Drive!BrowseTypeOK
  /\ part = "drops" => Drive!DropTypeOK

\* See LanPeers: a broadcast port is served.
AdvertisedIsServed == part = "peers" => Peers!AdvertisedIsServed

\* See LanPeers: trust comes from an accepted request.
TrustNeedsConsent == part = "peers" => Peers!TrustNeedsConsent

\* See VmReceiver: a paired machine finds the receiver.
PairedIsServed == part = "receiver" => Receiver!PairedIsServed

\* See VmReceiver: one upload per guest at a time.
OneUploadPerGuest == part = "receiver" => Receiver!OneUploadPerGuest

\* See VmReceiver: a forgotten machine is no longer backed up.
ForgottenStaysForgotten == part = "receiver" => Receiver!ForgottenStaysForgotten

MusicTypes ==
  /\ part = "players" => Flyout!SessionsTypeOK
  /\ part = "volume" => Flyout!VolumeTypeOK
  /\ part = "flyout" => Flyout!TypeOK

\* The player, its volume and the flyout are those that the user asked for.
MusicAsAsked ==
  /\ part = "players" => Flyout!SessionsAreShown
  /\ part = "volume" => Flyout!VolumeAsShown
  /\ part = "flyout" => Flyout!FlyoutAsAsked

CoinTypes ==
  /\ part = "portfolio" => Sync!TypeOK
  /\ part = "ledger" => Ledger!TypeOK
  /\ part = "form" => Ledger!FormTypeOK
  /\ part = "market" => Sync!MarketTypeOK
  /\ part = "history" => Sync!HistoryTypeOK

\* What was entered reaches the file (PortfolioSync), adds up in the list, the chart and
\* each period and is what the form showed (PortfolioLedger); prices
\* and histories are recent and whole (PortfolioSync).
PortfolioIsTrue ==
  /\ part = "portfolio" => Sync!PortfolioKept
  /\ part = "ledger" => Ledger!LedgerAddsUp
  /\ part = "form" => Ledger!FormAddsUp
  /\ part = "market" => Sync!MarketIsTrue
  /\ part = "history" => Sync!HistoryHasNoGap

\* The variables of telegramArchive.js, LabSuiteSheets.jsx, mediaWidget.js,
\* ytmDesktopProvider.js, routerInternet.js, wakeOnLan.js, telegramBackup.js, and those
\* of ipc.js and rclone.js for the shutdown after a backup and the accounts, of
\* LabSuiteBackup.jsx, index.js, LabShotOverlay.jsx and labShot.js, of the servers, the
\* LabMedia helper and the crypto portfolio hold what the code puts there.
TypesOK ==
  /\ part = "archive" => A!TypeOK
  /\ part = "sheets" => S!TypeOK
  /\ part = "widget" => W!TypeOK
  /\ part = "companion" => W!CompanionTypeOK
  /\ part \in {"router", "devices"} => N!TypeOK
  /\ part = "shutdown" => P!TypeOK
  /\ part = "sessions" => A!SessionTypeOK
  /\ part = "accounts" => Tray!SignInTypeOK
  /\ part = "panel" => B!TypeOK
  /\ part \in {"tray", "google"} => Tray!TrayTypeOK
  /\ part = "life" => L!TypeOK
  /\ part = "overlay" => H!OverlayTypeOK
  /\ part \in {"shots", "windows"} => H!TypeOK
  /\ NetworkTypes /\ MusicTypes /\ CoinTypes

\* What was shown as saved is: the table that is not marked as changed is the one in
\* the cloud (SheetsEditor), a chat's archive holds every message up to its checkpoint
\* and a backed up session is whole in the cloud (TelegramArchive), the accounts shown
\* as connected have a section and a token that fits (TrayStatus), what was drawn is
\* on the picture and a kept picture in the history (LabShotHistory), what the helper of
\* the first protocol has noted as sent is staged and its pairing not undone by an
\* older one (VmHelper), what was dropped on another PC is there (NetworkDrive), and the
\* portfolio is what was entered (PortfolioIsTrue).
ShownAsSaved ==
  /\ part = "sheets" => S!CleanIsSaved
  /\ part = "archive" => A!ArchiveHasAll
  /\ part = "sessions" => A!SessionsKept
  /\ part = "accounts" => Tray!AccountsKept
  /\ part = "overlay" => H!OverlayKeeps
  /\ part \in {"shots", "windows"} => H!ShotsKept
  /\ part = "helper" => Helper!HelperKeeps
  /\ part = "drops" => Drive!DropsKept
  /\ PortfolioIsTrue

\* What is shown as running or done is: one LabMedia helper (MediaWidget), and in it
\* the player, its volume and the flyout (MediaFlyout), a connected companion with its token
\* (MediaWidget), the name of the connection, the logins and the devices
\* (NetworkTools), the shutdown after a backup (ShutdownAfterBackup), what became of
\* each file of a run (BackupPanel), the end of a session and the state of an update
\* (AppLifecycle), the folder of another PC (NetworkDrive), and the icon, the menu and
\* the account in the tray (TrayStatus).
ShownAsRunning ==
  /\ part = "widget" => W!OneWidget
  /\ part = "companion" => W!ConnectedHasToken
  /\ part \in {"router", "devices"} => N!ToolsKeepData
  /\ part = "shutdown" => P!ShutdownAsShown
  /\ part = "panel" => B!PanelIsTrue
  /\ part = "life" => L!LifecycleAsTold
  /\ part = "tray" => Tray!TrayHolds
  /\ part = "google" => Tray!AccountHolds
  /\ part = "drive" => Drive!ShownIsSelected /\ Drive!LoadingEnds
  /\ MusicAsAsked
=============================================================================
