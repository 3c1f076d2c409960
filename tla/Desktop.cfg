SPECIFICATION Spec
CONSTANTS
  Chats = {c1}
  MaxDay = 3
  MaxText = 2
  MaxCrashes = 1
  Together = FALSE
  Names = {"a", "b"}
  MaxRows = 2
  MaxColumns = 2
  MinRows = 1
  MaxEdits = 2
  Waits = TRUE
  MaxHelpers = 6
  CrashesPerWindow = 3
  MaxTokens = 2
  MaxCalls = 3
  Overlaps = FALSE
  Routers = {r1, r2}
  MaxProfiles = 2
  Original = {0, 1}
  Devices = {d1, d2}
  Macs = {m1, m2}
  MaxHandlers = 1
  ShutdownFaults = {"exe"}
  Careful = TRUE
  Installs = {i1}
  Files = {f1, f2}
  SessionFaults = {"gone", "upload", "crash"}
  Overlap = FALSE
  Clients = {shared, own, work}
  Shared = shared
  Destinations = {d1}
  Hurried = FALSE
  Items = {n1, n2}
  Edited = {n1}
  MaxMessages = 2
  PanelFaults = {"item", "run"}
  WholeRuns = TRUE
  MaxChanges = 1
  MaxDeaths = 1
  LifeFaults = {"crash", "flush", "update"}
  Points = {1, 2}
  MaxAnnotations = 2
  MaxDrags = 3
  Blunders = {}
  Shots = {1, 2, 3}
  MaxRecords = 2
  MaxOverlays = 2
  Simultaneous = FALSE
  Apps = {a1, a2}
  Nobody = Nobody
  Lost = Lost
  Players = {p1, p2}
  Audible = {p1}
  Unnamed = {p1}
  MaxLevel = 1
  Hasty = FALSE
  AutoHideWhenIdle = TRUE
  Slow = FALSE
  MaxEntries = 2
  MaxReads = 3
  MaxTime = 3
  SyncFaults = {}
  Amounts = {1, 2}
  Prices = {24}
  Fees = {12}
  LastDay = 2
  Imported = {1}
  MaxTransactions = 3
  Habits = {}
  Symbols = {"a", "b"}
  Typed = {2, 4}
  Priced = {"a"}
  LastPrice = 4
  Blank = Blank
  Coins = {1, 2}
  NameLength = 2
  Fresh = 1
  Stale = 1
  HistoryDays = 3
  MaxHistoryRequests = 2
  PCs = {a, b}
  Ports = {1, 2}
  MaxStarts = 2
  MaxRequests = 2
  Guests = {g1, g2}
  Legacy = {g2}
  Invitations = {i1, i2}
  Bulk = {i2}
  MaxActive = 2
  MaxRestarts = 1
  MaxOpening = 1
  MaxToggles = 1
  Pairings = {1, 2}
  MaxHelperContent = 1
  MaxAttempts = 2
  HelperFaults = {"answer", "guest", "host"}
  PairingReplaced = FALSE
  PeerPCs = {pc1, pc2}
  NoPC = NoPC
  Pages = 2
  MaxMoves = 6
  MaxEvents = 1
  BrowseFaults = {}
  Inboxes = {f1, f2}
  MaxDrops = 2
  SameSecond = FALSE
  MaxTrayMoves = 8
  MaxAsks = 4
  GoogleAccounts = {ga, gb}
  TrayHabits = {}
INVARIANTS
  TypesOK
  ShownAsSaved
  ShownAsRunning
  AdvertisedIsServed
  TrustNeedsConsent
  PairedIsServed
  OneUploadPerGuest
  ForgottenStaysForgotten
CHECK_DEADLOCK FALSE
