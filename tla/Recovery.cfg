SPECIFICATION Spec
CONSTANTS
  Files = {f}
  MaxTime = 8
  VersionAge = 4
  DeletedAge = 3
  MinVersions = 1
  MaxVersions = 4
  Targets = {d}
  FileCount = 2
  Ids = {1, 2}
  MaxRuns = 3
  Slots = 2
  Restarts = TRUE
  Machines = {a, b}
  HostNames = {n1, n2}
  MaxUserActions = 2
  Main = main
  Accounts = {d1, d2}
  MaxBackups = 3
  UserResumes = FALSE
  MaxMounts = 3
  Overlaps = FALSE
  MaxServers = 2
  Downloads = {w}
  Runs = {1, 2}
  Limits = {0, 3}
  MaxEvents = 1
  PackMembers = {m1, m2}
  MaxContent = 3
  MaxPacks = 2
  Failures = {"upload", "bundle"}
  Unsettled = FALSE
  Planned = 2
  RunFolders = 2
  WorkKinds = {"repair", "pack", "migrate", "new", "modify", "forget", "delete"}
  RunFaults = {"plan", "scan", "command", "file", "gone", "back", "mark", "verify", "stop"}
  Stored = {s1, s2}
  InSub = {s2}
  Unread = Unread
  MaxOpens = 2
  MaxStores = 1
  Impatient = FALSE
  Labels = {l1, l2}
  NoLabel = NoLabel
  MaxNamings = 3
  MaxSyncs = 2
  NameHabits = {}
  Places = {docs, work}
  SystemPlaces = {docs}
  Inside = {docs, work}
  Outer = docs
  SetupFaults = {"password"}
  MaxSteps = 6
  LocalPaths = {p1, p2}
  RowNames = {r1}
  MaxFolders = 2
  KeptPoints = 1
  MaxMoves = 4
  RecordHabits = {}
  Invites = {i1}
  Questions = {timer}
  MaxChanges = 4
  MaxMessages = 1
  Vms = {vm1, vm2}
  MaxPower = 1
INVARIANTS
  TypesOK
  PointRestoresItsFiles
  PlannedIsKept
  OfferedUntilRestored
  NothingLeftBehind
  OpenedIsOwned
PROPERTIES
  ExistingKept
  OwnBackupsStay
CHECK_DEADLOCK FALSE
