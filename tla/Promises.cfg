SPECIFICATION Spec
CONSTANTS
  Jobs = {1, 2}
  Kinds = {"download-file", "upload-folder", "drop-text"}
  Strategies = {"keepBoth", "replace"}
  FirstStrategies = {"keepBoth"}
  FolderSize = 2
  MaxSlot = 2
  MaxTries = 2
  VmFiles = {1, 2}
  Large = {2}
  MaxContent = 2
  MaxChanges = 2
  MaxCrashes = 2
  MaxRepairs = 1
  TreeLimit = 1
  MaxRevision = 3
  Faults = {"crash", "power", "copy", "save", "load"}
  Keys = {k1, k2}
  VaultKey = k1
  MaxFaults = 2
  MaxCommands = 3
INVARIANTS
  TypesOK
  KnownIsStaged
  QuietIsSaved
  ConfigAndKeyAgree
PROPERTIES
  VerifiedIsWhole
  JobsDoAsTold
  QueueDrains
  StagedGetsBackedUp
  KeepsPromise
  StaysReadable
  SavedOrReported
  LayoutCompletes
CHECK_DEADLOCK FALSE
