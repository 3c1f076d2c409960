SPECIFICATION Spec
CONSTANTS
  Targets = {d}
  FileCount = 2
  Ids = {1, 2}
  MaxRuns = 3
  Slots = 2
  Restarts = TRUE
INVARIANTS
  RestoredIsWhole
CHECK_DEADLOCK FALSE
