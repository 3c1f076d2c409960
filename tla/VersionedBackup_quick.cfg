SPECIFICATION Spec
CONSTANTS
  MaxContent = 3
  MaxRun = 3
  Plans = {"dirty"}
  Faults = {"stop"}
INVARIANTS OverwrittenKept FullScanFindsChanges
CHECK_DEADLOCK FALSE
