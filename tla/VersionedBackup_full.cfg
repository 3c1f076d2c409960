SPECIFICATION Spec
CONSTANTS
  MaxContent = 2
  MaxRun = 2
  Plans = {"dirty", "full"}
  Faults = {}
INVARIANT OverwrittenKept
CHECK_DEADLOCK FALSE
