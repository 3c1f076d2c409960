SPECIFICATION Spec
CONSTANTS
  MaxRevision = 2
  Faults = {"crash", "load", "transient"}
PROPERTY FailureKeepsDocument
CHECK_DEADLOCK FALSE
