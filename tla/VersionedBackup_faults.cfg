SPECIFICATION Spec
CONSTANTS
  MaxContent = 3
  MaxRun = 2
  Plans = {"dirty", "full"}
  Faults = {"error", "stop"}
INVARIANTS TypeOK NewestKept
PROPERTIES HistoryImmutable PromotionFindsNoActiveCopy
CHECK_DEADLOCK FALSE
