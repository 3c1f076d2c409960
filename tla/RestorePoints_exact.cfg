SPECIFICATION Spec
CONSTANTS
  Files = {f}
  MaxTime = 8
  VersionAge = 4
  DeletedAge = 3
  MinVersions = 1
  MaxVersions = 8
INVARIANTS
  PointIsExact
CHECK_DEADLOCK FALSE
