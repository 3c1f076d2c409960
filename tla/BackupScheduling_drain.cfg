SPECIFICATION Spec
CONSTANTS
  Folders = {f1}
  Directories = {}
  Tasks = {}
  Commands = {"drain"}
  Faults = {"error"}
  MaxEvents = 1
INVARIANT DrainOnlyWhileRunning
CHECK_DEADLOCK FALSE
