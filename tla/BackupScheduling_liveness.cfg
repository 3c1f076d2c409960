SPECIFICATION LiveSpec
CONSTANTS
  Folders = {f1, f2}
  Directories = {}
  Tasks = {}
  Commands = {"pause", "resume", "now", "toggle"}
  Faults = {"error"}
  MaxEvents = 2
PROPERTIES MarkedFolderIsPlanned
CHECK_DEADLOCK FALSE
