SPECIFICATION Spec
CONSTANTS
  Folders = {f1, f2}
  Directories = {{f1, f2}}
  Tasks = {t1}
  Commands = {"pause", "drain", "resume", "now", "toggle", "remove", "add", "interval"}
  Faults = {"refused", "restart"}
  MaxEvents = 1
INVARIANTS TypeOK PausedRunIsStopping InterruptedRequestWaitsPaused DrainOnlyWhileRunning AutomaticUnlessPaused
CHECK_DEADLOCK FALSE
