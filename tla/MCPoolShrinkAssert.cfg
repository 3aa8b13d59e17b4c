SPECIFICATION Spec
CONSTANTS
  NoJob = NoJob
  Jobs = {j1}
  Unpicklable = {}
  TaskJob = NoJob
  Processes = 2
  MaxTasks = 0
  PutLocks = FALSE
  MayLeave = TRUE
  MaxPid = 3
  MaxCrash = 0
  MaxTerm = 0
  MaxGrow = 0
  MaxShrink = 1
  MayClose = FALSE
CHECK_DEADLOCK FALSE
INVARIANT AvailIndexAsserted
