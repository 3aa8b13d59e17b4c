SPECIFICATION Spec
CONSTANTS
  NoJob = NoJob
  Jobs = {j1, j2}
  Unpicklable = {j2}
  TaskJob = j1
  Processes = 1
  MaxTasks = 0
  PutLocks = TRUE
  MayLeave = TRUE
  MaxPid = 4
  MaxCrash = 0
  MaxTerm = 1
  MaxGrow = 1
  MaxShrink = 1
  MayClose = FALSE
CHECK_DEADLOCK FALSE
INVARIANTS PoolSafe
