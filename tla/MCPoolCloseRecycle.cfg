SPECIFICATION FairSpec
CONSTANTS
  NoJob = NoJob
  Jobs = {j1, j2}
  Unpicklable = {}
  TaskJob = NoJob
  Processes = 1
  MaxTasks = 1
  PutLocks = FALSE
  MayLeave = FALSE
  MaxPid = 3
  MaxCrash = 0
  MaxTerm = 0
  MaxGrow = 0
  MaxShrink = 0
  MayClose = TRUE
CHECK_DEADLOCK FALSE
PROPERTIES ClosedTasksComplete
