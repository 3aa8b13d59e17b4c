SPECIFICATION FairSpec
CONSTANTS
  NoJob = NoJob
  Jobs = {j1}
  Unpicklable = {}
  TaskJob = NoJob
  Processes = 1
  MaxTasks = 0
  PutLocks = FALSE
  MayLeave = FALSE
  MaxPid = 2
  MaxCrash = 1
  MaxTerm = 0
  MaxGrow = 0
  MaxShrink = 0
  MayClose = FALSE
CHECK_DEADLOCK FALSE
PROPERTIES AcceptedNeverHangs
