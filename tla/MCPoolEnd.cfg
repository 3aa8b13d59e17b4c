SPECIFICATION EndSpec
CONSTANTS
  NoJob = NoJob
  Jobs = {j1}
  Unpicklable = {}
  TaskJob = NoJob
  Processes = 2
  MaxTasks = 0
  PutLocks = TRUE
  MayLeave = FALSE
  MaxPid = 2
  MaxCrash = 0
  MaxTerm = 0
  MaxGrow = 0
  MaxShrink = 0
  MayClose = TRUE
  TmSize = 2
  TmPids = 3
  TmTasks = 2
  TmCapacity = 3
  NoTmPid = NoTmPid
CHECK_DEADLOCK FALSE
INVARIANT NoWorkerSurvives
PROPERTIES CloseDrains TerminateReturns
