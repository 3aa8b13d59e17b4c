SPECIFICATION Spec
CONSTANTS
  NoJob = NoJob
  Jobs = {j1, j2}
  Unpicklable = {}
  TaskJob = NoJob
  Processes = 2
  MaxTasks = 0
  PutLocks = TRUE
  MayLeave = FALSE
  MaxPid = 4
  MaxCrash = 2
  MaxTerm = 0
  MaxGrow = 0
  MaxShrink = 0
  MayClose = FALSE
CHECK_DEADLOCK FALSE
SYMMETRY JobSymmetry
INVARIANTS CacheDrained LossIsReal JobInOnePlace SlotsConserved
