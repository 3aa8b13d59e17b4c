SPECIFICATION Spec
CONSTANTS
  Procs = {c, w}
  Creator = c
  NoProc = NoProc
  Items = {i1}
  Unpicklable = {}
  Nothing = Nothing
  MaxSize = 1
  PipeSize = 1
  Cancellers = {}
CHECK_DEADLOCK FALSE
PROPERTY JoinThreadFlushes
