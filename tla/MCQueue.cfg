SPECIFICATION FairSpec
CONSTANTS
  Procs = {c, w}
  Creator = c
  NoProc = NoProc
  Items = {i1, i2}
  Unpicklable = {}
  Nothing = Nothing
  MaxSize = 2
  PipeSize = 1
  Cancellers = {w}
CHECK_DEADLOCK FALSE
INVARIANTS QueueCounts ItemsKept
PROPERTIES BufferFlushes
