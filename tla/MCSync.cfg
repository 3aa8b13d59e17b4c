SPECIFICATION SyncSpec
CONSTANTS
  Procs = {p1, p2, p3}
  NoProc = NoProc
  MaxDepth = 2
  MaxTimeout = 2
  MaxCrash = 1
  Users = {u1, u2, u3}
  Nobody = Nobody
  MaxExpired = 1
  SemProcs = {m, c}
  SemMain = m
  SemThreads = {1, 2}
  SemMax = 1
  SemDepth = 2
  SemExtra = 2
  StProcs = {a, b}
  StMain = a
  StNames = {n1, n2}
  NoTracker = NoTracker
  Payloads <- MCPayloads
  HeaderUnits = 2
  Large = 2
  PipeUnits = 3
  MaxLength = 1
  Keys = {k1, k2}
  ShClients = {d1, d2}
  ShStopper = stopper
  MaxStarts = 2
  MaxResources = 2
  HeapThreads = {h1, h2}
  NoThread = NoThread
  Sizes = {0, 3}
  Align = 2
  PageSize = 4
  HeapCalls = 4
CHECK_DEADLOCK FALSE
INVARIANTS ConditionSafe EventSafe SemSafe NamesSafe StreamSafe HandshakeAgrees SharerSafe HeapSafe
PROPERTIES NotifyReturns ImplementsMonitor TrackerEnds SendCompletes HandshakeEnds
  DetachReturns HeapCallsReturn
