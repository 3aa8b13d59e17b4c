SPECIFICATION SvcSpec
CONSTANTS
  MaxItems = 2
  ResPids = {1, 2}
  MaxExit = 1
  Raising = {1}
  TlJobs = {j1, j2}
  TlWorkers = {w1}
  NoTlJob = NoTlJob
  BadAccept = {j2}
  Stubborn = {j1}
  MaxR <- MCMaxR
  MaxT <- MCMaxT
  BurstRounds = 2
  RsExits = 2
  RsClock = 6
  PrThreads = {t1, t2}
  PrObjects = {p1, p2}
  NoObject = NoObject
  Outcomes = {"exit"}
  FsProcs = {m, c, d}
  FsMain = m
  FsThreads = {t1, t2}
  NoFsProc = NoFsProc
  MgProcs = {p, q}
  MgOwner = p
  MgProxies = 2
  Idents = {i1, i2}
CHECK_DEADLOCK FALSE
INVARIANTS ResultsSafe LimitsSafe RestartsSafe ProcessesSafe ForkServerSafe ManagersSafe
PROPERTIES ResultsEnd LimitsLive JoinMeansDead ForkServerLive ShutdownStops
