\* The services of the backend, each on its own small instance.
SPECIFICATION BackendSpec
CONSTANTS
  j1 = j1  j2 = j2  j3 = j3  t1 = t1  t2 = t2
  r1 = r1  r2 = r2  r3 = r3  p1 = p1  p2 = p2  s1 = s1  e1 = e1
  \* submissions of two tasks by two processes
  Jobs = {j1, j2, j3}
  Tasks = {t1, t2}
  TaskOf <- MCTaskOf
  Callers = {p1, p2}
  NoTask = NoTask
  Workers = {w1}
  NoOwner = NoOwner
  Priorities = {1}
  CreationTimes = {1}
  MaxAttempts = 2
  LeaseTtl = 1
  BackoffBase = 1
  BackoffCap = 1
  \* three requests with one key at two processes, and a wallet's quota of one
  Requests = {r1, r2, r3}
  KeyOf <- MCKeyOf
  ProcessOf <- MCProcessOf
  NoRequest = NoRequest
  TaskLimit = 1
  DailyLimit = 1
  MaxMishaps = 1
  \* a breaker of either class, and a second Venice client's for the health probes
  b3 = b3
  bg = bg
  Breakers = {bg, bv, b3}
  VeniceBreakers = {bv, b3}
  Calls = {c1, c2, c3}
  NoBreaker = NoBreaker
  FailureThreshold = 2
  RecoveryTime = 2
  ProbeCount = 2
  \* two nodes under one budget
  Spenders = {n1, n2}
  TaskCap = 3
  CallCap = 2
  DefaultCall = 3
  MaxBudgetRuns = 2
  \* one session at two processes
  AuthProcesses = {p1, p2}
  Sessions = {s1}
  RefreshTtl = 1
  SessionTtl = 2
  AccessTtl = 1
  MaxTokens = 3
  AuthEnd = 3
  \* agents, watchdog and registry sync
  FleetAgents = {1, 2, 3}
  PassInterval = 1
  GracePeriod = 2
  OfflineLimit = 3
  StaleLimit = 2
  ProofTtl = 1
  MaxPending = 2
  AlarmAfter = 2
  MaxProofs = 3
  ListingTtl = 1
  ListingPage = 1
  FleetEnd = 5
  ChainAgents = {1}
  Polls = {w1, w2}
  Lookback = 1
  EventLimit = 2
  MaxLedgers = 3
  \* the event log and its archive
  StreamTasks = {t1}
  RetentionDays = 1
  HotDays = 1
  ColdDays = 3
  BatchTasks = 1
  MaxEvents = 3
  MaxFaults = 1
  LastDay = 4
  \* a socket and an event stream
  Watchers = {s1, e1}
  SocketWatchers = {s1}
  HostOf <- MCHostOf
  PageSize = 1
  MaxConnections = 2
  MaxNumber = 3
  MaxVisits = 2
  \* two processes with the admin log and two databases
  AdminProcesses = {"p1", "p2"}
  AdminCalls = {c1, c2}
  Databases <- MCDatabases
  LogRetention = 1
  BackupRetention = 2
  ExportLimit = 5
  ExportBatch = 1
  MaxLegacy = 1
  MaxPasses = 4
  MaxCrashes = 1
  AdminEnd = 2
INVARIANTS
  
  AdmissionInv
  BreakerInv
  
  SessionInv
  
  
  AdminInv
CHECK_DEADLOCK FALSE
