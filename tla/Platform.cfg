SPECIFICATION PlatformSpec
CONSTANTS
  e1 = e1 e2 = e2 a1 = a1 a2 = a2 n1 = n1 n2 = n2 n3 = n3 m1 = m1 m2 = m2 t1 = t1 t2 = t2
  \* two processes migrate one database, with two releases of three migrations
  Versions = {1, 2, 3}
  KindOf <- MCKindOf
  Releases = {"r1", "r2"}
  Shipped <- MCShipped
  Migrators = {p1, p2}
  NotApplied = "none"
  \* more callers than read handles
  PoolReaders = {c1, c2, c3}
  PoolWriters = {w1, w2}
  MinReaders = 1
  MaxReaders = 2
  NoHandle = NoHandle
  MaxPoolFaults = 1
  \* two executions that ask about one topic, two keys
  Executions = {e1, e2}
  TopicOf <- MCTopicOf
  RetryOf <- MCRetryOf
  SimilarTo <- MCSimilarTo
  Chain <- MCChain
  NoEntry = NoEntry
  NoLeader = NoLeader
  KeyWindow = 3
  MinSamples = 2
  MaxErrors = 1
  KeyCooldown = 1
  CacheTtl = 1
  VeniceEnd = 2
  FrameCount = 2
  DegradedOf = 3000
  HealthWindow = 2
  BaseCooldown = 1
  MaxCooldown = 3
  MaxOutcomes = 3
  \* the library's caller: two agents, a chain of three nodes, two milestones
  LibAgents = {a1, a2}
  Capability <- MCCapability
  LibPrices = {1, 2}
  RegistryTtl = 1
  DagNodes <- MCDag
  DependsOn <- MCDependsOn
  TaskType <- MCTaskType
  MaxTries = 1
  EscrowCalls = {k1, k2}
  Milestones = {m1, m2}
  AmountOf <- MCAmountOf
  NoPlan = NoPlan
  Unlisted = Unlisted
  LibEnd = 3
  MaxLocks = 2
  \* a page that switches between two tasks
  PageTasks = {t1, t2}
  PageNodes = {"n"}
  Script <- MCScript
  Signs = TRUE
  MaxReconnectAttempts = 1
  NoView = NoView
  NoSocket = NoSocket
  MaxSkips = 1
  MaxVisits = 2
  MaxFetches = 1
  \* a wallet console with two accounts and a list of three tasks
  AccountKeys = {k1, k2}
  NoKey = NoKey
  SessionTime = 3
  WarnTime = 1
  ThrottleTime = 2
  ListedTasks <- MCListed
  ListStatus <- MCListStatus
  ListSize = 1
  NoCursor = NoCursor
  Messages = {"x", "y", "z"}
  MaxToasts = 2
  MaxNotes = 2
  MaxRetries = 2
  ConsoleEnd = 6
  MaxLoads = 1
  MaxHookCalls = 2
  \* one wallet with three tasks, costs of two nodes, scores of one agent type
  Wallets = {w1}
  TaskIds = {1, 2, 3}
  NoWallet = none
  PageLimit = 1
  DayLimit = 2
  DayLength = 2
  LastTime = 1
  LastDay = 1
  StatsAge = 1
  SeriesLength = 2
  CostNodes = {"n1", "n2"}
  DayBudget = 4
  MaxRunsOfTask = 2
  MaxNodeTokens = 2
  MaxLostWrites = 1
  Outputs = {"o1", "o2"}
  Traits <- MCTraits
  Weights <- MCWeights
  Required = 3
  PromptTokens = 3
  MaxReputation = 5000
  MinScores = 2
  MaxScores = 3
  MaxSubmissions = 3
  \* one task's log, read in pages of two
  LogNodes = {"a", "b"}
  PageSize = 2
  MaxPages = 1
  MaxRuns = 1
  LastInstant = 1
  \* two servers, two addresses, two jobs, two snapshots
  Servers = {"p1", "p2"}
  Flags = {"f1"}
  FlagWallets = {"w1", "w2"}
  KnownFlags = {"f1"}
  FlagDefault <- MCDefault
  Bucket <- MCBucket
  Percents = {0, 50}
  Ips = {"i1", "i2"}
  MaxRequests = 2
  Window = 2
  MaxEntries = 1
  MaxFailures = 2
  FailWindow = 2
  FailTtl = 2
  DeskJobs = {"j1", "j2"}
  Ages = {0, 1}
  Snapshots = {"b1", "b2"}
  MaxChanges = 3
  DeskEnd = 4
INVARIANTS
  PoolInv
  
  
  
CHECK_DEADLOCK FALSE
