\* The registry contract and its disputes, each concern on its own small instance.
SPECIFICATION RegistrySuiteSpec
CONSTANTS
  m1 = m1  m2 = m2  a1 = a1  a2 = a2
  \* bonds of two agents
  AgentIds = {a1, a2}
  Owners = {o1}
  Capabilities = {c1}
  NoOwner = none
  BondAmounts = {1, 2}
  MinBonds = {1, 2}
  BondCooldown = 1
  SlaPenalty = 50
  MaxAgents = 2
  MaxPerCapability = 1
  MaxRegistrations = 2
  LedgerEnd = 2
  MaxBrought = 4
  MaxAdminActs = 2
  \* disputes over one of them
  Disputes = {d1, d2}
  Voters = {v1}
  Arbiters = {x1, x2, x3}
  FirstPool = {x1, x2}
  NoParty = none
  EvidencePhase = 1
  VotingPhase = 1
  AppealPhase = 1
  MinimumVotes = 1
  RequiredArbiterVotes = 2
  VoterStanding = 3
  MaxEvidence = 1
  DisputeSlash = 50
  TaskEscrow = 3
  \* two admins with one operation
  Signers = {m1, m2}
  Genesis = m1
  Operations <- MCOperations
  SignerConfigs <- MCConfigs
  Motions = {1}
  PlainDelay = 2
  MotionLife = 2
  FullBond = 1
  MaxDirect = 2
  AdminEnd = 3
  \* scores and figures of two agents
  RatedAgents = {a1, a2}
  RatedTasks = {t1, t2}
  Reporters = {p1}
  MaxReporters = 1
  Grades <- MCGrades
  Deltas <- MCDeltas
  DecaySchedules <- MCSchedules
  FirstSchedule <- MCFirstSchedule
  ScoreScale = 100
  MaxDecayEpochs = 1
  ResponseTimes = {1, 2, 4}
  Earnings = {1}
  ServiceLevels <- MCServiceLevels
  MaxEnrolments = 2
  MaxCompletions = 3
  MaxChecks = 1
  MaxSettings = 1
  RatedEnd = 1
  \* versions of two agents and of the code
  VersionedAgents = {a1, a2}
  AgentVersions <- MCAgentVersions
  CodeVersions <- MCCodeVersions
  Wasms = {"w1", "w2"}
  FirstWasm = "w1"
  RollbackLedgers = 1
  MaxInstalls = 2
  CodeEnd = 4
  \* a listing of two agents
  FoundAgents = {a1, a2}
  Terms <- MCTerms
  Queries <- MCQueries
  PageLimit = 1
  MaxArrivals = 2
  MaxServed = 2
  \* the audit trail, bridge proofs and error reports
  Callers = {"chief", "o1"}
  Chief = "chief"
  Chains = {"evm"}
  Lifetimes = {0, 2}
  DefaultLifetime = 1
  MaxLifetime = 2
  ErrorIds = {e1, e2}
  ErrorLifetimes = {1, 2}
  AuditConfigs <- MCAuditConfigs
  DefaultAudit <- MCDefaultAudit
  Amounts = {1}
  AuditPageSize = 2
  MaxEntries = 3
  TrailEnd = 3
INVARIANTS
  DisputeInv
  MultisigInv
  ReputationInv
  VersionsInv
  DiscoveryInv
  AuditInv
PROPERTIES FreshAnswersAreRanked
CHECK_DEADLOCK FALSE
