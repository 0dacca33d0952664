\* Each of the contracts on its own small instance.
SPECIFICATION MarketsSpec
CONSTANTS
  b1 = b1  b2 = b2  b3 = b3  g1 = g1  l1 = l1  l2 = l2
  m1 = m1  m2 = m2  u1 = u1  u2 = u2
  \* three bidders, one of them without reputation
  Bidders = {b1, b2, b3}
  RepOf <- MCRepOf
  BidPrices = {1, 2}
  Reserve = 1
  PriceCap = 2
  BondSize = 1
  BidSeconds = 2
  RevealSeconds = 1
  SnipeWindow = 1
  SnipeExtension = 1
  PhaseMax = 3
  ClaimWindow = 3
  OtherCustody = 1
  AuctionEnd = 6
  \* two listings, two bookings
  Listings = {l1, l2}
  Bookings = {k1, k2}
  Assets = {a1, a2}
  FirstAsset = a1
  OfferOf <- MCOfferOf
  ListPrices = {1, 2}
  TimelockDelay = 1
  MinimumListing = 1
  AssetReserve = 1
  MarketEnd = 1
  \* two electors, one proposal
  Electors = {e1, e2}
  Proposals = {q1}
  Powers = {1, 3}
  MaxCheckpoints = 2
  VotingPeriod = 1
  ExecutionDelay = 1
  MaxPowerChanges = 3
  GovernanceEnd = 2
  \* two upgrades under one admin or two
  Members = {m1, m2}
  Upgrades = {u1, u2}
  FirstAdmin = m1
  VersionOf <- MCVersionOf
  Multisigs <- MCMultisigs
  DefaultDelay = 1
  UpgradeExpiry = 2
  RollbackWindow = 1
  UpgradeEnd = 3
  \* one task and its price feed
  LedgerTasks = {t1}
  Accounts = {a1}
  Coordinator = co
  AssignedAgent = ag
  Prices = {1}
  MaxAges = {1, 2}
  FirstMaxAge = 1
  PriceEnd = 2
  MaxHistory = 8
  TaskTtl = 2
INVARIANTS
  
  MarketInv
  GovernanceInv
  UpgradeInv
  TaskLedgerInv
PROPERTIES QuotesWereFresh
CHECK_DEADLOCK FALSE
