\* Agents, a watchdog that is never late and the cleanup that runs beside it.
SPECIFICATION PunctualSpec
CONSTANTS
  FleetAgents = {1, 2}
  PassInterval = 1
  GracePeriod = 2
  OfflineLimit = 4
  StaleLimit = 2
  ListingTtl = 1
  ListingPage = 1
  ProofTtl = 1
  MaxPending = 1
  AlarmAfter = 1
  MaxProofs = 1
  FleetEnd = 5
PROPERTY SilentAgentsAreTimed
CHECK_DEADLOCK FALSE
