\* Liveness, one slot per worker so that jobs wait for each other.
SPECIFICATION FairSpec
CONSTANTS
  Jobs = {j1, j2}
  Workers = {w1, w2}
  Slots = {s1}
  NoOwner = NoOwner
  NoJob = NoJob
  Priorities = {1, 2}
  CreationTimes = {1}
  MaxAttempts = 2
  LeaseTtl = 4
  Heartbeat = 1
  MaxLate = 1
  BackoffBase = 2
  BackoffCap = 3
  DrainMayTimeOut = FALSE
  MaxDisruptions = 1
PROPERTIES QueueDrains
