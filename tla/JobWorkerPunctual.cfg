\* Leases sized as the defaults are: one beat in a row may be dropped.
SPECIFICATION Spec
CONSTANTS
  Jobs = {j1, j2}
  Workers = {w1, w2}
  Slots = {s1, s2}
  NoOwner = NoOwner
  NoJob = NoJob
  Priorities = {1, 2}
  CreationTimes = {1, 2}
  MaxAttempts = 2
  LeaseTtl = 4
  Heartbeat = 1
  MaxLate = 1
  BackoffBase = 1
  BackoffCap = 2
  DrainMayTimeOut = FALSE
  MaxDisruptions = 2
SYMMETRY Symmetry
INVARIANTS NoDoubleExecution RunsAreLeased
PROPERTIES AttemptsCountFailures ImplementsLifecycle
