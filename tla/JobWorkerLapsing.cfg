\* Leases that lapse under a working handler, and drains that give up: what still
\* holds when several workers run one job.
SPECIFICATION Spec
CONSTANTS
  Jobs = {j1}
  Workers = {w1, w2}
  Slots = {s1, s2}
  NoOwner = NoOwner
  NoJob = NoJob
  Priorities = {1}
  CreationTimes = {1}
  MaxAttempts = 3
  LeaseTtl = 1
  Heartbeat = 1
  MaxLate = 1
  BackoffBase = 3
  BackoffCap = 3
  DrainMayTimeOut = TRUE
  MaxDisruptions = 3
SYMMETRY Symmetry
INVARIANTS TypeOK BudgetDecidesParking
PROPERTIES TerminalStays
