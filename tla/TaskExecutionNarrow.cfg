\* A limiter narrower than the DAG: nodes queue for a slot, and an aborted run can
\* settle with nodes still in flight.
SPECIFICATION Spec
CONSTANTS
  NodeCount = 5
  Deps <- Wide
  Concurrency = 2
  Hosts = {h1}
  NoHost = NoHost
  Runs = {x1, x2}
  Job = job
  MaxAttempts = 2
  MayCancel = TRUE
  MayCrash = TRUE
  MaxDisruptions = 2
SYMMETRY Symmetry
INVARIANTS TaskInv
CHECK_DEADLOCK FALSE
