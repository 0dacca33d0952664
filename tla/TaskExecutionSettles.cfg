\* The default limit of three nodes, which no DAG of decompose exceeds: failures,
\* cancellations and shutdowns, no crash.
SPECIFICATION FairSpec
CONSTANTS
  NodeCount = 4
  Deps <- Fork
  Concurrency = 3
  Hosts = {h1}
  NoHost = NoHost
  Runs = {x1, x2}
  Job = job
  MaxAttempts = 2
  MayCancel = TRUE
  MayCrash = FALSE
  MaxDisruptions = 1
PROPERTIES JobSettles
CHECK_DEADLOCK FALSE
