\* The default limit of three nodes: failures, cancellations, crashes, lost verdicts,
\* shutdowns and replays on two processes.
SPECIFICATION Spec
CONSTANTS
  NodeCount = 5
  Deps <- Wide
  Concurrency = 3
  Hosts = {h1, h2}
  NoHost = NoHost
  Runs = {x1, x2}
  Job = job
  MaxAttempts = 2
  MayCancel = TRUE
  MayCrash = TRUE
  MaxDisruptions = 2
SYMMETRY Symmetry
INVARIANTS RunIsSound WorkIsSound
PROPERTIES RecordStands
CHECK_DEADLOCK FALSE
