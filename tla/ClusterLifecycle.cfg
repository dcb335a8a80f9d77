SPECIFICATION FairSpec
CONSTANTS
  WorkerCount = 2
  Conns = {c1, c2}
  MaxRestarts = 2
  MaxFaults = 2
\* The service stops for good when its primary does.
CHECK_DEADLOCK FALSE
INVARIANTS TypeOK Population AnnouncedTruth
PROPERTIES RestartCompletes Recovers
