SPECIFICATION PriorityFairSpec
CONSTANTS
  Request = {r1, r2}
  Worker = Worker
  AutoLifecycle = TRUE
  MaxCalls = 2
  MaxTroubles = 1
INVARIANTS AtMostOneBatch
PROPERTIES SearchesEnd WorkerComesBack
CHECK_DEADLOCK FALSE
