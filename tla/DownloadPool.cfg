CONSTANTS
  Act = {a1}
  w1 = w1
  w2 = w2
  w3 = w3
  Worker = {w1, w2, w3}
  Runs = 2
  RunOf <- TwoRuns
  Extractor = {x1}
  NoAct = NoAct
  Cap = 1
  Batch = 1
  MaxAttempts = 1
  MaxRun = 0
  FailLimit = 1
  Keep = FALSE
  Explicit = FALSE
  Scanned = {}
  MaxFaults <- FirstOnly
  MaxLeft = 1
SPECIFICATION FairSpec
INVARIANTS AttemptsBounded CleanRunCompletes SourceComplete
PROPERTY StopEnds
