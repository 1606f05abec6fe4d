CONSTANTS
  PdfAttempts = 2
  InfraThreshold = 2
  F451Threshold = 2
  Breaker = 2
  GateStreak = 2
  SlowThreshold = 2
  FailLimit = 2
SPECIFICATION FairSpec
INVARIANTS NoFetchInCooldown IdleWithoutAct
PROPERTIES SleepEnds LostBrowserNoticed StopObserved
