CONSTANTS
  a1 = a1
  a2 = a2
  Act = {a1, a2}
  Chunk = {c1, c2}
  NoAct = NoAct
  Full = Full
  Kinds <- Mixed
  MaxFaults = 1
SPECIFICATION FairSpec
INVARIANTS IndexedIsExact NoOrphans
PROPERTY VerdictFollowed
