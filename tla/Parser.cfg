SPECIFICATION FairSpec
CONSTANTS
  Pages <- Listings
  NoFile = NoFile
  MaxPages = 2
  Attempts = 3
  MaxRounds = 2
  GateLimit = 2
  FlapLimit = 2
  MaxRecycles = 1
  EmptyLimit = 2
  MaxFaults = 4
  MaxCrashes = 1
INVARIANTS CheckpointSaved LeftComplete PageOneInCategory EmptyStopHonest
PROPERTY ParserEnds
