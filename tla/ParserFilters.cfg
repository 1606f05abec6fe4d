SPECIFICATION Spec
CONSTANTS
  Pages <- Listings
  NoFile = NoFile
  MaxPages = 2
  Attempts = 3
  MaxRounds = 2
  GateLimit = 2
  FlapLimit = 2
  MaxRecycles = 1
  EmptyLimit = 2
  MaxFaults = 1
  MaxCrashes = 1
INVARIANT PagesFiltered
