SPECIFICATION FairSpec
CONSTANTS
  Chat = {c1, c2}
  Speakers = {c1}
  Slots = 1
  MaxUpdates = 3
  MaxFaults = 1
  MaxCrashes = 1
INVARIANTS BotInv TakenUp
PROPERTIES UpdatesAnswered
CHECK_DEADLOCK FALSE
