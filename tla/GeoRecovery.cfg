CONSTANTS
  dead = dead
  worse = worse
  good = good
  kcell = kcell
  tele = tele
  mts = mts
  Worker = {w1, w2}
  Offers <- Apart
  Home <- AtHome
  Healthy = {good}
  BadCountry = {dead}
  Unread = Unread
  Unknown = Unknown
  NoOffer = NoOffer
  RotateBudget = 1
  MaxRounds = 1
  MaxFaults = 1
SPECIFICATION GeoFairSpec
CHECK_DEADLOCK FALSE
 
PROPERTIES  SearchEnds
