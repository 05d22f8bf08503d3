\* Sends fail and leave copies behind that arrive later.
SPECIFICATION FairSpec
CONSTANTS
  MaxChanges = 1
  MaxConfigs = 2
  MaxQueue = 2
  MaxInFlight = 1
  Outages = TRUE
  Fallbacks = TRUE
INVARIANTS TypeOK
PROPERTIES AppsConverge ConfigArrives
