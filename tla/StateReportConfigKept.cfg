\* Nothing ever fails.
SPECIFICATION Spec
CONSTANTS
  MaxChanges = 1
  MaxConfigs = 2
  MaxQueue = 2
  MaxInFlight = 1
  Outages = FALSE
  Fallbacks = FALSE
PROPERTIES ConfigKept
