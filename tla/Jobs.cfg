\* Two jobs of one device; the system may come to rest.
SPECIFICATION FairSpec
CONSTANTS
  d1 = d1
  Devices = {d1}
  Jobs = {1, 2}
  NoJob = 0
  Steps = 2
  MayFail = {1}
  MaxFaults = 1
INVARIANTS TypeOK SuccessTrue 
PROPERTIES PollingTakesOver
CHECK_DEADLOCK FALSE
