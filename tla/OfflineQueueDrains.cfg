\* Progress, with give-ups after MaxRetries, clear() and crashes.
SPECIFICATION FairSpec
CONSTANTS
  Flushers = {f1, f2}
  MaxSize = 2
  MaxReports = 2
  MaxRetries = 1
  ContinueOnError = TRUE
  DiskFaults = FALSE
  Crashes = TRUE
  Clears = TRUE
  f1 = f1
  f2 = f2
PROPERTIES Drains
\* All reports of a bounded run delivered: nothing is left to do.
CHECK_DEADLOCK FALSE
