\* The agent as it is: two flushes that may overlap and stop at the first
\* failure; crashes, restarts and rejecting database calls at any await.
SPECIFICATION Spec
CONSTANTS
  Flushers = {f1, f2}
  MaxSize = 2
  MaxReports = 3
  MaxRetries = 1
  ContinueOnError = FALSE
  DiskFaults = TRUE
  Crashes = TRUE
  Clears = FALSE
  f1 = f1
  f2 = f2
INVARIANTS TypeOK Durable DurableInv NeverLost
PROPERTIES FirstDeliveryInOrder BufferSpec
\* All reports of a bounded run delivered: nothing is left to do.
CHECK_DEADLOCK FALSE
