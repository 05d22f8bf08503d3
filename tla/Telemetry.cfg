\* Two Modbus devices and the pipe of their messages to the broker
SPECIFICATION FairSpec
CONSTANTS
  Polled = 2
  bufferCapacity = 2
  bufferSize = 2
  MaxReadings = 3
  MaxCalls = 1
  MaxFaults = 1
INVARIANTS TypeOK OnePollLoop
PROPERTIES PolledOnceReachable Drained
\* The system may rest: every device failed before start() ended and was left.
CHECK_DEADLOCK FALSE
