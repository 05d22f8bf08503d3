\* The production thresholds and delays in milliseconds, but a cooldown of
\* twelve minutes, inside the range of the jittered delays.
SPECIFICATION FairSpec
CONSTANTS
  FAILURE_THRESHOLD = 3
  DEGRADED_THRESHOLD = 2
  MaxFailures = 3
  MaxQueued = 2
  MaxFlushes = 2
  Interval = 60000
  BaseDelay = 15000
  Multiplier = 2
  MaxDelay = 900000
  ErrorCap = 10
  maxFailures = 10
  cooldownMs = 720000
  Jitter = {7, 10, 13}
INVARIANTS TypeOK MonitorConsistent PollOutageSeen SilenceBounded
PROPERTIES BacksOff NoticesOutage ComesBack
