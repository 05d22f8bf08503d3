\* Two calls of provision() and two device keys; ticks of a minute, with the
\* default interval and a threshold of two minutes instead of five.
SPECIFICATION FairSpec
CONSTANTS
  MaxKeys = 2
  MaxAttempts = 2
  Horizon = 5
  Never = Never
  checkInterval = 1
  offlineThreshold = 2
  MaxMissed = 1
INVARIANTS TypeOK KeyAgreed OfflineInTime OfflineOnlySilent
PROPERTIES SilentShownOffline
