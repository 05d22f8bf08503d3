\* One service, no faults: what a reconciliation plans for a stopped target.
SPECIFICATION Spec
CONSTANTS
  Services = {"a"}
  Images = {"v1"}
  FlakyImages = {}
  Wanted <- MCWanted
  Deployed <- MCDeployed
  MaxRetries = 2
  MaxIds = 6
  MaxEvents = 2
INVARIANT StoppedNotStarted
CHECK_DEADLOCK FALSE
