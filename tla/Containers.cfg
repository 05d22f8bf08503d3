\* Two services of one app and any two disturbances (targets received, engine
\* faults, deaths, failed probes, restarts); pulls of v2 fail as often as tried.
SPECIFICATION FairSpec
CONSTANTS
  Services = {"a", "b"}
  Images = {"v1", "v2"}
  FlakyImages = {"v2"}
  Wanted <- MCWanted
  Deployed <- MCDeployed
  MaxRetries = 2
  MaxIds = 8
  MaxEvents = 2
INVARIANTS TypeOK EntriesTruthful SparesHealthy NothingToDoIsDone
PROPERTY Converges
\* A device whose target is reached has nothing left to do.
CHECK_DEADLOCK FALSE
