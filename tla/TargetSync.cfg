\* Edits, drafts, deployments, cancellations, lost answers, crashes.
SPECIFICATION FairSpec
CONSTANTS
  MaxApps = 1
  MaxConfig = 1
  MaxVersion = 2
  Clients = {c1}
  c1 = c1
INVARIANTS TypeOK TagCoherent AppsPersisted
PROPERTIES ConvergesNonEmpty
