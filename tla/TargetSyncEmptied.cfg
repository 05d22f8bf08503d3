\* The same without the exception for a row that became empty.
SPECIFICATION FairSpec
CONSTANTS
  MaxApps = 1
  MaxConfig = 1
  MaxVersion = 2
  Clients = {c1}
  c1 = c1
PROPERTIES Converges
