SPECIFICATION FairSpec
CONSTANTS
  Servers <- OneServer
  Lifetime = 3
  Threshold = 2
  MissLimit = 3
  Word = 1024
  MaxSuffix = 2
  MaxCrashes = 2
  MaxRestarts = 1
INVARIANTS RegistryInv LiveServiceKept
PROPERTIES DeadForgotten DeadNotChosen
