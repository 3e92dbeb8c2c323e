SPECIFICATION FairSpec
CONSTANTS
  Threads <- TwoThreads
  Sizes <- ThreeSizes
  Capacity = 3
  FileLimit = 3
  StandbyMax = 1
  MaxMsgs = 2
  MaxFaults = 1
  Backlog = 1
INVARIANTS LoggedOnce CrashNeedsRace
PROPERTY ReachesFile
CHECK_DEADLOCK FALSE
