SPECIFICATION Spec
CONSTANTS
  Accounts <- TwoAccounts
  Names <- TwoNames
  LoginWorkers = {l1, l2}
  GameWorkers = {g1, g2}
  Active <- OneActive
  Played <- PlayedB
  MaxBusy = 3
  MaxUploads = 2
  MaxDocs = 1
  MaxFaults = 1
SYMMETRY WorkerSymmetry
INVARIANTS AccountInv CacheNotOlder OneSession NameHasOneOwner ListedHasDocument
