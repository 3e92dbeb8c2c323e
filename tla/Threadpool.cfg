SPECIFICATION Spec
CONSTANTS
  Ratios <- FourRatios
  HardwareNum = 1
  MaxNum = 3
  MaxLoad = 4
  MaxTimeouts = 4
  MaxThreads = 4
INVARIANTS PoolInv DivisionNeedsRace
PROPERTIES FinishesLocalTasks TasksRun
\* The pool stops when every thread has ended before it was linked.
CHECK_DEADLOCK FALSE
