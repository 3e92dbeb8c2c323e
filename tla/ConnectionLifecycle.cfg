SPECIFICATION FairSpec
CONSTANTS
  c1 = c1
  c2 = c2
  Conns <- TwoConns
  ThreadNum = 2
  HasCloseFunc = TRUE
INVARIANTS LifecycleInv CloseFindsConnection
PROPERTIES ClosesOwnSocket ClosedLeaves LoopsShare
\* Clients may stop coming, and the process may have crashed.
CHECK_DEADLOCK FALSE
