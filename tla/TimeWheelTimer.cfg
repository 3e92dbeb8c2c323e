SPECIFICATION TimerSpec
CONSTANTS
  Ids = {"forever", "thrice", "hour"}
  Request <- Requests
  SecSlots = 3
  MinSlots = 2
  HourSlots = 2
  MaxTicks = 14
INVARIANT TimerInv
PROPERTIES RemovedStops ShortRunsOnTime
\* Time is bounded: the last state has no successor.
CHECK_DEADLOCK FALSE
