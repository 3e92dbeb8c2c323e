SPECIFICATION TimerSpec
CONSTANTS
  Ids = {"minute"}
  Request <- EveryMinute
  SecSlots = 3
  MinSlots = 3
  HourSlots = 2
  MaxTicks = 12
INVARIANT SavedIsInTheWheel
\* Time is bounded: the last state has no successor.
CHECK_DEADLOCK FALSE
