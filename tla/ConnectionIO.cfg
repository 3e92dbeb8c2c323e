SPECIFICATION Spec
CONSTANTS
  Lengths <- ThreeMessages
  Prefix = 2
  MaxRead = 3
  WrongLens = {0, 2, 3}
  LoopMsgs = 2
  PutMsgs = 2
  Size = 2
INVARIANTS FramingInv WholeMessages
PROPERTIES ReadHandlesOne QueueDrains
\* The client may stop sending.
CHECK_DEADLOCK FALSE
