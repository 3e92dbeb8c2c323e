SPECIFICATION CodecSpec
CONSTANTS
  Types <- AllTypes
  Registered <- ServerTypes
  NameOf <- Names
  Texts <- ShortAndLong
  TextLists <- NoneOrTwo
  Junk = 99
  MaxSends = 3
  MaxCounts = 2
INVARIANTS ReadsBack TypeForwarded
\* The senders may stop.
CHECK_DEADLOCK FALSE
