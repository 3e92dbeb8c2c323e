SPECIFICATION FairSpec
CONSTANTS
  Requests <- PairRequests
  Service <- PairService
  Client <- PairClient
  Uploads <- NoRequests
  Unroutable <- NoRequests
  Conns <- BothConns
  Readers <- TwoReaders
  ReaderService <- OneForEach
  ManagedKeys <- DBKeys
  MaxLen = 2
  Transfer = 0
  Tolerant = 1
  MaxDelivered = 3
  MaxFaults = 1
  MaxLog = 0
PROPERTIES TransferredIsHandled
