SPECIFICATION FairSpec
CONSTANTS
  Requests <- PairRequests
  Service <- PairService
  Client <- PairClient
  Uploads <- GameUploads
  Unroutable <- NoRequests
  Conns <- BothConns
  Readers <- ThreeReaders
  ReaderService <- TwoForLogin
  ManagedKeys <- DBKeys
  MaxLen = 1
  Transfer = 0
  Tolerant = 1
  MaxDelivered = 1
  MaxFaults = 1
  MaxLog = 0
INVARIANTS PipelineInv AnsweredNotPending
PROPERTIES DropsOnlyHopeless PendingDrains ImplementsRequestReply LoginAnswered
