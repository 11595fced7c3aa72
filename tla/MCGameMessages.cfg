CONSTANTS
  DtlsPayload = 6
  Overhead = 2
  HeaderSize = 1
  MaxFragments = 3
  Messages = {1, 2, 3}
  DataSize <- Sizes
  Copies <- CopiesOf
  MaxAge = 1
  MaxTime = 4
  DataSizes <- SentSizes
  SendPayload = 8
  SendFragments = 6
  RecordHeader = 2
  DatagramRoom = 18
SPECIFICATION MCSpec
INVARIANTS
  DeliveredWhole
  ChainsAreSound
  DeliveredOnce
  SuccessMeansAllSent
  CountIsTrue
PROPERTIES
  CompletionIsReturned
  TokenIsSet
CHECK_DEADLOCK FALSE
