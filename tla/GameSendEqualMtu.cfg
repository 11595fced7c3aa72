CONSTANTS
  DtlsPayload = 8
  Overhead = 2
  HeaderSize = 1
  MaxFragments = 6
  DataSizes <- Sizes
  RecordHeader = 2
  DatagramRoom = 8
SPECIFICATION FairSpec
PROPERTIES
  TokenIsSet
CHECK_DEADLOCK FALSE
