CONSTANTS
  Producers = {p1, p2}
  Addresses = {a1, a2, a3}
  Null = Null
  MaxMessages = 3
SPECIFICATION FairSpec
INVARIANTS
  NothingLost
  BatchesReversePublication
PROPERTIES
  EventuallyDelivered
