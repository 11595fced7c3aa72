CONSTANTS
  Messages = {"a", "b", "c"}
  Secure = {"a", "b"}
  Keys = {1, 2}
  Key <- SharedKey
  MaxAttempts = 3
SPECIFICATION MCSpec
PROPERTIES
  EverySendEnds
  ResendingStops
CHECK_DEADLOCK FALSE
