CONSTANTS
  PoolSize = 2
  Endpoints = {"a", "b", "c"}
  MaxQueue = 2
  BatchesAreShort = TRUE
  LinkMtus = {500, 576, 1400, 1500, 9000}
  PathMtus = {500, 600, 1300, 1500, 9000}
  COMMON_MTUS = {576, 1006, 1280, 1472, 1500, 4352, 8166, 17914, 65535}
  Flights = 3
  Updates = 3
  Messages = {"a", "b", "c"}
  Secure = {"a", "b"}
  Keys = {1, 2}
  Key <- SharedKey
  MaxAttempts = 3
SPECIFICATION MCSpec
INVARIANTS
  RoutePoolIsPartitioned
  ConnectionsKeepTheirRoute
  EstablishedIsEarned
  PmtuIsBest
  SuccessIsEarned
  UnfinishedIsPending
PROPERTIES
  DeadRoutesAreReclaimed
  EveryAttemptEnds
CHECK_DEADLOCK FALSE
