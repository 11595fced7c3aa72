CONSTANTS
  ThenCallers = {c1, c2}
  SetCallers = {r1, r2}
  None = None
SPECIFICATION FairSpec
INVARIANTS
  CompletedMeansStored
PROPERTIES
  CallsReturn
  ImplementsOneShotFairly
CHECK_DEADLOCK FALSE
