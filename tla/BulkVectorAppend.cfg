CONSTANTS
  BulkSize = 4
  MaxBulks = 1
SPECIFICATION Spec
INVARIANT UnexpectedIsUnreached
CHECK_DEADLOCK FALSE
