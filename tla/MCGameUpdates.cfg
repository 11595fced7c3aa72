CONSTANTS
  MaxUpdates = 2
  MaxActions = 3
  MaxCommands = 3
SPECIFICATION Spec
INVARIANTS
  UnhandledIsBuffered
  ConfirmationIsEarned
PROPERTIES
  StreamsAreReliable
CHECK_DEADLOCK FALSE
