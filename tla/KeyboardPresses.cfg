SPECIFICATION Spec
CONSTANTS
  VirtualKeys = {"W", "F5", "ALT_LEFT", "CONTROL_LEFT"}
  Unlisted = {}
INVARIANT PressesAreReal
CHECK_DEADLOCK FALSE
