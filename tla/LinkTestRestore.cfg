CONSTANTS
  NumLinks = 1
  Width = 1
  Present = {6}
  Setups <- SingleSetup
SPECIFICATION Spec
INVARIANT HasdRestored
CHECK_DEADLOCK FALSE
