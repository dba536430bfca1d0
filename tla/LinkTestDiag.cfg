CONSTANTS
  NumLinks = 1
  Width = 1
  Present = {6}
  Setups <- SingleSetup
SPECIFICATION Spec
INVARIANT DiagPassTested
CHECK_DEADLOCK FALSE
