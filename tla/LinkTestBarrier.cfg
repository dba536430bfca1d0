CONSTANTS
  NumLinks = 1
  Width = 2
  Present = {6}
  Setups <- SingleSetup
SPECIFICATION Spec
INVARIANT NoReadDuringMargin
CHECK_DEADLOCK FALSE
