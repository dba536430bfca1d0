CONSTANTS
  DirMask = 64
  NumSteps = 63
  Specs <- MCSpecs
  Eyes <- MCEyes
  Faults = {}
  MaxFaults = 0
SPECIFICATION Spec
INVARIANT FlaggedLaneFails
CHECK_DEADLOCK FALSE
