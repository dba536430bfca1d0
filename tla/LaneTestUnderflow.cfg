CONSTANTS
  DirMask = 64
  NumSteps = 63
  Specs <- UnderflowSpecs
  Eyes <- MCEyes
  Faults = {}
  MaxFaults = 0
SPECIFICATION Spec
INVARIANT EyeSizeWithinRange
CHECK_DEADLOCK FALSE
