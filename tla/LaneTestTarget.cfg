CONSTANTS
  DirMask = 64
  NumSteps = 63
  Specs <- MCSpecs
  Eyes <- MCEyes
  Faults = {"UNKNOWN"}
  MaxFaults = 1
SPECIFICATION Spec
INVARIANT TargetCheckSound
CHECK_DEADLOCK FALSE
