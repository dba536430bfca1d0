CONSTANTS
  DirMask = 64
  NumSteps = 63
  Specs <- MCSpecs
  Eyes <- MCEyes
  Faults = {"UNKNOWN", "NAK"}
  MaxFaults = 1
SPECIFICATION FairSpec
INVARIANTS TypeOK EyeSizeSound EyeSizeComplete EyeSizeExact EyeSizeWithinRange ScanBracketsEdge
PROPERTY AspectEnds
CHECK_DEADLOCK FALSE
