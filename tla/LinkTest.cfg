CONSTANTS
  NumLinks = 2
  Width = 3
  Present = {1, 6}
  Setups <- MCSetups
SPECIFICATION FairSpec
INVARIANTS TypeOK SeriesExclusive LanesInTurn QuietPorts HawdRestored ResultOfLanes TallyAgrees
PROPERTY RunEnds
CHECK_DEADLOCK FALSE
