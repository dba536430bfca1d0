CONSTANTS
  NumReports = 3
  NumPoints = 3
  Timely = TRUE
  MaxLost = 2
  MaxWire = 3
SPECIFICATION FairSpec
INVARIANTS TypeOK PolledOwn NormalWhenTidy
PROPERTIES RpcSpec TrafficEnds
CHECK_DEADLOCK FALSE
