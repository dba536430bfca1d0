CONSTANTS
  NumLinks = 2
  Addrs <- MCAddrs
  Bits = {1, 2}
  Status = {"status"}
  Comes <- MCComes
  Setups <- MCSetups
SPECIFICATION FairSpec
INVARIANTS TypeOK OneAtATime VerdictOfFields CountsAddUp LinksLeftUp ResultOfLinks
PROPERTIES RecoveredAsFound EvidenceKept StreamsWellFormed RunEnds
CHECK_DEADLOCK FALSE
