CONSTANTS
  Addrs = {1, 2, 3}
  Bdfs = {"b1", "b2"}
  Setups <- MCSetups
SPECIFICATION FairSpec
INVARIANTS TypeOK EligibleEnlisted ReadyByRegisters
PROPERTY WalksEnd
CHECK_DEADLOCK FALSE
