CONSTANTS
  Workers = {"lane0", "lane1", "link"}
  Main = "main"
  Count <- MCCount
SPECIFICATION FairSpec
INVARIANTS TypeOK LinesWhole NumbersAccounted MainFirstAndLast
PROPERTIES LogSpec StreamEnds
CHECK_DEADLOCK FALSE
