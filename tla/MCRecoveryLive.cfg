SPECIFICATION FairCommitSpec
CONSTANTS
  Transactions = {t1}
  Commits = {c1}
  Queries = {q1}
  None = None
  NoTime = NoTime
  MaxEvidenceAge = 3
  MaxGeneration = 1
  MaxClock = 1
  MaxCrashes = 1
  Stamps <- MCStamps
  WallOf <- MCWallOf
PROPERTIES
  ProvenIsReleased
CHECK_DEADLOCK FALSE
