SPECIFICATION CommitSpec
CONSTANTS
  Transactions = {t1}
  Commits = {c1}
  Queries = {q1}
  None = None
  NoTime = NoTime
  MaxEvidenceAge = 3
  MaxGeneration = 2
  MaxClock = 3
  MaxCrashes = 0
  Stamps <- MCStamps
  WallOf <- MCWallOf
INVARIANTS
  LostOutcomeIsNotActive
CHECK_DEADLOCK FALSE
