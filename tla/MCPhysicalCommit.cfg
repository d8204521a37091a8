SPECIFICATION MCSpec
CONSTANTS
  Transactions = {t1}
  Commits = {c1, c2}
  Queries = {q1, q2}
  None = None
  NoTime = NoTime
  MaxEvidenceAge = 3
  MaxGeneration = 2
  MaxClock = 1
  MaxCrashes = 1
  Stamps <- MCStamps
  WallOf <- MCWallOf
INVARIANTS
  OwedIsHeld
  ClosedIsFinal
PROPERTIES
  SentUnderItsAdmission
  ReleasedOnlyWhenClosed
  ArchiveIsFinal
SYMMETRY CommitSymmetry
CHECK_DEADLOCK FALSE
