SPECIFICATION FairEvidenceSpec
CONSTANTS
  Transactions = {}
  NoTime = NoTime
  MaxEvidenceAge = 2
  MaxGeneration = 10
  Stamps <- MCStamps
  Threads = {a, b}
  MaxClock = 2
  Lead = 1
  WallOf <- MCWallOf
  Reports = {"ELIGIBLE", "PERMISSION_DENIED", "MALFORMED", "CONTRADICTORY"}
  MaxEvents = 2
INVARIANTS
  NegativeSourceIsNeverActive
  NegativeEventHoldsAutomation
PROPERTIES
  AcceptableEvidenceActivates
CHECK_DEADLOCK FALSE
