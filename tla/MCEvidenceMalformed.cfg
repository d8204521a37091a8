SPECIFICATION EvidenceSpec
CONSTANTS
  Transactions = {}
  NoTime = NoTime
  MaxEvidenceAge = 2
  MaxGeneration = 10
  Stamps <- MCStamps
  Threads = {a, b}
  MaxClock = 2
  Lead = 0
  WallOf <- MCWallOf
  Reports = {"ELIGIBLE", "PERMISSION_DENIED", "MALFORMED"}
  MaxEvents = 3
PROPERTIES
  MalformedEventPauses
CHECK_DEADLOCK FALSE
