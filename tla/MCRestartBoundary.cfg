SPECIFICATION CheckpointSpec
CONSTANTS
  Transactions = {}
  NoTime = NoTime
  MaxEvidenceAge = 1
  MaxGeneration = 1
  Stamps <- MCStamps
  Savers = {s1}
  Reports = {"ELIGIBLE", "PERMISSION_DENIED"}
  MaxClock = 2
  MaxSequence = 1
  MaxRestarts = 1
  NoCheckpoint = NoCheckpoint
  None = None
INVARIANTS
  ActiveIsNewerThanRestart
CHECK_DEADLOCK FALSE
