SPECIFICATION CheckpointSpec
CONSTANTS
  Transactions = {}
  NoTime = NoTime
  MaxEvidenceAge = 1
  MaxGeneration = 1
  Stamps <- MCStamps
  Savers = {s1, s2}
  Reports = {"ELIGIBLE"}
  MaxClock = 1
  MaxSequence = 2
  MaxRestarts = 2
  NoCheckpoint = NoCheckpoint
  None = None
SYMMETRY SaverSymmetry
INVARIANTS
  RestoredIsNewest
  OneCheckpointPerSequence
  UnknownOutlivesRestarts
CHECK_DEADLOCK FALSE
