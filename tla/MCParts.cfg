SPECIFICATION PartsSpec
CONSTANTS
  Resources = {r}
  Controllers = {a, b}
  ControllerKeys = {ka, kb}
  Challenges = {x}
  LeaseTimes = {0, 1}
  Ttls = {1, 2}
  Nonces = {}
  NoLease = NoLease
  NoRecord = NoRecord
  MaxToken = 3
  MaxReinstalls = 0
  Requests = {q1, q2, q3}
  Percents = {10}
  Fractions = {7}
  Presets = {dialogue}
  BandSets = {flat}
  Users = {u1}
  Unset = Unset
  MaxDisturbances = 1
  ContextKeys = {k1, k2, k3}
  Behaviours = {"skip"}
  Confidences = {13}
  MaxEntries = 2
  Absent = Absent
  MaxVersion = 5
  Transactions = {t1, t2}
  NoTime = NoTime
  NoSample = NoSample
  MaxEvidenceAge = 1
  MaxGeneration = 2
  MaxClock = 2
  MaxSequence = 2
  MaxEvents = 1
  MaxRuntimes = 1
  Reports = {"ELIGIBLE"}
  Stamps <- MCStamps
INVARIANTS
  UnresolvedIsUnknown
  ActiveOutlivesInterruption
  OneAnswerPerRequest
  UndoRestoresPrior
  MenuKeepsItsWord
  DefaultRestores
  CurrentIsUntouched
  NeverAutomateHolds
  CurrentIsRecent
PROPERTIES
  PermitSpec
  GateRespectsSuspension
  PublishedHeldThroughout
SYMMETRY RequestSymmetry
CHECK_DEADLOCK FALSE
