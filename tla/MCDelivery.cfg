SPECIFICATION DeliverySpec
CONSTANTS
  p1 = p1
  p2 = p2
  e1 = e1
  e2 = e2
  n1 = n1
  v1 = v1
  v2 = v2
  t1 = t1
  t2 = t2
  i1 = i1
  i2 = i2
  k1 = k1
  k2 = k2
  Resources = {r}
  Controllers = {a, b}
  LeaseTimes = {0, 1}
  Ttls = {2}
  Nonces = {}
  NoLease = NoLease
  MaxToken = 3
  MaxReinstalls = 0
  Callers = {e1, e2}
  IntentNonces = {n}
  Capabilities <- MCCapabilities
  MaxWorldAge = 1
  MaxWall = 2
  MaxChanges = 2
  TransactionIds = {t1, t2}
  ProofIds = {i1, i2}
  Authorities = {k1, k2}
  NoAuthority = NoAuthority
  Stores = {s1, s2, s3}
  FinalityTimes = {0, 1}
  Proofs <- MCProofs
  NoFile = NoFile
  EmptyFile = EmptyFile
  MaxLosses = 1
  Pages = {p1, p2}
  NoPage = NoPage
  Tvs = {v1, v2}
  NoTv = NoTv
  Offers <- MCOffers
  Saves <- MCSaves
  EventIds = {e1, e2, n1}
  NoEvent = NoEvent
  NativeBatches <- MCBatches
  MaxChoices = 2
  MaxBatch = 2
  MaxStray = 1
  CacheThreads = {c1, c2, c3}
  Models = {m1, m2}
  NoModel = NoModel
  Megabytes <- MCMegabytes
  Budgets = {0, 1}
  NoBudget = 9
INVARIANTS
  AdmittedOncePerNonce
  DispatchedWithinItsTerms
  ExecutedOnceOrClosed
  FinalityIsProven
  StoredOnce
  PolicyFollowsChoices
  UsedIsLoaded
  WithinBudgetAtRest
SYMMETRY DeliverySymmetry
CHECK_DEADLOCK FALSE
