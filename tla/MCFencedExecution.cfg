SPECIFICATION ExecSpec
CONSTANTS
  Resources = {r}
  Controllers = {a, b}
  Nobody = Nobody
  Calls = {c1, c2}
  Handoffs = {h1, h2}
  Transactions = {t1, t2}
  Clients <- MCClients
  MaxToken = 3
  Anchored = TRUE
INVARIANTS
  SentOnceUnlessClosed
  AnchorLeads
PROPERTIES
  AdmittedInTokenOrder
  HoldStopsAdmissions
  DrainedExcludesPredecessor
SYMMETRY CallSymmetry
CHECK_DEADLOCK FALSE
