SPECIFICATION GateSpec
CONSTANTS
  Resources = {r}
  Controllers = {a}
  Keys = {ka}
  LeaseTimes = {0, 1}
  Ttls = {1}
  Nonces = {n}
  NoLease = NoLease
  MaxToken = 3
  MaxReinstalls = 1
  Gates = {g1, g2}
  MaxSequence = 2
INVARIANTS
  FencedFromTheStart
PROPERTIES
  AcceptedInOrder
  ReplacedStaysReplaced
SYMMETRY GateSymmetry
CHECK_DEADLOCK FALSE
