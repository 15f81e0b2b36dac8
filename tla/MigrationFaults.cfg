CONSTANTS
  n1 = n1
  n2 = n2
  NoNode = NoNode
  NilSnap = 0
  Home = n1
  Nodes = {n1, n2}
  NodeOrder <- TwoNodes
  Procurers = {n2}
  Commits = FALSE
  Rollbacks = TRUE
  MaxReqs = 2
  MaxFaults = 1
  MaxRestarts = 0
SPECIFICATION Spec
INVARIANTS
  MemoryTracksPool
  LineageAgreement
PROPERTIES
  HandoffLossless
CHECK_DEADLOCK FALSE
