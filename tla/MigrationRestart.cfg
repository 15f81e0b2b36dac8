CONSTANTS
  n1 = n1
  n2 = n2
  NoNode = NoNode
  NilSnap = 0
  Home = n1
  Nodes = {n1, n2}
  NodeOrder <- TwoNodes
  Procurers = {n2}
  Commits = TRUE
  Rollbacks = FALSE
  MaxReqs = 1
  MaxFaults = 0
  MaxRestarts = 1
SPECIFICATION Spec
INVARIANTS
  LineageAgreement
PROPERTIES
  HandoffLossless
CHECK_DEADLOCK FALSE
