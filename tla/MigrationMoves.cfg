CONSTANTS
  n1 = n1
  n2 = n2
  NoNode = NoNode
  NilSnap = 0
  Home = n1
  Nodes = {n1, n2}
  NodeOrder <- TwoNodes
  Procurers = {n1, n2}
  Commits = FALSE
  Rollbacks = FALSE
  MaxReqs = 2
  MaxFaults = 0
  MaxRestarts = 0
SPECIFICATION Spec
INVARIANTS
  TypeOK
  ReportsAreTrue
PROPERTIES
  HandoffLossless
  MovedPathWasMounted
  ImplementsReplication
CHECK_DEADLOCK FALSE
