CONSTANTS
  n1 = n1
  n2 = n2
  NoNode = NoNode
  NilSnap = 0
  Home = n1
  Nodes = {n1, n2}
  NodeOrder <- TwoNodes
  Procurers = {n2}
  Commits = FALSE
  Rollbacks = FALSE
  MaxReqs = 1
  MaxFaults = 0
  MaxRestarts = 0
SPECIFICATION FairSpec
PROPERTIES
  HandoffCompletes
CHECK_DEADLOCK FALSE
