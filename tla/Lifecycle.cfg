SPECIFICATION Spec
CONSTANTS
  n1 = n1
  n2 = n2
  Nodes = {n1, n2}
  Home = n1
  NoNode = NoNode
  MaxIds = 2
  Initial = 1
  Branches = {1}
  MaxCreates = 2
  MaxBranches = 1
  MaxDeletes = 2
  MaxCrashes = 1
  MaxCalls = 3
  MaxFailing = 2
INVARIANT TypeOK
PROPERTIES CreatedIsThere NameKept DeleteLeavesFirst
CHECK_DEADLOCK FALSE
