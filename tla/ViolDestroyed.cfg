SPECIFICATION FairSpec
CONSTANTS
  n1 = n1
  n2 = n2
  Nodes = {n1, n2}
  Home = n1
  NoNode = NoNode
  MaxIds = 1
  Initial = 1
  Branches = {1}
  MaxCreates = 0
  MaxBranches = 0
  MaxDeletes = 1
  MaxCrashes = 1
  MaxCalls = 2
  MaxFailing = 0
PROPERTY DeletedIsDestroyed
CHECK_DEADLOCK FALSE
