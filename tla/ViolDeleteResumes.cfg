SPECIFICATION Spec
CONSTANTS
  n1 = n1
  n2 = n2
  Nodes = {n1, n2}
  Home = n1
  NoNode = NoNode
  MaxIds = 3
  Initial = 3
  Branches = {1, 2}
  MaxCreates = 0
  MaxBranches = 0
  MaxDeletes = 2
  MaxCrashes = 1
  MaxCalls = 3
  MaxFailing = 0
INVARIANT DeletionResumes
CHECK_DEADLOCK FALSE
