CONSTANTS
  A = A
  B = B
  NilSnap = 0
  Clusters = {A, B}
  Home = A
  Depth = 2
  Directions = {"push", "pull"}
  MaxTries = 2
  MaxTransfers = 1
  MaxPolled = 1
  MaxSnaps = 3
  MaxRuns = 0
  MaxFaults = 0
  MaxEvents = 1
SPECIFICATION FairSpec
PROPERTIES
  ClientLearns
CHECK_DEADLOCK FALSE
