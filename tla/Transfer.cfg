CONSTANTS
  A = A
  B = B
  NilSnap = 0
  Clusters = {A, B}
  Home = A
  Depth = 2
  Directions = {"push", "pull"}
  MaxTries = 2
  MaxTransfers = 2
  MaxPolled = 0
  MaxSnaps = 3
  MaxRuns = 1
  MaxFaults = 1
  MaxEvents = 1
SPECIFICATION Spec
INVARIANTS
  TypeOK
  FinishedIsDelivered
  ActiveIsMounted
CHECK_DEADLOCK FALSE
