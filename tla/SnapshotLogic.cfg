CONSTANTS
  NilSnap = NilSnap
  Ids = {s1, s2, s3, s4, s5}
  MaxLen = 4
SPECIFICATION Spec
INVARIANTS
  VerdictMatchesHistory
  RangeCompletesDestination
PROPERTY AdviceConverges
CHECK_DEADLOCK FALSE
