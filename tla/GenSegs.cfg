CONSTANTS
  Dims <- MCDims
  MaxVal = 5
  UINT32_MAX = 9
  MaxRules = 4
  Lists <- MCLists
  HEAP_SIZE = 2
  MayFail = TRUE
SPECIFICATION FairSpec
INVARIANTS SweepOK SegsMatch CrashNeedsOverlap
PROPERTY SweepEnds
\* A crashed program takes no step.
CHECK_DEADLOCK FALSE
