CONSTANTS
  Dims <- MCDims
  MaxVal = 3
  UINT32_MAX = 9
  MaxRules = 3
  Acls <- MCAcls
  BucketSizes = {0, 2}
  Keys <- Key
  VEC_SIZE = 4
  OwnAux = {TRUE}
  MayFail = {"vec", "aux", "grow", "rules"}
SPECIFICATION FairSpec
INVARIANTS FramesOK LookupAgrees NodesAnswerAlike ListsNotEmpty PointersFresh
  TreeShaped CountersMatch MemoryOwned CrashNeedsGrowth
PROPERTY CallsReturn
\* A crashed program takes no step.
CHECK_DEADLOCK FALSE
