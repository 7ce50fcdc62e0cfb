CONSTANTS
  Dims <- MCDims
  MaxVal = 3
  UINT32_MAX = 9
  MaxRules = 3
  Acls <- MCAcls
  BucketSizes = {1}
  Keys <- Key
  VEC_SIZE = 4
  OwnAux = {TRUE}
  MayFail = {"vec", "aux", "grow", "rules"}
SPECIFICATION Spec
INVARIANT NoCrash
\* A crashed program takes no step.
CHECK_DEADLOCK FALSE
