CONSTANTS
  Dims <- MCDims
  MaxVal = 3
  UINT32_MAX = 2
  MaxRules = 3
  Acls <- MCAcls
  BucketSizes = {1}
  Keys <- Key
  VEC_SIZE = 4
  OwnAux = {TRUE}
  MayFail = {}
SPECIFICATION Spec
INVARIANT LookupAgrees
\* A crashed program takes no step.
CHECK_DEADLOCK FALSE
