CONSTANTS
  Dims <- MCDims
  MaxVal = 3
  UINT32_MAX = 2
  Rules <- MCRules
  Asks <- MCAsks
  Sizes = {1}
  Addresses = {a1, a2}
  Null = Null
  Blank = Blank
SPECIFICATION Spec
SYMMETRY MCSymmetry
INVARIANTS TableOwned SamePointerReads ReleasedGone
PROPERTY TableIsList
\* A crashed program takes no step.
CHECK_DEADLOCK FALSE
