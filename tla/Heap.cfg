CONSTANTS
  Items = {0, 1, 2}
  SIZE = 2
  MaxItems = 6
  None = None
SPECIFICATION FairSpec
INVARIANTS HeapOrder
PROPERTIES BagWhileOrdered ItemsKept SiftingEnds
\* A crashed program takes no step.
CHECK_DEADLOCK FALSE
