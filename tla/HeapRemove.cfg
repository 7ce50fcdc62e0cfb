CONSTANTS
  Items = {0, 1, 2}
  SIZE = 2
  MaxItems = 6
  None = None
SPECIFICATION FairSpec
PROPERTIES ImplementsBag
\* A crashed program takes no step.
CHECK_DEADLOCK FALSE
