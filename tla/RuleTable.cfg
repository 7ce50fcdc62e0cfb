CONSTANTS
  Dims <- MCDims
  MaxVal = 1
  UINT32_MAX = 2
  Rules <- MCRules
  Sizes = {1, 2}
  Blank = Blank
SPECIFICATION FairSpec
INVARIANTS TypeOK SlotsSound Sorted NoDuplicates Bracket ScanPassed
PROPERTIES ImplementsList CallsReturn
