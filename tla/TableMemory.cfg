CONSTANTS
  HalfRange = 32
  RuleSizes = {3, 4, 7}
  Sizes = {0, 1, 2, 3, 4, 5, 7, 10, 11, 12, 22, 64}
  MemoryLimit = 256
SPECIFICATION Spec
INVARIANTS CapacityIsBacked NoFault
CHECK_DEADLOCK FALSE
