CONSTANTS
  Sizes = {1, 2, 3}
  DEFAULT_CAPACITY = 1
  MayFail = {"output", "sort", "heap", "again"}
  Addresses = {a1, a2, a3, a4}
  Null = Null
  Free = Free
  Other = Other
SPECIFICATION Spec
INVARIANT NoFault
CHECK_DEADLOCK FALSE
