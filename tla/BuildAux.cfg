CONSTANTS
  Sizes = {1, 2, 3}
  DEFAULT_CAPACITY = 1
  MayFail = {"output", "sort", "heap"}
  Addresses = {a1, a2, a3, a4, a5}
  Null = Null
  Free = Free
  Other = Other
SPECIFICATION Spec
INVARIANTS NoFault NothingLost
