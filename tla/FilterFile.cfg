CONSTANTS
  Bits = 2
  MAXFILTERS = 4
  FileLength = 5
  Files <- MCFiles
  Tails = {"eof", "error"}
SPECIFICATION Spec
INVARIANTS FileLoaded RejectedForReason PrefixRead
PROPERTY LoadEnds
\* A file that was read, or refused, is the end.
CHECK_DEADLOCK FALSE
