SPECIFICATION RecoverySpec
CONSTANTS
  NumPages = 14
  MaxSpans = 2
  PageSize = 2
  MaxEvents = 2
INVARIANT KeepsFile
CHECK_DEADLOCK FALSE
