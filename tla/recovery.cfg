SPECIFICATION RecoverySpec
CONSTANTS
  NumPages = 14
  MaxSpans = 2
  PageSize = 2
  MaxEvents = 3
INVARIANTS Clean WholeOrGone
PROPERTY Ends
CHECK_DEADLOCK FALSE
