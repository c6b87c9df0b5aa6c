SPECIFICATION Spec
CONSTANTS
  Sector = 4
  SizeWrap = 8
  ScanLimit = 2
  Lengths = {3, 6, 9}
  MaxFiles = 3
  MaxWrites = 2
  MaxCuts = 2
INVARIANTS TableTrue EntriesLead
CHECK_DEADLOCK FALSE
