SPECIFICATION StoreSpec
CONSTANTS
  NumBlocks = 4
  EntriesPerBlock = 3
  ObjIds = {o1, o2}
  LuIds <- MCLuIds
  Bytes = {x}
  MaxSpans = 2
  HdrSlots = 1
  IxSlots = 1
  DataPageSize = 1
  MaxRuns = 5
  MaxLen = 2
  GcSizes = {0}
  Calls = {"creat", "write", "trunc", "remove", "rename", "gc", "gc_quick"}
  Retry = FALSE
  MaxFreePages = 0
  FREE = FREE
  DELETED = DELETED
  NoBlock = NoBlock
  Unset = Unset
  Torn = Torn
  NoFile = NoFile
  Unknown = Unknown
SYMMETRY Symmetry
INVARIANTS FilesIntact IndexSound NoOrphans 
PROPERTIES LivePagesKept ImplementsPages
