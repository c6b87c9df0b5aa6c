SPECIFICATION StoreSpec
CONSTANTS
  NumBlocks = 4
  EntriesPerBlock = 4
  ObjIds = {o1}
  LuIds <- MCLuIds
  Bytes = {x, y}
  MaxSpans = 2
  HdrSlots = 1
  IxSlots = 1
  DataPageSize = 2
  MaxRuns = 5
  MaxLen = 3
  GcSizes = {0}
  Calls = {"creat", "write", "trunc", "remove"}
  Retry = FALSE
  MaxFreePages = 0
  FREE = FREE
  DELETED = DELETED
  NoBlock = NoBlock
  Unset = Unset
  Torn = Torn
  NoFile = NoFile
  Unknown = Unknown
SYMMETRY Symmetry
INVARIANTS FilesIntact UniqueIndex
 
