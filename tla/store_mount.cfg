SPECIFICATION StoreSpec
CONSTANTS
  NumBlocks = 4
  EntriesPerBlock = 4
  ObjIds = {o1}
  LuIds <- MCLuIds
  Bytes = {x}
  MaxSpans = 2
  HdrSlots = 1
  IxSlots = 1
  DataPageSize = 1
  MaxRuns = 5
  MaxLen = 2
  GcSizes = {0}
  Calls = {"creat", "write", "trunc", "remove", "rename", "gc", "gc_quick", "mount"}
  Retry = FALSE
  MaxFreePages = 0
  FREE = FREE
  DELETED = DELETED
  NoBlock = NoBlock
  Unset = Unset
  Torn = Torn
  NoFile = NoFile
  Unknown = Unknown
INVARIANTS FilesIntact
PROPERTIES CallsReturn
