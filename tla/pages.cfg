SPECIFICATION Spec
CONSTANTS
  NumBlocks = 4
  EntriesPerBlock = 3
  LuIds = {id}
  FREE = FREE
  DELETED = DELETED
  NoBlock = NoBlock
  MaxFreePages = 0
INVARIANTS TypeOK CountersMatch FreeSuffix FreeBlocksWhole SpareBlock IInv
