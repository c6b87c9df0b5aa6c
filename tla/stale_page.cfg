SPECIFICATION VfsSpec
CONSTANTS
  Names = {n1, n2}
  Values = {a, b}
  Descs = 2
  CachePages = 3
  PageSize = 2
  DataPageSize = 1
  HdrEntries = 1
  IxEntries = 1
  MaxLen = 3
  MaxWrite = 2
  Careless = TRUE
  NoFile = NoFile
  Flags <- MCFlags
  Seeks <- MCSeeks
INVARIANT PageRefersFd
SYMMETRY MCSymmetry
VIEW MCView
CHECK_DEADLOCK FALSE
