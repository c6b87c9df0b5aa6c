SPECIFICATION VfsSpec
CONSTANTS
  Names = {n1, n2}
  Values = {a, b}
  Descs = 2
  CachePages = 3
  PageSize = 2
  DataPageSize = 1
  HdrEntries = 1
  IxEntries = 1
  MaxLen = 3
  MaxWrite = 2
  Careless = FALSE
  NoFile = NoFile
  Flags <- MCFlags
  Seeks <- MCSeeks
INVARIANTS PageRefersFd OneBuffer SizesAgree CacheServes
PROPERTY ImplementsFileApi
SYMMETRY MCSymmetry
VIEW MCView
CHECK_DEADLOCK FALSE
