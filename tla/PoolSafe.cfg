SPECIFICATION Spec
CONSTANTS
  Word = 128
  AlignSize = 2
  PageSize = 16
  MaxPoolSlot = 3
  NodeHeader = 4
  PoolHeader = 4
  MutexHeader = 2
  CleanupSize = 3
  InitialSizes = {0, 20}
  Requests = {1, 14, 27, 41, 70}
  MallocFails = TRUE
  ClearsRecords = FALSE
  MaxNodes = 4
  MaxBlocks = 3
  MaxCleanups = 2
  MaxClears = 1
INVARIANTS TypeOK MemoryDisjoint SizesExact NothingLeaks
