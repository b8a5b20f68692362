SPECIFICATION FairSpec
CHECK_DEADLOCK FALSE
CONSTANTS
  db = db
  journal = journal
  File = {db, journal}
  Paged = {db}
  BlockSize = 2
  MinCap = 3
  MaxLen = 4
  Chunk <- MCChunk
  Cut = {0, 2}
  MaxOps = 4
  MaxCrashes = 1
  MaxFaults = 1
INVARIANT RowsOK
PROPERTIES WrittenBehind Flushed
