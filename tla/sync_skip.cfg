SPECIFICATION FairService
CONSTANTS
  Backend = {1}
  Caller = {1, 2}
  Reliable = TRUE
  MaxChanges = 1
  MaxActs = 2
CHECK_DEADLOCK FALSE
PROPERTY SkippedKept
