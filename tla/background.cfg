SPECIFICATION MCSpec
CONSTANTS
  d1 = d1
  d2 = d2
  n1 = n1
  h1 = h1
  h2 = h2
  Device = {d1, d2}
  Note = {n1}
  Hash = {h1, h2}
  None = None
  Retention = 1
  Revert = FALSE
  Timely = TRUE
  MaxEdits = 2
  MaxFaults = 1
  Backend = {1, 2}
  Caller = {1, 2}
  Reliable = FALSE
  MaxChanges = 2
  MaxActs = 4
CHECK_DEADLOCK FALSE
INVARIANTS Referenced OneEngine
PROPERTIES Spared Collected 
