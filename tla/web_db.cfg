SPECIFICATION FairSpec
CONSTANTS
  t1 = t1
  t2 = t2
  t3 = t3
  Client = {t1, t2, t3}
  Start <- MCStart
CHECK_DEADLOCK FALSE
INVARIANTS Agreed OneDatabase
PROPERTIES Isolated Answered
