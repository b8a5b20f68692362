SPECIFICATION FairSpec
CONSTANTS
  d1 = d1
  d2 = d2
  n1 = n1
  n2 = n2
  Device = {d1, d2}
  Note = {n1}
  Joining = {d2}
  MaxTime = 3
  MaxOps = 3
  MaxSetters = 1
  MaxFaults = 1
  Fields = {"tags"}
  Faults = {"miss", "abort", "damage", "upgrade"}
  Skew = FALSE
INVARIANT Reported
PROPERTIES FileMonotone NoDowngrade MetaConverges
