SPECIFICATION Spec
CONSTANTS
  d1 = d1
  d2 = d2
  n1 = n1
  n2 = n2
  n3 = n3
  Device = {d1, d2}
  Note = {n1, n2}
  Seeded = {}
  SeedContent <- MCSeedContent
  MaxContent = 4
  MaxTime = 2
  MaxOps = 2
  Windows = {"settle", "mark", "editor"}
  Faults = {"upload"}
  Expiry = TRUE
SYMMETRY Symmetry
INVARIANTS GhostFree PurgedAbsent
