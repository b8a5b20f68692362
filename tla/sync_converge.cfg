SPECIFICATION FairSpec
CONSTANTS
  d1 = d1
  d2 = d2
  n1 = n1
  n2 = n2
  n3 = n3
  Device = {d1, d2}
  Note = {n1, n2, n3}
  Seeded = {n1}
  SeedContent <- MCSeedContent
  MaxContent = 4
  MaxTime = 1
  MaxOps = 2
  Windows = {}
  Faults = {}
  Expiry = FALSE
PROPERTY Converges
 
 
