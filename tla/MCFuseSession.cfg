CONSTANTS
  t1 = t1
  t2 = t2
  a = a
  b = b
  c = c
  i1 = i1
  i2 = i2
  Paths <- MCPaths
  Drivers <- MCDrivers
  Inos = {i1, i2}
  MaxNodeid = 3
  Tasks = {t1, t2}
  MaxRequests = 4
  MaxFiles = 2
  MaxOpens = 1
  MaxLookups = 2
  Orderly = TRUE
SYMMETRY Symmetry
SPECIFICATION Spec
INVARIANTS
  
  NodeidsNameTheirFiles
  ReachesItsFile
  HandlesAccountedFor
CHECK_DEADLOCK FALSE
