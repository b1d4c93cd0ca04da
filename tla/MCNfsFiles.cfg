CONSTANTS
  t1 = t1
  t2 = t2
  a = a
  b = b
  leaf = leaf
  i1 = i1
  i2 = i2
  i3 = i3
  i4 = i4
  v1 = v1
  v2 = v2
  Paths <- MCPaths
  Inos = {i1, i2, i3, i4}
  MaxId = 5
  Cap = 3
  SnapshotCap = 1
  ExclusiveCap = 1
  Tasks = {t1, t2}
  Verifiers = {v2}
  Versions = {3, 4}
  MaxRequests = 2
  MaxFiles = 4
  PageSize = 1
  Orderly = TRUE
SYMMETRY Symmetry
SPECIFICATION MCSpec
INVARIANTS
  ReachesItsFile
  OneStatePerFile
  
  
PROPERTIES
  GrowsForPinsOnly
CHECK_DEADLOCK FALSE
