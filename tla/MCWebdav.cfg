CONSTANTS
  t1 = t1
  t2 = t2
  a = a
  b = b
  leaf = leaf
  i1 = i1
  i2 = i2
  i3 = i3
  i4 = i4
  i5 = i5
  Paths <- MCPaths
  Inos = {i1, i2, i3, i4, i5}
  MaxFiles = 6
  Timeout = 1
  MaxLocks = 2
  MaxToken = 3
  Tasks = {t1, t2}
  MaxRequests = 4
  MaxTime = 1
SYMMETRY Symmetry
SPECIFICATION MCSpec
INVARIANTS
  LocksAreCompatible
  
  RootsAreMapped
CHECK_DEADLOCK FALSE
