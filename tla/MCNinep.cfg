CONSTANTS
  s1 = s1
  s2 = s2
  t1 = t1
  t2 = t2
  a = a
  b = b
  leaf = leaf
  i1 = i1
  i2 = i2
  i3 = i3
  w1 = w1
  f1 = f1
  f2 = f2
  f3 = f3
  Paths <- MCPaths
  Inos = {i1, i2, i3}
  MaxFiles = 3
  Fids = {f1, f2, f3}
  LockOwners = {w1}
  MaxByte = 0
  MaxPerFile = 2
  MaxQid = 5
  MaxFidObjects = 4
  Sessions = {s1, s2}
  Tasks = {t1, t2}
  MaxRequests = 2
  MaxHandles = 3
  PageSize = 1

SYMMETRY Symmetry
SPECIFICATION MCSpec
INVARIANTS
  HandlesAccountedFor
  QidsNameOneFile
  LocksFollowTheirFile
  
CHECK_DEADLOCK FALSE
