CONSTANTS
  c1 = c1
  c2 = c2
  w1 = w1
  w2 = w2
  f1 = f1
  Clients = {c1, c2}
  Owners = {w1, w2}
  Files = {f1}
  MaxByte = 0
  Accesses = {{"R"}, {"R", "W"}}
  Denies = {{}, {"W"}}
  LockTypes = {"R", "W"}
  MaxOther = 3
  MaxSeqid = 1
  MaxOpensPerFile = 2
  MaxLocksPerFile = 2
  RequireReclaimComplete = TRUE
SYMMETRY ClientAndOwnerSymmetry
SPECIFICATION Spec
INVARIANTS
  ShareReservations
  StateidsIdentify
  BooksMatchState
  
  LockExclusion
  RangesBacked
PROPERTIES
  RevokedOnlyWhenLapsed
  LeasedSpec
CHECK_DEADLOCK FALSE
