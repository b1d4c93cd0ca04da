CONSTANTS
  t1 = t1
  t2 = t2
  w1 = w1
  w2 = w2
  Tasks = {t1, t2}
  Owners = {w1, w2}
  MaxOther = 3
  MaxHandles = 3
  MaxSeqid = 3
  Orderly = TRUE
SYMMETRY Symmetry
SPECIFICATION Spec
INVARIANTS
  HandlesMatchStates
  GrantIsBacked
CHECK_DEADLOCK FALSE
