CONSTANTS
  s1 = s1
  k1 = k1
  k2 = k2
  k3 = k3
  Slots = {s1}
  Calls = {k1, k2, k3}
  Asks <- MCAsks
  SeqMod = 3
  MaxReq = 4
SYMMETRY Symmetry
SPECIFICATION Spec
INVARIANTS
  ExactlyOnce
  RepliesAgree
CHECK_DEADLOCK FALSE
