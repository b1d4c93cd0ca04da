CONSTANTS
  w1 = w1
  w2 = w2
  o1 = o1
  o2 = o2
  Owners = {w1, w2}
  Opens = {o1, o2}
  MaxFileLen = 3
  MaxLocksPerFile = 4
SYMMETRY Symmetry
SPECIFICATION Spec
INVARIANTS
  ListIsTheBytes
  DeniedByBytes
