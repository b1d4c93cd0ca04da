SPECIFICATION Spec
CONSTANTS
  Lengths = {0, 3}
  Counts = {0, 2}
  Contexts <- MCContexts
  Cuts = {0, 1, 4}
INVARIANTS
  RoundTrips
  SizesAgree
  CutShortIsRefused
CHECK_DEADLOCK FALSE
