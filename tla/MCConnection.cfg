SPECIFICATION Spec
CONSTANTS
  Kinds = {"nfs", "9p"}
  Tags = {1, 2, 3}
  Sizes = {1, 2}
  Ceilings = {2}
  Window = 2
  HighWater = 2
  MaxRecord = 2
  MaxFrame = 1
  MaxFragments = 2
  MaxSent <- MCMaxSent
  Pieces = {1, 16}
INVARIANT RecordsAreTheRequests
INVARIANT WindowHolds
INVARIANT TagsAreSettled
INVARIANT FramesWithinTheLimit
PROPERTY EveryRequestIsAnswered
CHECK_DEADLOCK FALSE
