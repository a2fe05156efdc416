CONSTANTS
  NumProcs = 3
  Patterns <- MCPatterns
SPECIFICATION MCSpec
INVARIANTS LayersRight NothingLeft RangesAgree TransferRight PertreeRight ReducedRight
PROPERTIES ParallelEnds
CHECK_DEADLOCK FALSE
