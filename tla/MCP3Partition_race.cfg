CONSTANTS
  CHILDREN = 4
  QMAXLEVEL = 2
  NumProcs = 3
  Requests = "weighted_families"
  Cases <- MCCases
SPECIFICATION Spec
INVARIANT RangesAgree
CHECK_DEADLOCK FALSE
