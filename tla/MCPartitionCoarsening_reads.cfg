CONSTANTS
  CHILDREN = 4
  QMAXLEVEL = 2
  NumProcs = 3
  WordBefore = 33
  Forests = "small"
  Cases <- MCCases
SPECIFICATION FairSpec
INVARIANTS ReadsInBounds
CHECK_DEADLOCK FALSE
