CONSTANTS
  MAXLEVEL = 4
  QMAXLEVEL = 3
  NumProcs = 3
  Forests = "reversed"
  Inputs <- MCInputs
SPECIFICATION FairSpec
PROPERTIES GhostEnds
CHECK_DEADLOCK FALSE
