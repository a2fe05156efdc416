CONSTANTS
  NumProcs = 3
  NumTrees = 3
  Quadrants = 4
  Forests <- MCForests
SPECIFICATION FairSpec
INVARIANTS SendsMatchReceives EveryReceiveServed PartsCorrect
PROPERTIES EndsAgreed
CHECK_DEADLOCK FALSE
