CONSTANTS
  CHILDREN = 4
  QMAXLEVEL = 2
  Calls <- MCCoarsenings
SPECIFICATION MCSpec
INVARIANTS ConsecutiveIdsAreFamily ResultCorrect EveryQuadrantShown PairRelated PairCompared PairBuilt WrapCurrent NewlyRight WindowKept SearchSound
PROPERTIES ImplementsAbs AdaptsAsMarked LocalEnds
CHECK_DEADLOCK FALSE
