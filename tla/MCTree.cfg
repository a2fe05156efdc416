CONSTANTS
  CHILDREN = 2
  QMAXLEVEL = 3
  NumberToRead = 2
  Inputs <- MCInputs
  Callbacks <- MCCallbacks
  NoQuadrant = NoQuadrant
  FlatStride = 34
  SolidStride = 61
SPECIFICATION MCSpec
INVARIANTS UnreadIntact LoopEndAssertions ResultCorrect BalancedLeast TreeFollows SeedsSuffice WordsAgree IterationRight
PROPERTIES ImplementsAbs RefineReturns
