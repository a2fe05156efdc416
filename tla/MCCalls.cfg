CONSTANTS
  CHILDREN = 4
  QMAXLEVEL = 2
  NumProcs = 3
  WordBefore = 33
  Forests = "large"
  Cases <- MCCases
  Calls <- MCSearches
  MaxLocal = 2
  MaxWeight = 2
  MaxCount = 5
  MaxKey = 3
SPECIFICATION MCSpec
INVARIANTS WindowsExact RangeHolds BuiltRight CornersExact TransformsAgree
PROPERTIES CallsEnd
CHECK_DEADLOCK FALSE
