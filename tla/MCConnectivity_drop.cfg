CONSTANTS
  MAXLEVEL = 2
  PointLevel = 1
  Starts <- DropStarts
SPECIFICATION Spec
INVARIANTS DirectionsMatch
CHECK_DEADLOCK FALSE
