CONSTANTS
  DIM = 2
  MAXLEVEL = 3
SPECIFICATION Spec
INVARIANTS YxParentsAreParents
CHECK_DEADLOCK FALSE
