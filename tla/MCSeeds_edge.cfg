CONSTANTS
  DIM = 3
  MAXLEVEL = 6
  Starts <- DeepStarts
SPECIFICATION Spec
INVARIANTS SeedsSuffice
CHECK_DEADLOCK FALSE
