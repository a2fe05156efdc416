CONSTANTS
  MAXLEVEL = 4
  QMAXLEVEL = 3
  NumProcs = 3
  Forests = "bowtie"
  Inputs <- MCInputs
SPECIFICATION FairSpec
INVARIANTS OwnedIsAlone
CHECK_DEADLOCK FALSE
