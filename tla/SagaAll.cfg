SPECIFICATION FairSpec
CONSTANT
  N = 4
INVARIANTS
  LIFO
  RollbackComplete
PROPERTY
  Returns
CHECK_DEADLOCK FALSE
