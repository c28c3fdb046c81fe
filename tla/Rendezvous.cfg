SPECIFICATION Spec
CONSTANTS
  RATS = 3
  BACKLOG = 1
  RUNS = 4

INVARIANTS
  TypeOK
  NoneLost
  StaleOnlyFirst
PROPERTY
  Meets
CHECK_DEADLOCK FALSE
