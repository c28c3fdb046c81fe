SPECIFICATION Spec
CONSTANTS
  INT_MAX = 15
  BUFFER_SIZE = 11
  RX_BUFFER_SIZE = 2
  HEADER = 1
  TAIL = 1
  MAX_NO_OF_TRIALS = 2
  Sizes = {1, 3, 9, 14}
  Seqnos <- MCSeqnos
  Junk = {0, 4}

INVARIANTS
  TypeOK
  CountedOnce
  FileMissesLittle
  WigigIdleInLargeFiles
PROPERTY
  EndsWithSession
CHECK_DEADLOCK FALSE
