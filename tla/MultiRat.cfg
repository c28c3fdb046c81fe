SPECIFICATION Spec
CONSTANTS
  BUFFER_SIZE = 36
  SEND_BUFFER_SIZE = 4
  RX_BUFFER_SIZE = 4
  EXP_RX_SIZE = 2
  WORD = 2
  Grain = 2
  JunkTotals <- MCJunkTotals
  Cap <- MCCap
  JunkSeqnos <- MCJunkSeqnos
INVARIANTS
  TypeOK
  RebalanceIdle
  StreamsOrdered
  StrayBounded
PROPERTIES
  SpareIntsKept
  ProgramsEnd
CHECK_DEADLOCK FALSE
