SPECIFICATION Spec
CONSTANTS
  BUFFER_SIZE = 36
  SEND_BUFFER_SIZE = 4
  RX_BUFFER_SIZE = 4
  EXP_RX_SIZE = 4
  WORD = 2
  Grain = 2
  JunkTotals = {0}
  Cap <- MCCap
  JunkSeqnos <- MCJunkSeqnos
PROPERTY MovesTowardsEnd
CHECK_DEADLOCK FALSE
