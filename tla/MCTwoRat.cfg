SPECIFICATION Spec
CONSTANTS
  BUFFER_SIZE = 14
  SEND_BUFFER_SIZE = 4
  RX_BUFFER_SIZE = 4
  EXP_RX_SIZE = 6
  WORD = 2
  Grain = 2
  JunkTotals <- MCJunkTotals
  CAP = 4
INVARIANTS
  TypeOK
  StreamsOrdered
PROPERTIES
  ReceivesWindow
  WindowsTurn
