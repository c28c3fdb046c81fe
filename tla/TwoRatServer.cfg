SPECIFICATION SenderSpec
CONSTANTS
  BUFFER_SIZE = 30
  SEND_BUFFER_SIZE = 6
  RX_BUFFER_SIZE = 6
  EXP_RX_SIZE = 20
  WORD = 2
  Grain = 1
  JunkTotals = {0}
  CAP = 0
INVARIANTS
  TypeOK
  ReadsInitialised
PROPERTY
  SendsWindow
CHECK_DEADLOCK FALSE
