SPECIFICATION BufferSpec
CONSTANTS
  BUFFER_SIZE = 24
  SEND_BUFFER_SIZE = 6
  RX_BUFFER_SIZE = 6
  EXP_RX_SIZE = 14
  WORD = 2
  Grain = 2
  JunkTotals = {0}
  CAP = 10
  Empty = empty
CONSTRAINT FirstWindowOnly
INVARIANT ReceivedCheck
