SPECIFICATION Spec
CONSTANTS
  BUFFER_SIZE = 24
  RX_BUFFER_SIZE = 6
  EXP_RX_SIZE = 14
  WORD = 2
  Grain = 1
  JunkTotals <- MCJunkTotals

INVARIANTS
  TypeOK
  CountsExact
  NoOverwrite
