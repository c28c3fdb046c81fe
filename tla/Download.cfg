SPECIFICATION Spec
CONSTANTS
  BUFFER_SIZE = 6
  RX_BUFFER_SIZE = 2
  WORD = 2
  TAIL = 1
  error = 3
  Junk = {4}
  Sizes = {1, 10}
  COMMANDS = 3
  BLOCK = 5
  CAP = 12

INVARIANTS
  TypeOK
  CompleteEnough
  OvershootBounded
  BacklogBounded
PROPERTY
  SessionEnds
