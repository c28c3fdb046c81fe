SPECIFICATION Spec
CONSTANTS
  Byte = {a, b, c}
  Old = old
  MaxLen = 4
  Room = 5
  SizeMod = 8
CHECK_DEADLOCK FALSE
INVARIANTS
  TypeOK
  Reverses
  CutAnywhere
