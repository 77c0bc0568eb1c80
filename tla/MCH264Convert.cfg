\* Files of up to six units through a buffer that holds four or five.
SPECIFICATION Spec
CONSTANTS
  BufferSize = 30
  MaxUnits = 6
  Stale = {0, 1, 2}
  Units <- MCUnits
INVARIANTS
  TypeOK
  FitsBuffer
  InOrder
  DamageOnlyAtSeams
  SmallFileIsPrefix
\* The program ends.
CHECK_DEADLOCK FALSE
