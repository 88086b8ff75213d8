SPECIFICATION Spec
CONSTANTS
  Iterator = {i1, r2}
  Reversed = {r2}
  Bitmap = {b1}
  Value = {1, 2, 3}
  Array = {a1}
  ArrayLen = 2
  None = None
  DefaultLen = 2
  MaxLen = 3
  PoolMax = 1
  MaxVersion = 1
  Halves = {0, 1, 7}
  Lent = FALSE
CHECK_DEADLOCK FALSE
INVARIANTS
  TypeOK
  BuffersExclusive
  CallbackIndex
PROPERTIES
  BuffersComeBack
  HelpersEnd
  ImplementsOrderedIteration
