SPECIFICATION Spec
CONSTANTS
  Handle = {h1, h2}
  Native = {p1, p2, p3}
  Value = {}
  Worker = {w1, w2}
  Pinning = {w1}
  Cursor = {}
  None = None
  Unguarded <- Uses
SYMMETRY Symmetry
CHECK_DEADLOCK FALSE
INVARIANTS
  Ownership
  FreezeBalance
PROPERTY NeverUnfrozen
