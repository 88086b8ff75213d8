SPECIFICATION Spec
CONSTANTS
  Handle = {h1}
  Native = {p1}
  Value = {v1}
  Worker = {w1}
  Pinning = {w1}
  Cursor = {}
  None = None
  Unguarded <- LayoutOnSoftFrozen
SYMMETRY Symmetry
CHECK_DEADLOCK FALSE
INVARIANT WorkersReadUndisturbed
