SPECIFICATION Spec
CONSTANTS
  Handle = {h1, h2}
  Native = {p1, p2}
  Value = {v1}
  Worker = {w1}
  Pinning = {w1}
  Cursor = {}
  None = None
  Unguarded <- AsyncOnView
SYMMETRY Symmetry
CHECK_DEADLOCK FALSE
INVARIANT WorkersReadUndisturbed
