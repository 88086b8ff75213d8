SPECIFICATION Spec
CONSTANTS
  Handle = {h1, h2, h3}
  Native = {p1, p2, p3}
  Value = {v1}
  Worker = {w1}
  Pinning = {w1}
  Cursor = {}
  None = None
  Unguarded <- ReplaceUnderView
SYMMETRY Symmetry
CHECK_DEADLOCK FALSE
INVARIANT ViewFollowsBitmap
