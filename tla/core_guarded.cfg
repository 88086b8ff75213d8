SPECIFICATION Spec
CONSTANTS
  Handle = {h1, h2}
  Native = {p1, p2, p3}
  Value = {v1}
  Worker = {w1, w2}
  Pinning = {w1}
  Cursor = {c1}
  None = None
  Unguarded <- NoUses
SYMMETRY Symmetry
CHECK_DEADLOCK FALSE
INVARIANTS
  TypeOK
  WorkersReadUndisturbed
  CursorsDetectChange
  SizeCacheCoherent
PROPERTY FrozenForeverUnchanged
