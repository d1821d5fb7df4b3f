SPECIFICATION ReviewSpec
SYMMETRY Symmetry
ACTION_CONSTRAINT ReviewBounds
CHECK_DEADLOCK FALSE
CONSTANTS
  e1 = e1
  Editor = {e1}
  u1 = u1
  u2 = u2
  Unit = {u1, u2}
  MaxBirths = 2
  MaxSaved = 1
  FewUnits = {u1}
  a = a
  b = b
  Standard = {a, b}
INVARIANTS ReviewTypeOK  PublishedAsShown
