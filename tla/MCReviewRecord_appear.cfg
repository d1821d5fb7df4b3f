SPECIFICATION Spec
ACTION_CONSTRAINT Bound
CHECK_DEADLOCK FALSE
CONSTANTS
  s1 = s1
  Session = {s1}
  u1 = u1
  Unit = {u1}
  MaxBirths = 1
  MaxSaved = 0
INVARIANT SelectedMayAppear
