SPECIFICATION MCSpec
CHECK_DEADLOCK FALSE
CONSTANTS
  Sharer = {"t"}
  MaxEvents = 3
  Teacher = {"t1", "t2"}
  Preset = {"p"}
  Config = {1, 2}
  MaxPlans = 2
  MaxEdits = 2
  Writer = {"w1", "w2"}
  Limit = 1
INVARIANTS MCTypeOK 
 
