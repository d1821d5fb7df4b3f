\* Two fair processes create and update one record under two lock purposes; two faults;
\* with callers that create the record and without.
SPECIFICATION MCSpec
CONSTANTS
  w1 = w1
  w2 = w2
  Writer = {w1, w2}
  a = a
  b = b
  Content = {a, b}
  Purpose = {"review-update", "low-level-review-update"}
  MayCreate = TRUE
  MaxFaults = 2
  Absent = Absent
  Free = Free
  Stale = Stale
INVARIANTS TypeOK OneHolder
PROPERTIES UpdatesAreRegister EveryCallReturns
\* With no creator the record may be missing for good after a death.
CHECK_DEADLOCK FALSE
