\* Two sessions generate packets, one after the other or at the same time; or
\* persist two pages, one of them foreign at times, in two renderings.
SPECIFICATION Spec
ACTION_CONSTRAINT Faults
\* Generation stops for good once the bound on generations is reached, or
\* once a leftover blocks the selection of predecessors.
CHECK_DEADLOCK FALSE
CONSTANTS
  s1 = s1
  s2 = s2
  Session = {s1, s2}
  NStudents = 2
  MaxGen = 3
  MaxEdits = 1
  MaxFaults = 2
  p1 = p1
  f = f
  Page = {p1, f}
  Foreign = {f}
  r1 = r1
  r2 = r2
  Rendering = {r1, r2}
  Absent = Absent
INVARIANTS TypeOK PrintedIsScannable LineageIsKept AnswersNameLeftovers
PROPERTIES Implements Answers
