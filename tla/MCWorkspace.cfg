SPECIFICATION Spec
CHECK_DEADLOCK FALSE
CONSTANTS
  Session = {"t"}
  Roster <- MCStudents
  MaxExtras = 1
  Teacher = {"t1", "t2"}
  Class <- MCClass
  MaxVersion = 2
  Editor = {"e1", "e2"}
  MaxSaves = 4
  Reporter = {"r1", "r2"}
  Roll <- MCStudents
  Record <- MCRecord
  MaxExports = 2
  MaxEdits = 1
INVARIANTS TypeOK 
PROPERTIES GuidanceAdvances 
