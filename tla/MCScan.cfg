SPECIFICATION Spec
SYMMETRY Sym
ACTION_CONSTRAINT OnePageChanges
CHECK_DEADLOCK FALSE
CONSTANTS
  Kinds = {"answer", "foreign", "misnamed", "garbled", "blank", "unissued"}
  MaxRuns = 2
  Session = {s1, s2}
  Route = {r1, r2}
  Elsewhere = r2
  MaxDecisions = 2
  Occurrence = {o1, o2}
  Student = {ann, bo}
  MaxTime = 5
  Creator = {"c1", "c2"}
  MaxFaults = 2
INVARIANTS
  TypeOK SheetsAccounted WhatIsRecordedStands
PROPERTIES
  NothingIsOverridden
