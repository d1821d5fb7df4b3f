\* Two sessions, edits while they read, a revision removed by hand, one fault.
SPECIFICATION Spec
CONSTANTS
  s1 = s1
  s2 = s2
  Session = {s1, s2}
  NoOne = NoOne
  Stale = Stale
  NStudents = 1
  Restorable = {0}
  MaxEdits = 2
  MaxRevisions = 3
  MaxRemovals = 1
  MaxFaults = 1
SYMMETRY Symmetry
ACTION_CONSTRAINT Revisions
INVARIANTS TypeOK LockExcludes CoherentSnapshot NothingUnsaid
PROPERTIES ImplementsLog
\* Generation stops at the bound on revisions, or behind a stale lock.
CHECK_DEADLOCK FALSE
