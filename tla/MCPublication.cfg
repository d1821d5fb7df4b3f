\* Two sessions on one series, teachers and faults in between.
SPECIFICATION FairSpec
CONSTANTS
  s1 = s1
  s2 = s2
  Session = {s1, s2}
  MaxRevision = 3
  MaxPubs = 3
  MaxReg = 2
  MaxFaults = 2
  LockMayStay = TRUE
ACTION_CONSTRAINT Bounds
INVARIANTS TypeOK SeriesIsChain AnswersAreTrue RepeatedOnceAndShown
PROPERTIES FirstRetrySucceeds
\* The bounds on revisions and records end the behaviour.
CHECK_DEADLOCK FALSE
