SPECIFICATION Spec
CHECK_DEADLOCK FALSE
CONSTANTS
  FileOf <- TwoFiles
  StudentOf <- TwoStudents
  Kinds = {"answer", "foreign", "misnamed", "garbled", "blank", "unissued"}
  MaxRuns = 2
  MaxFaults = 2
INVARIANT EveryFailureIsListed
