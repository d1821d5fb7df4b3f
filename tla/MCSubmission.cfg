CONSTANTS
  s1 = s1
  s2 = s2
  Session = {s1, s2}
  Pages = 2
  MaxObs = 3
  Issuances = 2
SPECIFICATION Spec
SYMMETRY Sessions
ACTION_CONSTRAINT StaysInCases
INVARIANTS
  TypeOK
  ManifestSound
  InboxCoversNewest
PROPERTIES
  AssemblyKeepsDecisions
