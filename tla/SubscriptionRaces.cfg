SPECIFICATION Spec
CONSTANTS
  Orgs = {o1, o2}
  Subs = {s1, s2}
  Rows = {r1, r2}
  Workers = {w1, w2}
  None = None
  Nobody = Nobody
  MaxRev = 1
  InOrder = FALSE
  BodyNotes <- AnyNotes
  Ops <- RaceOps
  RzSteps <- RaceRzSteps
INVARIANT TypeOK
INVARIANT RecordsAreOwnSnapshots
PROPERTY OnlyRestoreRevives
PROPERTY ImplementsLedger
CHECK_DEADLOCK FALSE
SYMMETRY Symmetry
