SPECIFICATION Spec
CONSTANTS
  Orgs = {o1}
  Subs = {s1, s2}
  Rows = {r1, r2}
  Workers = {w1}
  None = None
  Nobody = Nobody
  MaxRev = 2
  InOrder = TRUE
  BodyNotes <- NoNotes
  Ops <- DeletionOps
  RzSteps <- FewRzSteps
INVARIANT RestoreIsPossible
CHECK_DEADLOCK FALSE
