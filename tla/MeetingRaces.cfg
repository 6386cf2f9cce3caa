SPECIFICATION Spec
CONSTANTS
  Meetings = {m1, m2}
  Events = {e1, e2}
  Users = {u1, u2}
  Times = {t1}
  Workers = {w1, w2}
  None = None
  Ops <- RaceOps
  Claims <- MainClaims
INVARIANT TypeOK
INVARIANT StatusIsBacked
INVARIANT MinutesFollowCompletion
INVARIANT EventIsOwn
CHECK_DEADLOCK FALSE
SYMMETRY Symmetry
