SPECIFICATION Spec
CONSTANTS
  Meetings = {m1}
  Events = {e1}
  Users = {u1}
  Times = {t1}
  Workers = {w1, w2}
  None = None
  Ops <- LifecycleCalls
  Claims <- NoClaims
PROPERTY TerminalStays
CHECK_DEADLOCK FALSE
