SPECIFICATION Spec
CONSTANTS
  Procs = {p1, p2}
  Workers = {w1}
  Resolutions = {r1}
  short = short
  long = long
  Routes = {short, long}
  TTL <- FarTTL
  Longest = 6
  RoleTTL = 1
  Threshold = 1
  CircuitTTL = 1
  MaxSince = 6
  MaxSets = 1
  NoRole = NoRole
  None = None
INVARIANT EditsTakeEffect
CHECK_DEADLOCK FALSE
