SPECIFICATION FairSpec
CONSTANTS
  Procs = {p1}
  Workers = {w1, w2}
  Resolutions = {r1, r2}
  short = short
  long = long
  Routes = {short}
  TTL <- OneTTL
  Longest = 2
  RoleTTL = 1
  Threshold = 2
  CircuitTTL = 1
  MaxSince = 0
  MaxSets = 1
  NoRole = NoRole
  None = None
INVARIANT TypeOK
INVARIANT FreshEnough
INVARIANT OnlyCurrentJoined
PROPERTY RequestsEnd
CHECK_DEADLOCK FALSE
