CONSTANTS
  ScopeIDs = {s1, s2}
  PeerIDs = {p1, p2}
  EmptyID = EmptyID
  NilRef = NilRef
  Absent = Absent
  MaxClock = 2
  MaxScopeList = 2
  MaxIndexLen = 2
SYMMETRY MCSymmetry
INIT NetInit
NEXT NetNext
INVARIANTS
  NetTypeOK
  DiscoverComplete
