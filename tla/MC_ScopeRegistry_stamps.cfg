CONSTANTS
  ScopeIDs = {s1, s2}
  Keys = {k1, k2}
  Vals = {v1, v2}
  EmptyID = EmptyID
  NilRef = NilRef
  Absent = Absent
  Unset = Unset
  MaxClock = 3
SYMMETRY MCSymmetry
INIT RegInit
NEXT RegNext
PROPERTY
  RegisterStampsEqual
