CONSTANTS
  Threads = {t1, t2}
  ScopeIDs = {s1}
  Keys = {k1}
  Vals = {v1, v2}
  BoundaryIDs = {b1}
  EmptyID = EmptyID
  NilRef = NilRef
  Absent = Absent
  Unset = Unset
  MaxClock = 2
  MaxAtoms = 3
  MaxLinks = 0
  MaxBoundaries = 1
  MaxMembers = 1
SYMMETRY MCSymmetry
INIT IntInit
NEXT IntNext
INVARIANTS
  NoUnlockedAttributesWrite
