CONSTANTS
  AtomIDs = {a1, a2}
  TensorIDs = {t1, t2}
  BoundaryIDs = {b1}
  AttrKeys = {k1}
  AttrVals = {v1}
  EmptyID = EmptyID
  NilRef = NilRef
  Absent = Absent
  Unset = Unset
  MaxAtoms = 3
  MaxLinks = 2
  MaxBoundaries = 2
  MaxMembers = 1
SYMMETRY MCSymmetry
INIT SpaceInit
NEXT SpaceNext
INVARIANTS
  SpaceTypeOK
  LinksJoinAtoms
