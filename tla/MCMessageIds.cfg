SPECIFICATION Spec
CONSTANTS
  Workers = {w1, w2}
  IdMod = 3
  OwnIds = {0, 2}
  MaxMessages = 4
SYMMETRY Symmetry
INVARIANTS
  TypeOK
  DistinctUnlessOverlapped
  InWindow
