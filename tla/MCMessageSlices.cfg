SPECIFICATION Spec
CONSTANTS
  Messages = {m1, m2}
  Lists = {l1}
  Workers = {w1, w2}
  MaxSpare = 2
  MaxOps = 6
SYMMETRY Symmetry
CHECK_DEADLOCK FALSE
INVARIANTS
  EncodedAsSent
  OwnContents
