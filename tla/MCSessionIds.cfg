SPECIFICATION SessionSpec
CONSTANTS
  Callers = {g1, g2, g3}
  RunMod = 3
  StartTimes = {s1, s2}
  MaxIds = 4
  MaxInstances = 2
SYMMETRY Symmetry
INVARIANTS
  SessionTypeOK
  SessionIdsDistinct
