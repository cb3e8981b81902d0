SPECIFICATION Spec
CONSTANTS
  Writers = {t1, t2}
  Workers = {w1, w2}
  ChanCap = 1
  NetCap = 2
  MaxConns = 2
  MaxFrames = 2
  MaxSends = 1
SYMMETRY Symmetry
INVARIANTS
  TypeOK
  CauseBeforeWrite
  EstablishedIsUp
  NoInternalDeadlock
PROPERTIES
  NoLossWhileEstablished
  ReadsFrames
  FramesHandedOffOnce
  MessagesHandedOffOnce
