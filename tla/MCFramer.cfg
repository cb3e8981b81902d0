SPECIFICATION FairSpec
CONSTANTS
  HeadLen = 2
  MaxLen = 3
  ReadMax = 4
  Capacity = 5
  MaxSpare = 1
  MaxFrames = 3
  MaxConns = 2
INVARIANTS
  TypeOK
  PartsIntact
  ReadsOnlyForMore
PROPERTIES
  ReadsFrames
  EveryFrameHandedOn
