SPECIFICATION FairSpec
CONSTANTS
  Writers = {t1}
  Workers = {w1, w2}
  ChanCap = 1
  NetCap = 1
  MaxConns = 2
  MaxFrames = 1
  MaxSends = 1
PROPERTIES
  CERSent
  WatchdogRepliedTo
  EverythingDrains
  Reconnects
