SPECIFICATION FairSpec
CONSTANTS
  Registry = registry
  Producers = {p1}
  Lens = {1}
  MaxPush = 1
  Confs <- OnlyShipped
  AsyncTypes <- OnlySafe
  IntMod = 8
  SizeMod = 64
  MaxVec = 31
PROPERTY PushReturns
