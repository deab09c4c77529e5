SPECIFICATION FairSpec
CONSTANTS
  Registry = registry
  Producers = {p1, p2}
  Lens = {0, 2}
  MaxPush = 2
  Confs <- AllConfs
  AsyncTypes <- BothTypes
  IntMod = 8
  SizeMod = 64
  MaxVec = 31
INVARIANT TypeOK
INVARIANT Conservation
INVARIANT PeekUnraced
INVARIANT NoOverrun
INVARIANT StarvedByThreshold
PROPERTY ChannelSpec
PROPERTY Drains
PROPERTY StopReturns
