SPECIFICATION Spec
CONSTANTS
  Registry = registry
  Producers = {p1}
  Lens = {1}
  MaxPush = 1
  Confs <- OnlyShipped
  AsyncTypes <- OnlyUnsafe
  IntMod = 8
  SizeMod = 64
  MaxVec = 31
INVARIANT EnoughRoom
