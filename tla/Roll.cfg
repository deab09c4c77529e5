SPECIFICATION Spec
CONSTANTS
  t1 = t1
  t2 = t2
  Callers = {t1, t2}
  Setups <- AnySetup
  Lens = {0, 1, 2}
  Times <- SomeTimes
  MaxRuns = 2
  BufSiz = 1
INVARIANT TypeOK
INVARIANT FilesAlive
INVARIANT SizeBounded
INVARIANT RollsInOrder
INVARIANT NamesFresh
