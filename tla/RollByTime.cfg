SPECIFICATION Spec
CONSTANTS
  t1 = t1
  t2 = t2
  Makers = {t1, t2}
  Root <- SomeRoot
  Cwd <- Home
  Times <- SomeTimes
  Wrap = 1000000
  Setups <- SomeSetups
  MaxRecords = 3
  MaxTicks = 3
CHECK_DEADLOCK FALSE
INVARIANT TypeOK
INVARIANT ConstructorsSucceed
INVARIANT WindowKept
INVARIANT RecordsKept
