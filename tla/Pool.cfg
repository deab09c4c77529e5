SPECIFICATION FairSpec
CONSTANTS
  Clients = {c1, c2}
  Workers = {w1, w2}
  Pools <- AnyPool
  MaxTasks = 2
INVARIANT TypeOK
INVARIANT NoLostWakeup
INVARIANT StopReachesAll
INVARIANT RunsOnce
INVARIANT QueueBounded
PROPERTY ExecutorSpec
PROPERTY FutureReturns
PROPERTY DestructorReturns
