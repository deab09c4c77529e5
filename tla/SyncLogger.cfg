SPECIFICATION FairSpec
CONSTANTS
  c1 = c1
  c2 = c2
  Callers <- SomeCallers
  Jobs <- SomeJobs
  MaxCalls = 2
  Levels = {0, 1, 3}
  Limits = {1}
  Lens = {1, 2}
  BufSize = 2
  Retries = 2
  Backlog = 1
  MaxFds = 2
  MaxStops = 1
  Sinks = 2
  Workers = 2
CHECK_DEADLOCK FALSE
INVARIANT TypeOK
INVARIANT SavedOnce
INVARIANT SinksAgree
INVARIANT BackedUpFirst
PROPERTY WrittenIsSaved
PROPERTY CallReturns
