SPECIFICATION Spec
CONSTANTS
  Callers = {t1}
  Lens = {1}
  MaxCalls = 1
  FlushModes = {2}
  BufSiz = 3
  MaxRuns = 1
INVARIANT SyncedSurvives
