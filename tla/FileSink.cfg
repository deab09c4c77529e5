SPECIFICATION Spec
CONSTANTS
  Callers = {t1, t2}
  Lens = {1, 2}
  MaxCalls = 2
  FlushModes = {0, 1, 2}
  BufSiz = 3
  MaxRuns = 2
INVARIANT TypeOK
INVARIANT CleanRunKeepsAll
INVARIANT FlushedSurvives
