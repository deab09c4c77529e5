SPECIFICATION Spec
CONSTANTS
  t1 = t1
  t2 = t2
  Callers = {t1, t2}
  Setups <- TwoWriters
  Lens = {1}
  Times <- OneTime
  MaxRuns = 1
  BufSiz = 1
INVARIANT RoomWhenWritten
