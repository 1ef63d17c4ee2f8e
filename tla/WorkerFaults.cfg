SPECIFICATION Spec
CONSTANTS
  j1 = j1  j2 = j2  w1 = w1  w2 = w2  p1 = p1  p2 = p2
  Jobs = {j1}
  MaxAttempts = 3
  Workers = {w1, w2}
  Procs = {p1, p2}
  WorkerOf <- TwoProcesses
  Corrupt = {}
  Faults = {"db", "redis", "storage", "ffmpeg", "search", "api", "rawgone", "crash", "shutdown"}
  PosterColumn = TRUE
SYMMETRY Swap
INVARIANTS TypeOK JobMutex AttemptsBounded MediaBacked DeadStaysDead
PROPERTIES RowsAdvance ImplementsLifecycle
CHECK_DEADLOCK FALSE
