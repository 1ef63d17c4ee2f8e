SPECIFICATION FairSpec
CONSTANTS
  j1 = j1  j2 = j2  w1 = w1  w2 = w2  p1 = p1  p2 = p2
  Jobs = {j1}
  MaxAttempts = 3
  Workers = {w1}
  Procs = {p1, p2}
  WorkerOf <- OneProcess
  Corrupt = {}
  Faults = {"db", "storage", "ffmpeg", "search", "rawgone"}
  PosterColumn = TRUE
INVARIANTS NoJobForgotten
PROPERTIES Settles
CHECK_DEADLOCK FALSE
