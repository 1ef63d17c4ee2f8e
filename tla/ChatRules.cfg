SPECIFICATION Spec
CONSTANTS
  m1 = m1  m2 = m2  q1 = q1  q2 = q2
  Msgs = {m1, m2}
  Mods = {q1, q2}
  HistoryLimit = 1
  Faults = {"db", "redis"}
SYMMETRY Symmetry
INVARIANTS AnnouncedInv RulesBind ViewerAgrees
CHECK_DEADLOCK FALSE
