SPECIFICATION Spec
CONSTANTS
  q1 = q1  q2 = q2  q3 = q3
  Reqs = {q1, q2, q3}
  Faults = {"db"}
SYMMETRY Symmetry
INVARIANTS ActionInv DeletionHasCause
PROPERTIES DecisionIsFinal
CHECK_DEADLOCK FALSE
