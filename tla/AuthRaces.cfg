SPECIFICATION Spec
CONSTANTS
  q1 = q1  q2 = q2  q3 = q3  q4 = q4  q5 = q5  q6 = q6
  Reqs = {q1, q2, q3, q4}
  MaxInFlight = 3
  Faults = {"db", "answer"}
SYMMETRY Symmetry
INVARIANTS AccountInv FamilyInv OldPasswordIsOut
CHECK_DEADLOCK FALSE
