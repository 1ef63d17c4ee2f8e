SPECIFICATION Spec
CONSTANTS
  q1 = q1  q2 = q2  q3 = q3  q4 = q4
  Reqs = {q1, q2, q3}
  ByteSize = 2
  Small = TRUE
  MaxInFlight = 3
  Faults = {"db", "storage", "infected", "presign", "queue"}
SYMMETRY Symmetry
INVARIANTS SessionInv PatientUpload
PROPERTIES EndedIsFinal
CHECK_DEADLOCK FALSE
