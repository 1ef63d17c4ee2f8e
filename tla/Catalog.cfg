SPECIFICATION Spec
CONSTANTS
  q1 = q1  q2 = q2  q3 = q3  q4 = q4
  v1 = v1  v2 = v2  c1 = c1  c2 = c2  a1 = a1
  Reqs = {q1, q2, q3, q4}
  Viewers = {v1, v2}
  Conns = {c1, c2}
  Address <- OneAddress
  Forwarded = {c1}
  TopLimit = 1
  ReplyLimit = 1
  MaxExpiries = 1
  Faults = {"db", "index", "storage", "redis"}
SYMMETRY Symmetry
INVARIANTS CatalogInv IndexAgrees CountsAreTrue RepliesAreAllowed
PROPERTIES ShownStays
CHECK_DEADLOCK FALSE
