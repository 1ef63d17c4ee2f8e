SPECIFICATION Spec
CONSTANTS
  c1 = c1  c2 = c2  c3 = c3  u1 = u1  u2 = u2
  Clients = {c1}
  UserOf <- MCUserOf
  BufSize = 1
  MaxEvents = 3
  MaxPrivate = 0
  RedisFails = FALSE
INVARIANTS EvictionIsLocal
CHECK_DEADLOCK FALSE
