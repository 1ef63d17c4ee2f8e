SPECIFICATION FairSpec
CONSTANTS
  c1 = c1  c2 = c2  c3 = c3  u1 = u1  u2 = u2
  Clients = {c1, c2}
  UserOf <- MCUserOf
  BufSize = 1
  MaxEvents = 2
  MaxPrivate = 1
  RedisFails = FALSE
INVARIANTS RoomsInv InOrderAtMostOnce NothingLeaks PanicNeedsEviction
PROPERTIES EvictedLeaves Delivered
CHECK_DEADLOCK FALSE
