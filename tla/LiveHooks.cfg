SPECIFICATION FairSpec
CONSTANTS
  s1 = s1  s2 = s2  h1 = h1  h2 = h2  h3 = h3  h4 = h4
  Streams = {s1, s2}
  Hooks = {h1, h2, h3}
  MaxFaults = 1
INVARIANTS StreamInv OffAirIsNotLive
PROPERTIES EndedIsKept EndedIsCleaned
CHECK_DEADLOCK FALSE
