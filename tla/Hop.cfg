SPECIFICATION FairSpec
CONSTANTS
  k1 = k1
  k2 = k2
  x1 = x1
  x2 = x2
  z1 = z1
  z2 = z2
  mk = mk
  Maker = mk
  N = 2
  Conns = {k1, k2}
  Acceptors = {x1, x2}
  Closers = {z1, z2}
  BindFaults = TRUE
  AcceptFaults = TRUE
  Windows <- SomeWindows
INVARIANTS NothingBound HopLands
PROPERTIES HandoverSpec CloseReleases
CHECK_DEADLOCK FALSE
