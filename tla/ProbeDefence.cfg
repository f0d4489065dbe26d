SPECIFICATION FairSpec
CONSTANTS
  k1 = k1
  x1 = x1
  z1 = z1
  Conns = {k1}
  Kinds <- AllKinds
  Acceptors = {x1}
  Closers = {z1}
  SecretLen = 2
  Dest = TRUE
  AcceptFaults = TRUE
  DialFaults = TRUE
  MaxUnits = 6
  SniCheck = TRUE
  Fallback = TRUE
INVARIANTS ReplayIntact Transparent DeadlineOff NothingLeft OnlyAuthed
PROPERTIES Classified SpliceEnds CloseReleases
CHECK_DEADLOCK FALSE
