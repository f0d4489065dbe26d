SPECIFICATION FairSpec
CONSTANTS
  w1 = w1
  w2 = w2
  c1 = c1
  c2 = c2
  WireCap = 1
  Faults = {"clean", "torn"}
  Sticky = TRUE
  Writers = {w1, w2}
  Closers = {c1, c2}
  CoverEvery = TRUE
  MaxCount = 1
  MaxCells = 2
  MaxFramed = 2
INVARIANTS TypeOK LoopsQuiet
PROPERTIES StreamSpec WritesReturn CloseReturns CoverComes
CHECK_DEADLOCK FALSE
