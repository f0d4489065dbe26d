SPECIFICATION FairSpec
CONSTANTS
  w1 = w1
  w2 = w2
  c1 = c1
  c2 = c2
  WireCap = 2
  Faults = {"clean", "torn"}
  Sticky = FALSE
  Writers = {w1}
  Closers = {c1}
  Queue = 1
  NoPad = FALSE
  MaxCells = 3
  MaxFramed = 3
PROPERTIES WritesReturn CloseReturns Delivered
CHECK_DEADLOCK FALSE
