SPECIFICATION Spec
CONSTANTS
  w1 = w1
  w2 = w2
  c1 = c1
  c2 = c2
  WireCap = 2
  Faults = {}
  Sticky = TRUE
  Writers = {w1}
  Closers = {c1}
  Queue = 2
  NoPad = FALSE
  MaxCells = 2
  MaxFramed = 2
INVARIANTS AckedKept
CHECK_DEADLOCK FALSE
