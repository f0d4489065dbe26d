SPECIFICATION Spec
CONSTANTS
  w1 = w1
  w2 = w2
  c1 = c1
  c2 = c2
  WireCap = 2
  Faults = {"clean", "torn"}
  Sticky = TRUE
  Writers = {w1, w2}
  Closers = {c1, c2}
  Queue = 2
  NoPad = FALSE
  MaxCells = 2
  MaxFramed = 3
SYMMETRY Symmetry
INVARIANTS TypeOK FlushedOnClose SingleConsumer ErrorReported
PROPERTIES StreamSpec
CHECK_DEADLOCK FALSE
