SPECIFICATION Spec
CONSTANTS
  Base = 4
  CellSize = 4
  Modes = {FALSE}
  Samples = {0}
  Deadlines = "any"
  Cuts = FALSE
  MaxWrite = 3
  MaxBytes = 5
  MaxCovers = 0
  MaxRead = 2
INVARIANTS Reconstructs
CHECK_DEADLOCK FALSE
