SPECIFICATION FairSpec
CONSTANTS
  Base = 3
  CellSize = 4
  Modes = {TRUE, FALSE}
  Samples = {0, 6, 12}
  Deadlines = "idle"
  Cuts = TRUE
  MaxWrite = 3
  MaxBytes = 3
  MaxCovers = 1
  MaxRead = 2
INVARIANTS Reconstructs Aligned CleanEOF
PROPERTIES AllRead
CHECK_DEADLOCK FALSE
