SPECIFICATION Spec
CONSTANTS
  r1 = r1
  r2 = r2
  b1 = b1
  b2 = b2
  Base = 3
  SaltSize = 2
  Lengths = {0, 2, 4, 5}
  Samples = {0, 5, 7, 9}
  Foreign = {3, 5, 8}
  Rooms = {1, 4}
  Readers = {r1, r2}
  Bufs = {b1, b2}
  MaxDatagrams = 2
SYMMETRY Symmetry
INVARIANTS Faithful
CHECK_DEADLOCK FALSE
