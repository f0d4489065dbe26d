SPECIFICATION FairSpec
CONSTANTS
  Base = 8
  RandomLen = 1
  KeyLen = 2
  Confs <- SomeConfs
  ShortIDs <- SomeShortIDs
  TimeSkew = 3
  Sec = 2
  ShortIDLen = 2
  MaxNow = 3
INVARIANTS ParsedRight Agreement Window
PROPERTIES HandshakeEnds Completes
CHECK_DEADLOCK FALSE
