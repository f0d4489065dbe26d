SPECIFICATION FairSpec
CONSTANTS
  t1 = t1
  t2 = t2
  x1 = x1
  x2 = x2
  Tunnels = {t1, t2}
  Strays = {t2}
  Acceptors = {x1, x2}
INVARIANTS DialClean
PROPERTIES TunnelHandover BothEnds GoroutinesEnd
CHECK_DEADLOCK FALSE
