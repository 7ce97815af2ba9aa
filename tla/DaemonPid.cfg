CONSTANTS
  Daemons = {d1, d2, d3}
  Commands = {c1}
  NoPid = NoPid
  MaxFiles = 3
SPECIFICATION FairSpec
INVARIANTS Visible
PROPERTIES LockSpec StartEnds
CHECK_DEADLOCK FALSE
