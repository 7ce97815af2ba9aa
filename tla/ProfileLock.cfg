CONSTANTS
  Procs = {p1, p2, p3}
  MaxStarts = 5
SPECIFICATION Spec
SYMMETRY Symmetry
INVARIANTS RefusedForCause
PROPERTIES LockSpec
CHECK_DEADLOCK FALSE
