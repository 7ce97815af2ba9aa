CONSTANTS
  Procs = {p1, p2, p3}
  MaxStarts = 3
SPECIFICATION Spec
SYMMETRY Symmetry
PROPERTIES CleanSparesSessions
CHECK_DEADLOCK FALSE
