CONSTANTS
  Machines = {x, y}
  Profiles = {p}
  Dated = {p}
  Commands = {s1, s2}
  MaxQueue = 2
  MaxVersions = 2
SPECIFICATION Spec
INVARIANTS WholeProfile Remembered
PROPERTIES Forward
SYMMETRY Symmetric
CHECK_DEADLOCK FALSE
