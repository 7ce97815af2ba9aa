CONSTANTS
  Profiles = {work}
  Slots = {s1, s2, s3}
  Loops = {l1, l2}
  MaxRetries = 2
  MaxStarts = 2
  Polite = TRUE
SPECIFICATION Spec
SYMMETRY Symmetry
INVARIANTS OneRefresh StoppedIsQuiet NoPlaceLost StuckOnlyWhenExplained
CHECK_DEADLOCK FALSE
