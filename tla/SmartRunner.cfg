CONSTANTS
  Profiles = {"a", "b"}
  First = "a"
  MaxHandoffs = 2
  Outputs <- MCOutputs
  MaxRotations = 1
SPECIFICATION FairSpec
INVARIANTS OneHandler AtReturn OwnAnswer Kept Listening
PROPERTIES RunReturns
CHECK_DEADLOCK FALSE
