CONSTANTS
  Accounts = {"a", "c", "k"}
  Profiles = {1, 2}
  Owner <- MCOwner
  Holds <- MCHolds
  MaxBackups = 1
  MaxIssued = 3
  MaxMishaps = 2
SPECIFICATION Spec
INVARIANT SavedIsCurrent
CHECK_DEADLOCK FALSE
