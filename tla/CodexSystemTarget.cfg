CONSTANTS
  Accounts = {"ana", "bob", "carl"}
  Profiles <- TwoProfiles
  Owner <- TwoOwners
  Procs = {cli}
  Quiet = TRUE
  SystemTargets = TRUE
  KillPoints = {}
  MaxBackups = 1
  MaxIssued = 4
SPECIFICATION Spec
INVARIANT NoReplay
CHECK_DEADLOCK FALSE
