CONSTANTS
  Accounts = {"ana", "bob", "carl"}
  Profiles <- TwoProfiles
  Owner <- TwoOwners
  Procs = {cli}
  Quiet = FALSE
  SystemTargets = FALSE
  KillPoints = {"original", "choose", "present", "backup", "resnap", "restore"}
  MaxBackups = 1
  MaxIssued = 3
SPECIFICATION Spec
INVARIANT NoReplay
CHECK_DEADLOCK FALSE
