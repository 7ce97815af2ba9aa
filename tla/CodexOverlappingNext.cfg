CONSTANTS
  Accounts = {"ana", "bob", "carl"}
  Profiles <- TwoProfiles
  Owner <- TwoOwners
  Procs = {cli, other}
  Quiet = TRUE
  SystemTargets = FALSE
  KillPoints = {"original", "choose", "present", "backup", "resnap", "restore"}
  MaxBackups = 1
  MaxIssued = 3
SPECIFICATION Spec
INVARIANT OwnAccount
CHECK_DEADLOCK FALSE
