CONSTANTS
  Accounts = {"ana", "bob", "carl", "dora"}
  Profiles <- TwoProfiles
  Owner <- TwoOwners
  Procs = {cli}
  Quiet = TRUE
  SystemTargets = FALSE
  KillPoints = {"original", "choose", "present", "backup", "resnap", "restore"}
  MaxBackups = 1
  MaxIssued = 5
SPECIFICATION Spec
INVARIANTS TypeOK NoReplay SavedCopyUsable OwnAccount
PROPERTIES ActivateKeepsLogin KeeperSpec
CHECK_DEADLOCK FALSE
