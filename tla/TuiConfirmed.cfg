CONSTANTS
  NProviders = 2
  Names = {1, 2, 3}
  LastUsed <- MCLastUsed
  Saved <- MCSaved
  Bundles <- MCBundles
  MaxCmds = 2
  MaxChanges = 1
SPECIFICATION Spec
PROPERTIES ConfirmedIsAsked
