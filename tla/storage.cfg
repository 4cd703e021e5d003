CONSTANTS
  Names = {1, 2}
  MaxObjects = 4
  MaxCalls = 3
  MaxOutside = 2
  MaxCrashes = 1
  DiskMayFill = TRUE
SPECIFICATION FairSpec
INVARIANTS RestartFindsTheSame DeletedStaysDeleted EntryHasAccount AccountIsCurrent
PROPERTY SettlesInSync
CHECK_DEADLOCK FALSE
