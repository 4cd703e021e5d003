CONSTANTS
  Names = {1, 2}
  MaxObjects = 4
  MaxCalls = 1
  MaxOutside = 2
  MaxCrashes = 1
  DiskMayFill = FALSE
SPECIFICATION Spec
INVARIANT RemovalLeavesNoTrace
CHECK_DEADLOCK FALSE
