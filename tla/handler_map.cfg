SPECIFICATION Spec
CONSTANTS
  mc = mc
  p1 = p1
  p2 = p2
  k1 = k1
  k2 = k2
  Channel = {c1, c2}
  Process = {mc, p1, p2}
  Self = mc
  Empty = empty
  Client = {k1, k2}
  MayOwn <- MCMayOwn
  MaxGivenUp = 1
  Invocation = {i1}
  None = None
INVARIANTS CountersExact HandlersWatched NoOrphan ClientOfHandler
PROPERTY CrashIsNoticed
CHECK_DEADLOCK FALSE
