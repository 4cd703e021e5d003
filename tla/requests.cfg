CONSTANTS
  MaxRequest = 2
  Path = {p1, p2}
  None = None
  Kinds = {"create", "ensure", "message"}
  Urgent = {}
  AlwaysDispatch = FALSE
  Incoming = {FALSE}
  MaxEvents = 1
SPECIFICATION FairSpec
INVARIANTS LocksExact StatusMatchesOutcome CancelledIsClosed
PROPERTY RequestCompletes
CHECK_DEADLOCK FALSE
