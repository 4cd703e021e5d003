CONSTANTS
  MaxRequest = 2
  Path = {p1, p2}
  None = None
  Kinds = {"create", "ensure", "message"}
  Urgent = {}
  AlwaysDispatch = FALSE
  Incoming = {TRUE, FALSE}
  MaxEvents = 1
SPECIFICATION Spec
INVARIANT LocksAreInFlight
CHECK_DEADLOCK FALSE
