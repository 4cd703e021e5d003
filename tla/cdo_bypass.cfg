SPECIFICATION Spec
CONSTANTS
  h1 = h1
  h2 = h2
  Handler = {h1, h2}
  Observer = {o1}
  Approver = {a1}
  Plugin = {}
  HandleWithCaller = {w1, w2}
  ClaimCaller = {c1}
  BypassApproval = {h1}
  BypassObservers = {h1}
  DelayApprovers = {o1}
  HandlerLists <- MCBypassLists
  MaxRequests = 1
  None = None
  Internal = Internal
  BadName = BadName
INVARIANT UserApproved
PROPERTIES ImplementsChannelDispatch BypassersFirst
CHECK_DEADLOCK FALSE
