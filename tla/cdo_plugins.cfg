SPECIFICATION Spec
CONSTANTS
  h1 = h1
  h2 = h2
  Handler = {h1, h2}
  Observer = {o1}
  Approver = {a1}
  Plugin = {p1}
  HandleWithCaller = {w1}
  ClaimCaller = {c1}
  BypassApproval = {}
  BypassObservers = {}
  DelayApprovers = {o1}
  HandlerLists <- MCHandlerLists
  MaxRequests = 1
  None = None
  Internal = Internal
  BadName = BadName
INVARIANTS RequestedNeverStalls NoChannelLeftBehind
PROPERTY OutcomesAreFinal
CHECK_DEADLOCK FALSE
