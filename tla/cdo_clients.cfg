SPECIFICATION FairSpec
CONSTANTS
  h1 = h1
  h2 = h2
  Handler = {h1, h2}
  Observer = {o1, o2}
  Approver = {a1}
  Plugin = {}
  HandleWithCaller = {w1}
  ClaimCaller = {c1}
  BypassApproval = {}
  BypassObservers = {}
  DelayApprovers = {o1}
  HandlerLists <- MCHandlerLists
  MaxRequests = 1
  None = None
  Internal = Internal
  BadName = BadName
INVARIANTS LocksMatchCalls AssertionsHold
PROPERTIES QuietSignals HandleWithAnswered DispatchEnds
CHECK_DEADLOCK FALSE
