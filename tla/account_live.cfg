CONSTANTS
  OnlinePresence = {"available"}
  AutomaticPresence = "available"
  Request = {r1}
  Tp = {t1}
  None = None
  AlwaysDispatch = FALSE
  StorageReconnects = TRUE
  RegistryIsReady = FALSE
  HasPresence = TRUE
  HasRequests = TRUE
  Failures = {"crash"}
  InitialReconnectionTime = 3
  ReconnectionMultiplier = 3
  MaximumReconnectionTime = 3
  ProbationMaxDropped = 0
  MaxInFlight = 1
SPECIFICATION FairSpec
PROPERTIES OnlineRequestAnswered ConnectingEnds
CHECK_DEADLOCK FALSE
