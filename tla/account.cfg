CONSTANTS
  OnlinePresence = {"available", "busy"}
  AutomaticPresence = "available"
  Request = {r1}
  Tp = {t1}
  None = None
  AlwaysDispatch = FALSE
  StorageReconnects = FALSE
  RegistryIsReady = TRUE
  HasPresence = TRUE
  HasRequests = TRUE
  Failures = {"network", "crash", "other"}
  InitialReconnectionTime = 3
  ReconnectionMultiplier = 3
  MaximumReconnectionTime = 9
  ProbationMaxDropped = 0
  MaxInFlight = 2
SPECIFICATION Spec
INVARIANTS StatusTruthful OneAttempt SeenAreDisconnected PresenceTold
PROPERTY OnlyWantedConnections
CHECK_DEADLOCK FALSE
