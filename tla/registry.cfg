CONSTANTS
  Client = {c1, c2}
  BusActivatable = {c1}
  HasFile = {c1}
  Approvers = {}
  Handlers = {c1, c2}
  Observers = {c1, c2}
  Faulty = {c1}
  MaxProcess = 2
  MaxStarts = 3
SPECIFICATION FairSpec
INVARIANTS LocksExact HandledBeforeDispatching CapsTold
PROPERTIES RegistryConverges RestartedObserverRecovers
CHECK_DEADLOCK FALSE
