SPECIFICATION Spec
CONSTANTS
  t1 = t1
  t2 = t2
  Tasks <- MCTasks
  Scopes = {"(default)", "proj"}
  DefaultScope = "(default)"
  ScopeOf <- MCScopeOf
  Ids = {"worker-1"}
  NoOwner = NoOwner
  NoTask = NoTask
  Procs = {p1, p2}
  WorkerId <- MCWorkerId
  FaultKinds = {"crash", "dberror"}
  MaxFaults = 1
  LeaseSecs = 1
  MaxClock = 1
INVARIANTS
  TypeOK
  OneWorkerPerTask
PROPERTIES
  ImplementsLifecycle
  EventuallySettled
