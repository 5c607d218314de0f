SPECIFICATION Spec
CONSTANTS
  t1 = t1
  t2 = t2
  Tasks <- MCTasks
  Scopes = {"(default)", "proj"}
  DefaultScope = "(default)"
  ScopeOf <- MCScopeOf
  Ids = {"worker-1"}
  NoOwner = NoOwner
  NoTask = NoTask
  Procs = {p1}
  WorkerId <- MCWorkerId
  FaultKinds = {"crash"}
  MaxFaults = 1
  LeaseSecs = 1
  MaxClock = 2
PROPERTIES
  CrashRecovered
