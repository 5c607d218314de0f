SPECIFICATION Spec
CONSTANTS
  t1 = t1
  t2 = t2
  w1 = w1
  w2 = w2
  Tasks <- MCTasks
  Scopes = {"a"}
  ScopeOf <- MCScopeOf
  Ids = {"worker-1", "worker-2"}
  NoOwner = NoOwner
  NoTask = NoTask
  Workers <- MCWorkers
  WorkerId <- MCWorkerId
  LeaseSecs = 1
  MaxClock = 3
  MaxAttempts = 2
INVARIANTS
  TypeOK
  OwnerIsCurrentAttempt
PROPERTIES
  OnlyCurrentAttemptSettles
  NoEarlyRequeue
  ImplementsLifecycle
