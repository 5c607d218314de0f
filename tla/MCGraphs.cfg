SPECIFICATION GraphsSpec
CONSTANTS
  MaxTasks = 3
  Texts = {"a", "b", "c"}
  Requests <- MCRequests
  Parts = {"p", "q"}
  Split <- MCSplit
  Commands = {"p"}
  LlmPlans <- MCLlmPlans
  MaxCalls = 1
  MaxTurns = 2
INVARIANTS
  GraphsTyped
  BatchesSound
  EveryTaskReported
  EachToItsSubtask
PROPERTIES
  DependenciesFirst
CHECK_DEADLOCK FALSE
