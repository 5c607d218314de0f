SPECIFICATION Spec
CONSTANTS
  MaxTasks = 2
  Texts = {"a", "b", "c"}
INVARIANTS
  FailureReported
CHECK_DEADLOCK FALSE
