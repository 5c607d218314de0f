SPECIFICATION Spec
CONSTANTS
  Calls = {"ls", "cat"}
  NoCalls = "[]"
  MaxSteps = 6
  MaxTurns = 3
INVARIANTS
  TypeOK
  StepsBounded
  NoFourthRound
  CancelHeeded
  OneOutcome
PROPERTIES
  TurnEnds
CHECK_DEADLOCK FALSE
