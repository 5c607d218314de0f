SPECIFICATION Spec
CONSTANTS
  Prefixes = {"ls", "git", "git push"}
  AllowList = {"ls"}
  UnsafeAsks = FALSE
  MaxCalls = 2
  MaxIssued = 3
  Modes = {"auto", "always"}
  Under <- MCUnder
  Commands <- MCCommands
INVARIANTS TypeOK BarredNeverRuns GrantsAsked AnswerHeeded
PROPERTY RoundEnds
CHECK_DEADLOCK FALSE
