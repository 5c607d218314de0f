SPECIFICATION Spec
CONSTANTS
  Prefixes = {"ls", "git", "git push"}
  AllowList = {"ls"}
  UnsafeAsks = FALSE
  MaxCalls = 1
  MaxIssued = 1
  Modes = {"auto", "always"}
  Under <- MCUnder
  Commands <- MCCompound
INVARIANT ApprovedPasses
CHECK_DEADLOCK FALSE
