SPECIFICATION Spec
CONSTANTS
  MaxTurns = 2
  Streams = {s1}
  MaxChunks = 0
PROPERTIES
  SummaryForModelOnly
CHECK_DEADLOCK FALSE
