SPECIFICATION Spec
CONSTANTS
  MaxTurns = 2
  Streams = {s1, s2}
  MaxChunks = 1
PROPERTIES
  NoStreamEndsMidTurn
CHECK_DEADLOCK FALSE
