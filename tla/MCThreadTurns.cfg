SPECIFICATION Spec
CONSTANTS
  MaxTurns = 2
  Streams = {s1, s2}
  MaxChunks = 1
INVARIANTS
  TypeOK
  ExactlyOnce
  FirstTurnStreamed
  HistoryComplete
PROPERTIES
  StreamsEnd
CHECK_DEADLOCK FALSE
