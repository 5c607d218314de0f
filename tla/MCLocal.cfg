SPECIFICATION LocalSpec
CONSTANTS
  Callers = {c1, c2}
  Ways = {"slash", "tool"}
  DbOf <- OneDb
  Namespaces = {n, n2}
  Short = n
  Under <- MCUnder
  Contents = {1, 2}
  MaxEntries = 1
  MaxNow = 1
  MaxCount = 1
  MaxMessages = 4
  MaxChatTurns = 2
  MaxDay = 2
  Runs = {r1, r2}
  Ids = {1, 2, 3, 4}
  Keep = 1
  MaxTime = 1
  Writers = {w1, w2}
  Sessions = {s1, s2}
  MaxRecords = 3
  Files <- MCFiles
  Environments <- MCEnvironments
  Options <- MCOptions
  MaxConfigs = 2
  Shells = {p1, p2}
  SkillFiles = {1, 2}
  SkillNames = {m}
  Texts = {t1, t2}
  FileOf <- MCFileOf
  Jobs = {j1, j2}
  Datasets <- MCDatasets
INVARIANTS
  LocalTyped
  LimitKept
  CountNeverAhead
  SavedLoads
  SurvivorsNewest
  NewestTold
  ClosestLayer
  RegressionTold
PROPERTIES
  RememberHeeded
  SkillsListed
CONSTRAINT SmallSibling
SYMMETRY Symmetry
CHECK_DEADLOCK FALSE
