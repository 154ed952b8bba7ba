SPECIFICATION MCSpec
CONSTANTS
  None = None
  e1 = e1  e2 = e2  v1 = v1  v2 = v2
  Entries = {e1, e2}
  Versions = {v1, v2}
  Widths = {1, 2}
  Corpora <- SomeCorpora
  Reindexers = {x, y}
  Runs = {}
  Files <- SomeFiles
  MaxCases = 3
  Asks <- SomeAsks
  MaxK = 2
  DefaultKs <- Small
  Scale = 2
PROPERTIES DriftIsCaught
CHECK_DEADLOCK FALSE
