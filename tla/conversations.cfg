SPECIFICATION MCSpec
CONSTANTS
  None = None
  Unreadable = Unreadable
  Turns = {t1, t2}
  Convs = {c1}
  Agents = {a1, a2}
  Acting = {a1}
  MaxToolCalls = 2
  Limit = 1
  Window = 1
  MaxNow = 2
  MaxConcurrent = 1
  MaxClaims = 2
INVARIANTS
  TypeOK
  FailedTurnLeavesNothing
  HistoryIsTranscribed
  InStep
  WithinLimit
  AnnouncedOnce
  ScoresAreWhole
PROPERTIES
  TurnsAnswered
  ChecksSettle
CHECK_DEADLOCK FALSE
