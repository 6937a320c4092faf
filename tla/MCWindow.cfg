SPECIFICATION LimiterSpec
CONSTANTS
  Grants = {g1, g2, g3, g4, g5}
  Window = 3
  Limit = 2
  ZeroRefuses = FALSE
  MaxTime = 6
PROPERTY KeepsPromise
CHECK_DEADLOCK FALSE
