SPECIFICATION Spec
CONSTANTS
  Window = 7
  Granularity = 2
  BinLimit = 4
  MaxTime = 7
  MaxBytes = 4
  MaxUpdates = 4
  Nothing = Nothing
INVARIANT BinsHoldTheirBytes
PROPERTY UpdateEnds
CHECK_DEADLOCK FALSE
