SPECIFICATION Spec
CONSTANTS
  Points <- GridPoints
  MaxChunks = 3
  FieldSize = 2
INVARIANTS
  FrameWellFormed
  RefusesOnlyWithoutGap
  TiesKeepArrivalOrder
  CheckInvariantHolds
  RangesSurvive
PROPERTY
  WalkTerminates
