SPECIFICATION Spec
CONSTANTS
  Inputs <- FourTraces
  Pause = "pause"
  ThreshNum = 7
  ThreshDen = 10
  LostFrameId = 300
INVARIANTS
  CalledInOriginalOrder
  LongestCommonMerged
  MergedInCallOrder
  MergeNeverPanics
  NothingLost
