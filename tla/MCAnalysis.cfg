SPECIFICATION Spec
CONSTANTS
  File = {"a", "b", "c"}
  Contents <- SmallContents
  Filters <- SmallFilters
  Targets <- SmallTargets
  RootOnly = RootOnly
  Unit = 2
  MinDatapoints = 3
  MaxFiles = 3
  MaxFilters = 2
  MaxStep = 3
INVARIANTS
  FiltersExact
  StatsOfOwnFiles
  DatapointsExact
  EveryDatapointInABin
  QuartilesHoldHalf
CHECK_DEADLOCK FALSE
