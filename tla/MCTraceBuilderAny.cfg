SPECIFICATION BoundedBuilderSpec
CONSTANTS
  Symbol = {"f@plt", "f"}
  EventId = {1}
  PltStubs <- Stubs
  RemovePltStubs = TRUE
  Points <- FewPoints
  MaxFrames = 3
  MaxPauses = 1
  MaxOccurrences = 2
  MaxTogether = 4
INVARIANTS
  CompletedWellFormed
  ChunksMatchFrames
  EachFrameHeldOnce
  OccurrencesSorted
\* a panic ends the thread that owns the builder
CHECK_DEADLOCK FALSE
