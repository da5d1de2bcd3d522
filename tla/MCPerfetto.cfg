SPECIFICATION Spec
CONSTANTS
  Traces <- SmallTraces
  Capacity = 2
  PauseName = "--pause--"
INVARIANTS
  SequencesReadable
  SlicesMatchTrace
  NamesKnown
  SuccessMeansComplete
PROPERTY Completes
