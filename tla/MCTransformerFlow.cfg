SPECIFICATION Spec
CONSTANTS
  Symbol <- Symbols
  EventId = {1, 20}
  PltStubs <- Stubs
  RemovePltStubs = TRUE
  Points <- Reached
  Ip <- Ips
  Unknown = "unknown"
  Resolve <- ResolveIps
  Covers <- SymbolRanges
  Target <- Targets
  Tsc = {0}
  TimeMult = 1
  TimeShift = 0
  TsWidth = 8
  InsnCounts = {0}
  MaxTraces = 1
  MaxInput = 7
  NoIp = NoIp
  NoSymbol = NoSymbol
  EventsInOrder = TRUE
INVARIANTS
  UnknownOnlyOnTop
  RootCalledOnce
  TopFrameFollowsBlocks
  JumpForgetsBranch
PROPERTY NextReturns
