SPECIFICATION Spec
CONSTANTS
  Symbol <- FewSymbols
  EventId = {1, 20}
  PltStubs = {}
  RemovePltStubs = TRUE
  Points <- Reached
  Ip <- FewIps
  Unknown = "unknown"
  Resolve <- ResolveFewIps
  Covers <- FewRanges
  Target <- Targets
  Tsc = {0, 1, 2}
  TimeMult = 1
  TimeShift = 0
  TsWidth = 8
  InsnCounts = {1}
  MaxTraces <- Unlimited
  MaxInput = 6
  NoIp = NoIp
  NoSymbol = NoSymbol
  EventsInOrder = FALSE
INVARIANT
  CompletionSucceeds
