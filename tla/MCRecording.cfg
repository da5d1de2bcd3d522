SPECIFICATION Spec
CONSTANTS
  Path <- SmallPath
  Kernel = "kernel"
  FileSize <- SmallFileSize
  TextOffset <- SmallTextOffset
  NoText = NoText
  Address = {0, 1, 2, 3, 4, 5, 6}
  MaxWant = 3
  Mappings <- SmallMappings
  Symbols <- SmallSymbols
  Plt <- SmallPlt
  StubSize = 2
  Tid = {1, 2}
  Records <- SmallRecords
  MaxRecords = 5
  NoIndex = NoIndex
INVARIANTS
  ImagesExact
  OwnThenProcessThenKernel
  DataFollowsRecording
PROPERTY ImplementsAddressSpace
CHECK_DEADLOCK FALSE
