SPECIFICATION PartsSpec
CONSTANTS
  Budget = 5
  Tick = 2
  MaxAddresses = 3
  BufferSize = 9
  MaxDepth = 2
  MaxMessages = 2
  MaxChunk = 3
  MaxDials = 2
  ChunkCounts = {2, 3, 4, 6, 7, 11}
  Threads = 2
  CvGroup = 2
  PtGroup = 2
  MaxDirty = 2
  MaxWrites = 2
  MaxJobs = 2
  NThreads = 2
  Radix = 3
  NonceLength = 8
  StampLength = 1
  HotLength = 2
  Extranonces = {0, 4}
  Salts <- MCSalts
  LineSpan = 4
  SearchChunk = 3
  MaxChunks = 2
  MaxHits = 2
  ScanBackends = {"opencl", "onednn", "onebyone", "cuda", "cpu"}
  ScanLaunches = 4
  ScanDevices = 2
  MaxScanAttempts = 2
  Panels = 3
  ColumnBlocks = 2
  PanelSlots = 2
  Requests = 5
  MaxOddLaunches = 1
  MaxNpuAttempts = 1
INVARIANTS
  PartsTypeOK
  BudgetShared
  FramesAsSent
  CommitsToThisA
  EachShareOnce
  PanelHandover
  AttemptsReportRight
\* The wire has dialled MaxDials times, all writes are done, the team returned,
\* the attempts are over.
CHECK_DEADLOCK FALSE
