SPECIFICATION StreamsSpec
CONSTANTS
  FileLen = 5
  MaxBuf = 3
  SkipLimit = 2
  MaxChunk = 2
  MaxRead = 2
  MaxRetries = 1
  SegFileLen = 5
  ChunkSize = 2
  Prefetch = 3
  Workers = {"worker1", "worker2"}
  Services = {"youtube", "soundcloud"}
  Segments = 5
  Batch = 2
  LowWater = 1
CHECK_DEADLOCK FALSE
INVARIANTS
  RightBytesUnlessSkipped
  DownloadingHasWorker
  SegmentsInOrder
PROPERTIES
  ServesBytes
  CallsReturn
