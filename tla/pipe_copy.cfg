SPECIFICATION CopySpec
CONSTANTS
  BufferSize = 2
  PauseThreshold = 4
  ResumeThreshold = 2
  WriteSizes = {}
  MinSizes = {}
  Cancellable = {"reader"}
  WriterCompleters = {"writer"}
  ReaderCompleters = {"reader", "other"}
  MaxBytes = 9
  SourceSize = 9
  ChunkSize = 5
  MessageSize = 3
PROPERTY CopyDelivers
PROPERTY BlockedCallsReturn
