SPECIFICATION FairSpec
CONSTANTS
  BufferSize = 2
  PauseThreshold = 4
  ResumeThreshold = 2
  WriteSizes = {5}
  MinSizes = {0}
  Cancellable = {"writer"}
  WriterCompleters = {}
  ReaderCompleters = {}
  MaxBytes = 6
PROPERTY CancelledWriteReturns
