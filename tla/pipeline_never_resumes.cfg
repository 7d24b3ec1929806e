SPECIFICATION Spec
CONSTANTS
  BufferSize = 2
  PauseThreshold = 4
  ResumeThreshold = 1
  WriteSizes = {5}
  MinSizes = {0}
  Cancellable = {}
  WriterCompleters = {}
  ReaderCompleters = {}
  MaxBytes = 6
INVARIANT ResumesBelowThreshold
