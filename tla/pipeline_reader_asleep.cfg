SPECIFICATION Spec
CONSTANTS
  BufferSize = 2
  PauseThreshold = 4
  ResumeThreshold = 2
  WriteSizes = {1, 3}
  MinSizes = {0}
  Cancellable = {}
  WriterCompleters = {}
  ReaderCompleters = {"other"}
  MaxBytes = 6
INVARIANT ReaderBlockedForAReason
