SPECIFICATION StorageSpec
CONSTANTS
  BufferSize = 2
  PauseThreshold = 4
  ResumeThreshold = 2
  WriteSizes = {1, 3}
  MinSizes = {0, 3}
  Cancellable = {"writer", "reader"}
  WriterCompleters = {"other"}
  ReaderCompleters = {"reader", "other"}
  MaxBytes = 6
  AllocatorKinds = {"fixed", "arena"}
INVARIANT TypeOK
INVARIANT Accounting
INVARIANT StreamIntact
INVARIANT StorageBounded
INVARIANT WriterNotForgotten
INVARIANT ReaderNotForgotten
PROPERTY SnapshotStable
INVARIANT BuffersNotShared
INVARIANT PausedWriterLeavesEnough
CHECK_DEADLOCK FALSE
