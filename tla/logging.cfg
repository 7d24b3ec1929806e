SPECIFICATION Spec
CONSTANTS
  Transports = {"native", "curl"}
  MaxAddresses = 2
  Callers = {"a", "b"}
  Levels <- MCLevels
  min_log_level <- MCMinLogLevel
  batch_size = 2
  LineLength = 2
  MaxErrors = 1
INVARIANT TypeOK
INVARIANT EachOnceInOrder
INVARIANT DrainedAtExit
INVARIANT LinesWhole
INVARIANT TextWhole
INVARIANT RequestExact
INVARIANT ResourcesBalanced
PROPERTY ShutdownEnds
CHECK_DEADLOCK FALSE
