SPECIFICATION Spec
CONSTANTS
  r1 = r1
  r2 = r2
  w1 = w1
  w2 = w2
  Readers = {r1, r2}
  Writers = {w1, w2}
  Items = {1, 2}
  Capacity = 1
  ReadOps = {"read", "try_read", "wait_to_read"}
  Cancellable = {r1, w1}
  Throwing = {r1, w1}
  MaxSent = 3
INVARIANT TypeOK
INVARIANT WaiterCounts
INVARIANT WaitHonoured
INVARIANT CompletionReachesAll
INVARIANT StoppedStaysAwake
PROPERTY KeepsPromise
