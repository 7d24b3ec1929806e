SPECIFICATION FairSpec
CONSTANTS
  r1 = r1
  r2 = r2
  w1 = w1
  w2 = w2
  Readers = {r1, r2}
  Writers = {w1, w2}
  Items = {1}
  Capacity = 2
  ReadOps = {"read", "try_read"}
  Cancellable = {}
  Throwing = {}
  MaxSent = 4
INVARIANT NoLostWakeup
PROPERTY CompletionReleases
PROPERTY SleepersServed
