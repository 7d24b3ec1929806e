SPECIFICATION Spec
CONSTANTS
  r1 = r1
  r2 = r2
  w1 = w1
  w2 = w2
  Readers = {r1, r2}
  Writers = {w1, w2}
  Items = {1}
  Capacity = 1
  ReadOps = {"read"}
  Cancellable = {r1}
  Throwing = {}
  MaxSent = 3
INVARIANT BlockedForAReason
