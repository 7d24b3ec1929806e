SPECIFICATION Spec
CONSTANTS
  t1 = t1
  t2 = t2
  t3 = t3
  k1 = k1
  Threads = {t1, t2}
  Keys = {k1}
  Shards = 2
  ShardOf <- MCShardOf
  Ttls = {0, 1}
  Ops <- MCGetOps
  MaxTime = 2
  MaxFactories = 2
SYMMETRY Symmetry
PROPERTY GetRemovesExpired
