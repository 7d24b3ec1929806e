SPECIFICATION FairSpec
CONSTANTS
  t1 = t1
  t2 = t2
  t3 = t3
  k1 = k1
  Threads = {t1, t2, t3}
  Keys = {k1}
  Shards = 2
  ShardOf <- MCShardOf
  Ttls = {0, 1}
  Ops <- MCOps
  MaxTime = 1
  MaxFactories = 2
INVARIANT TypeOK
INVARIANT OneFactoryPerKey
INVARIANT WaitersServed
PROPERTY PromisesKept
PROPERTY LiveEntryKept
PROPERTY CallsReturn
