--------------------------- MODULE MCConcurrentCache ---------------------------
(* Small instances of ConcurrentCache: threads and keys as model values. *)
EXTENDS ConcurrentCache, TLC

CONSTANTS t1, t2, t3, k1

\* One key, in the first shard; the second one is visited by purge_expired.
MCShardOf == [k \in Keys |-> 1]

\* Every thread loads and looks up, one also inserts, and one also erases and
\* purges.
MCOps ==
  [t \in Threads |-> {"get", "get_or_create"} \union
     CASE t = t1 -> {} [] t = t2 -> {"insert_or_assign"}
       [] t = t3 -> {"erase", "purge_expired"}]

\* Every thread looks up and inserts.
MCGetOps == [t \in Threads |-> {"get", "insert_or_assign"}]

Symmetry == Permutations(Threads)
===============================================================================
