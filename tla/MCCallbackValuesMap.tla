------------------------ MODULE MCCallbackValuesMap -------------------------
EXTENDS CallbackValuesMap, TLC

CONSTANTS t1, t2, t3, a, b

\* Both names in one shard, and a shard of their own each.
OneShard(n) == 1
OwnShard(n) == IF n = a THEN 1 ELSE 2

\* As in the test DoubleDynamicCounterDeadlock, the callback of b reads a.
BReadsA(n) == IF n = b THEN a ELSE None

ThreadSymmetry == Permutations(Threads)
=============================================================================
