--------------------------- MODULE MCServiceData ----------------------------
EXTENDS ServiceData, TLC

CONSTANTS t1, t2, t3, n1, avg, sum, p50, p99

\* Threads and definitions are told apart by nothing else.
ServiceSymmetry == Permutations(Threads) \cup Permutations(Defs)
=============================================================================
