------------------------- MODULE MCThreadLocalStats -------------------------
EXTENDS ThreadLocalStats, TLC

CONSTANTS t1, t2, t3, s1, s2, s3, n1, n2, u1, u2

\* Threads, names and updates are interchangeable; stats are too.
RegistrySymmetry == Permutations(Threads) \cup Permutations(Stats)
                    \cup Permutations(Names) \cup Permutations(Updates)
=============================================================================
