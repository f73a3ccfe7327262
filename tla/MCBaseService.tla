---------------------------- MODULE MCBaseService ---------------------------
EXTENDS BaseService, TLC

CONSTANTS t1, t2, w1, w2, v, logmailer, opt, x, bad, info

\* A flat counter, and a name that is both a quantile and a dynamic counter.
SomeCounters == {<<"flat", 1>>, <<"quantile", 2>>, <<"dynamic", 2>>}

SomePatterns == {{2}}

\* Threads are interchangeable, and so are the executor's.
ServiceSymmetry == Permutations(Threads) \cup Permutations(Workers)
=============================================================================
