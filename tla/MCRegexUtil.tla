---------------------------- MODULE MCRegexUtil -----------------------------
EXTENDS RegexUtil, TLC

CONSTANTS a1, a2, a3, foo, bar, rFoo, rAll, f1, f2

\* One pattern tells the names apart, the other matches both.
MCMatches(r) == IF r = rFoo THEN {foo} ELSE {foo, bar}

AddrSymmetry == Permutations(Addrs) \cup Permutations(Finders)
=============================================================================
