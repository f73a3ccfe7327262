-------------------------- MODULE MCTLStatNameSet ---------------------------
EXTENDS TLStatNameSet, TLC

\* Nothing tells threads, names or addresses apart.
NameSetSymmetry ==
    Permutations(Users) \cup Permutations(StatNames) \cup Permutations(Addrs)
=============================================================================
