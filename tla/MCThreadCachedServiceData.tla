---------------------- MODULE MCThreadCachedServiceData ----------------------
(* Model values and bounds for ThreadCachedServiceData. *)
EXTENDS ThreadCachedServiceData, TLC

CONSTANTS t1, t2, c1, c2, i5, s5, k5, sum1

\* The integer 5 and the string "5" are formatted alike.
SameKey == (i5 :> k5) @@ (s5 :> k5)

ThreadSymmetry == Permutations(Threads) \cup Permutations(Callers) \cup Permutations(Subkeys)
=============================================================================
