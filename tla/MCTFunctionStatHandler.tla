----------------------- MODULE MCTFunctionStatHandler -----------------------
(* Model values and bounds for TFunctionStatHandler. *)
EXTENDS TFunctionStatHandler, TLC

CONSTANTS t1, t2, f1, f2, r1, r2, r3

\* Two requests of one function and one of another.
TwoFunctions == (r1 :> f1) @@ (r2 :> f2) @@ (r3 :> f1)

\* The handler throws, and the exception is written as the response.
Thrown == {[stage |-> 4, thrown |-> "undeclared"]}

HandlerSymmetry == Permutations(Threads) \cup Permutations({r1, r3})
=============================================================================
