------------------------------ MODULE MCRWLock ------------------------------
(* RWLock on small instances: w goes before a and b, which are equals.     *)
EXTENDS RWLock, TLC

CONSTANTS a, b, w, l1, l2

MCRank == [t \in Threads |-> IF t = w THEN 2 ELSE 1]
Equals == Permutations({a, b})
=============================================================================
