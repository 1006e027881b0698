------------------------------ MODULE MCMQueue ------------------------------
(* MQueue with two threads of one process and one of another.              *)
EXTENDS MQueue, TLC

CONSTANTS a, b, c, p, q

MCProcessOf == (a :> p) @@ (b :> p) @@ (c :> q)
ReadWrite == {{"read", "write"}}
=============================================================================
