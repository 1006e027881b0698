------------------------------ MODULE TokenPool ------------------------------
(***************************************************************************)
(* What a counting semaphore promises whatever happens to its waiters: a   *)
(* wait that succeeds takes one token of those put in.  Semaphore          *)
(* implements this module; that a token is eventually taken is TokenServed *)
(* there, for it does not always hold.                                     *)
(***************************************************************************)
EXTENDS Naturals

CONSTANT Threads

VARIABLES available,   \* tokens in the pool
          asking       \* threads inside a wait that has not returned

pvars == <<available, asking>>

Init == available \in Nat /\ asking = {}

Put == available' = available + 1 /\ UNCHANGED asking

Ask(t) == asking' = asking \cup {t} /\ UNCHANGED available

Take(t) == /\ available > 0
           /\ available' = available - 1
           /\ asking' = asking \ {t}

\* A cancelled, interrupted or timed-out wait takes nothing.
GiveUp(t) == asking' = asking \ {t} /\ UNCHANGED available

Next == Put \/ \E t \in Threads : Ask(t) \/ Take(t) \/ GiveUp(t)

SafeSpec == Init /\ [][Next]_pvars
=============================================================================
