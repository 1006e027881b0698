------------------------------ MODULE MCSignals ------------------------------
(* Two threads, a standard signal, a real-time signal whose handler has      *)
(* SA_SIGINFO, stop and continue.                                            *)
EXTENDS Signals, TLC

CONSTANTS a, b, user, rt

MCNumber == (Cont :> 3) @@ (user :> 10) @@ (Stop :> 25) @@ (rt :> 32)
MCHandlerMask == (user :> {rt}) @@ (rt :> {})
MCMasks == {{}, {user}}
MCWaitSets == {{rt}}
Equals == Permutations(Threads)
=============================================================================
