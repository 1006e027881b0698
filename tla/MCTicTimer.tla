----------------------------- MODULE MCTicTimer -----------------------------
(* Two sleepers, two timers, or one of each; times around now. *)
EXTENDS TicTimer, TLC

CONSTANTS th1, th2, tm1, tm2

MCDelays == {1, 2}
MCOffsets == {-1, 0, 2}
MCPeriods == {0, 1}
MCJumps == {-1, 1}
MCGarbage == {0}
MCScenes == {{th1, th2}, {tm1, tm2}, {th1, tm1}}
=============================================================================
