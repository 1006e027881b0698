---------------------------- MODULE MCUcosFlags ----------------------------
(* Two bits; waits of each type, consuming or not, with a timeout or not. *)
EXTENDS UcosFlags, TLC

CONSTANTS bit0, bit1, th1, th2

Wait(kind, want, consume, timed) ==
  [kind |-> kind, want |-> want, consume |-> consume, timed |-> timed]

MCWaits == th1 :> {Wait("SET_ALL", {bit0, bit1}, TRUE, FALSE), Wait("CLR_ANY", {bit0, bit1}, TRUE, TRUE)} @@
           th2 :> {Wait("SET_ANY", {bit0, bit1}, FALSE, TRUE), Wait("CLR_ALL", {bit0}, TRUE, FALSE)}
=============================================================================
