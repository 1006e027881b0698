SPECIFICATION FlagsSpec
CONSTANTS
  bit0 = bit0  bit1 = bit1
  th1 = th1  th2 = th2
  Callers = {th1, th2}
  Bits = {bit0, bit1}
  Waits <- MCWaits
  MaxEntries = 3
INVARIANTS NoSleeperOnReady WokenIsReady
CHECK_DEADLOCK FALSE
