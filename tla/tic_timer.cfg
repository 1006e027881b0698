SPECIFICATION ClockSpec
CONSTANTS
  th1 = th1  th2 = th2  tm1 = tm1  tm2 = tm2
  Sleepers = {th1, th2}
  Timers = {tm1, tm2}
  Delays <- MCDelays
  Offsets <- MCOffsets
  Periods <- MCPeriods
  Jumps <- MCJumps
  Garbage <- MCGarbage
  Wide = 4
  MaxEntries = 2
  Scenes <- MCScenes
INVARIANTS NoOversleep WokenWaitEnds
PROPERTIES NoEarlyReturn TimersOnTime
CHECK_DEADLOCK FALSE
