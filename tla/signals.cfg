SPECIFICATION Spec
CONSTANTS
  a = a  b = b  user = user  rt = rt
  Threads = {a, b}
  Process = Process
  Standard = {user}
  RealTime = {rt}
  Stop = Stop
  Cont = Cont
  Number <- MCNumber
  InfoHandlers = {rt}
  HandlerMask <- MCHandlerMask
  Masks <- MCMasks
  WaitSets <- MCWaitSets
  MaxChained = 2
  MaxSent = 3
INVARIANTS PendingHasInfo NobodySleepsOnPending EveryoneTold ToldIsAwake
SYMMETRY Equals
CHECK_DEADLOCK FALSE
