SPECIFICATION Spec
CONSTANTS
  a = a  b = b  c = c  p = p  q = q
  Threads = {a, b, c}
  Processes = {p, q}
  ProcessOf <- MCProcessOf
  Prios = {1, 2}
  MaxMsg = 2
  Accesses <- ReadWrite
  TimedCallers = {c}
  Disturbances = {"signal", "cancel", "setattr", "open", "close"}
  MaxEntries = 1
  Receive = Receive
  NoCall = NoCall
INVARIANTS NoSleeperOnWork
PROPERTIES SleeperReturnsServed ImplementsQueue
CHECK_DEADLOCK FALSE
