SPECIFICATION Spec
CONSTANTS
  a = a  b = b  w = w  l1 = l1  l2 = l2
  Threads = {a, b, w}
  Rank <- MCRank
  Locks = {l1}
  TimedCallers = {a, b, w}
  Disturbances = {"destroy", "late"}
  MaxCount = 2
  MaxNumber = 2
  MaxEntries = 1
  NoCall = NoCall
INVARIANT SpinsOnTakenLock
PROPERTY ImplementsService
CHECK_DEADLOCK FALSE
