SPECIFICATION SafeSpec
CONSTANTS
  a = a  b = b  w = w  l1 = l1  l2 = l2
  Threads = {a, b, w}
  Rank <- MCRank
  Locks = {l1, l2}
  TimedCallers = {w}
  Disturbances = {"signal", "cancel"}
  MaxCount = 2
  MaxNumber = 2
  MaxEntries = 1
  NoCall = NoCall
INVARIANTS FlagsMatchHolders NumberMatchesHoldings NoSleeperOnFreeLock WaitsForOthers
PROPERTIES SleeperReturnsAsHolder
SYMMETRY Equals
CHECK_DEADLOCK FALSE
