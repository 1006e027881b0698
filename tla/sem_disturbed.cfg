SPECIFICATION Spec
CONSTANTS
  Threads = {t1, t2, t3}
  InitialValues = {0, 1}
  Disturbances = {"timed", "signal", "cancel"}
  MaxTokens = 2
  MaxLost = 1
  MaxEntries = 1
INVARIANTS TokenAccounting
PROPERTIES HandsOutTokens TokenServed
CHECK_DEADLOCK FALSE
