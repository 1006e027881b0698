SPECIFICATION Spec
CONSTANTS
  Threads = {t1, t2, t3, t4}
  NoThread = NoThread
  MaxLocks = 2
INVARIANTS
  HeldMatchesOwner
  NoLostWakeup
  OwnerDoesNotWait
PROPERTIES
  SleeperReturnsAsOwner
  WaitersGetAChance
  ImplementsService
CHECK_DEADLOCK FALSE
