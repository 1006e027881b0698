SPECIFICATION Spec
CONSTANTS
  MaxThreads = 3
  MaxKeyIds = 3
  MaxKeys = 3
  MaxDepth = 2
  Scenes <- MCScenes
INVARIANTS NoJoinerForgotten JoinReturnsAfterEnd EndsClean
PROPERTIES CancelledEnds
CHECK_DEADLOCK FALSE
