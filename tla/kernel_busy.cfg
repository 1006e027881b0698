SPECIFICATION SafeSpec
CONSTANTS
  NumCpus = 1
  high = high  low = low  irqTask0 = irqTask0  irqTask1 = irqTask1
  h1 = h1  h2 = h2  l1 = l1  irq0 = irq0  irq1 = irq1
  Tasks <- OneTasks
  Threads <- OneThreads
  TaskOf <- OneTaskOf
  IrqThread <- OneIrqThread
  Rank <- FlatRank
  KernelTime = TRUE
  Idle = Idle
  None = None
INVARIANTS SystemStatus NobodyStranded RunsInItsMode NobodyBlockedForGood UnblockIsLegal
CHECK_DEADLOCK FALSE
