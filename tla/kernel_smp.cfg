SPECIFICATION SafeSpec
CONSTANTS
  NumCpus = 2
  high = high  low = low  irqTask0 = irqTask0  irqTask1 = irqTask1
  h1 = h1  h2 = h2  l1 = l1  irq0 = irq0  irq1 = irq1
  Tasks <- TwoTasks
  Threads <- TwoThreads
  TaskOf <- TwoTaskOf
  IrqThread <- TwoIrqThread
  Rank <- TwoRank
  KernelTime = FALSE
  Idle = Idle
  None = None
INVARIANT NobodyStranded
