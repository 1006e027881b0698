------------------------------ MODULE MCKernel ------------------------------
(***************************************************************************)
(* Kernel on small instances: a task with two threads, a task with one,    *)
(* and an interruption task for each processor.                            *)
(***************************************************************************)
EXTENDS Kernel, TLC

CONSTANTS high, low, irqTask0, irqTask1, h1, h2, l1, irq0, irq1

\* One processor.
OneTasks == {high, low, irqTask0}
OneThreads == {h1, h2, l1, irq0}
OneTaskOf == (h1 :> high) @@ (h2 :> high) @@ (l1 :> low) @@ (irq0 :> irqTask0)
OneIrqThread == 0 :> irq0
\* high goes first, and h2 within it.
OneRank == [x \in OneTasks \cup OneThreads |-> IF x \in {high, h2} THEN 2 ELSE 1]
\* Everything alike, as SCHED_OTHER threads of the same nice value are.
FlatRank == [x \in OneTasks \cup OneThreads |-> 1]

\* Two processors.
TwoTasks == OneTasks \cup {irqTask1}
TwoThreads == {h1, l1, irq0, irq1}
TwoTaskOf == (h1 :> high) @@ (l1 :> low) @@ (irq0 :> irqTask0) @@ (irq1 :> irqTask1)
TwoIrqThread == (0 :> irq0) @@ (1 :> irq1)
TwoRank == [x \in TwoTasks \cup TwoThreads |-> 1]
=============================================================================
