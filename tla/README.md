# SCoPE in TLA+

SCoPE (`src/SCoPE/trunk/scope`) simulates an embedded multiprocessor with its
operating system: processors are SystemC coroutines, application threads run
natively on host threads, and a simulated RTOS schedules them and offers the
POSIX and MicroC/OS-II calls. This directory models the parts where threads,
interrupts and the scheduler meet, checks them with TLC and proves what can be
proved with TLAPS.

Paths below are relative to `src/SCoPE/trunk/scope/`.

## The system

### How it executes

Everything runs one at a time. A processor (`UC_cpu_class::init`) loops: ask the
scheduler for a thread, let it run *in zero simulated time* up to its next
`stp_yield`, wait for the time the thread annotated (`wait_time`), wait for its
bus transfers (`bus_access`), and start again. While one processor waits, the
others and the hardware move. Hence two rules that every module uses:

* code between two `stp_yield` calls is atomic: an API call is cut only where it
  blocks, and at its entry and exit, where the C wrappers yield;
* a thread has its effects *before* the time they take: an interrupt may arrive
  while the thread is waiting for that time, on its way to the state it asked for.

### Inventory

| Component (sources) | State | Operations | Talks to | What makes it correct |
|---|---|---|---|---|
| Kernel: processors, task and thread schedulers (`rtos/kernel/uc_cpu_class.cpp`, `uc_task_scheduler_class.cpp`, `uc_thread_scheduler_class.cpp`, `uc_task_class.cpp`, `uc_thread_class.cpp`) | state, next and preempt state and mode of each thread; ready lists of tasks and of each task's threads; the current task of the scheduler and of each processor; pending interrupts | reschedule, set_next_state / update_state, block, unblock, wait_time, send_irq, interruption_handler, destroy_thread | every API call; the tick and device handlers; HAL by bus accesses | lists agree with states; no thread lost on preemption; a blocked thread has a waker; no idling over ready work; interrupts served; the first in rank runs |
| Mutexes, condition variables (`rtos/api/posix/uc_pthread_mutex_class.cpp`, `uc_pthread.cpp`) | owner, depth, list of blocked threads | lock, trylock, timedlock, unlock, cond_wait, timedwait, signal, broadcast | block / unblock; cancellation; signals | mutual exclusion; no lost wake-up; a waiter returns owning the mutex |
| Semaphores (`uc_semaphore.cpp`) | counter below zero for waiters, list, registry of names | wait, trywait, timedwait, post, open, close, unlink, destroy | the same and the clock's sleep list | no token invented or lost |
| Clocks, timers, sleeps (`uc_tic_timer_class.cpp`) | counters of each clock, sorted lists of sleepers and timers | tick handler, nanosleep, timer_*, clock_settime | interrupts; unblock; signals | every sleep ends on its tick, once, not early; timers fire |
| Threads: create, join, cancel, exit (`uc_pthread.cpp`, `uc_stdlib.cpp`) | attributes, cancel state, end value, joiners, keys, cleanup handlers | create, join, detach, cancel, testcancel, keys, exit | kernel, all lists | joiners wake, after the end; every handler runs; a cancellation gets through |
| Signals (`uc_signals_control.cpp`, `uc_signal.cpp`) | masks, pending sets, queues of instances, wait sets | kill, sigqueue, sigwait, sigsuspend, delivery at each yield | unblock | nobody sleeps on what is pending; what is pending is looked for |
| Read-write locks (`uc_pthread_rwlock.cpp`) | holders, mode, list | rdlock, wrlock, try and timed forms, unlock | block / unblock | readers exclude writers |
| Message queues (`uc_mqueue.cpp`) | messages by priority, two wait lists, notification | send, receive, timed forms, notify | block / unblock; signals | no message lost; capacity; order |
| MicroC/OS-II API (`rtos/api/ucos/`) | event flag groups with their wait lists; handles of POSIX objects | OS*Pend, OS*Post, ... | kernel; POSIX calls | nobody sleeps on flags that are there; the rest as its POSIX counterpart |
| Interrupt mask, drivers, I/O (`rtos/drivers/`) | stack of masks, table of handlers, open files | request_irq, next_mask / previous_mask, read, write, poll | kernel, HAL | masks nest |
| Caches (`rtos/kernel/uc_icache.cpp`, `uc_dcache.cpp`) | tags and pending misses | access, sync_misses | bus | estimation only |
| HAL (`hal/`) | bus queue, address map, DMA registers, NoC packets | transport, arbitration, DMA transfer, APIC | kernel by interrupts | requests served, none mixed up |
| Coroutines (`rtos/qt_interface/uc_stp.cpp`) | one host thread and mutex per process | create, yield | processors | exactly one runs |

M3Explorer (design-space exploration over real-valued metrics), the M3 plug-in,
TLM2, tinyxml and the examples are outside. `PROJECT.json` lists every component
with its status.

### What is hard here

* interleaving at yields: a thread woken, cancelled, signalled and timed out in
  any order, with every waiter of an object woken at once and racing to retry;
* the window between joining a list and being BLOCKED, when kernel code takes time;
* flags of a thread that are set and never reset (`m_timeout_expired`,
  `m_signal_executed`) and state that outlives the wait it belongs to;
* a scheduler with one "current task" for all processors;
* lists that only some state transitions update.

The hazards in `PROJECT.json` give the lines.

## Modules

`WaitList` — the `vector<UC_thread_class *>` every object keeps of its blocked
threads: `On`, `Without` (the erase in `unblock`), `NoRepeat`. Its lemmas are
proved in `WaitList_proofs`.

`MutexService` — abstract: one holder; grants go to threads that ask, in no
promised order; a free mutex that is asked for is eventually granted or given up.
`PthreadMutex` — one mutex of any type and one condition variable. `pc` is the
yield a thread is in; `owner`, `numLocks`, `blocked`, `waiters` are the fields of
the classes; `held` is history: what return values told each thread. Each action
is one segment of a call (`Lock` / `Retry` are turns of the loop in `lock()`,
`CondWait` runs up to `block()`, `Relock` is the rest). Cancellation and signals
unblock a thread from whichever list it is on. It implements `MutexService`.

`TokenPool` — abstract: tokens are put, asked for, taken if available.
`Semaphore` — one semaphore. A waiter is charged before it sleeps and paid back by
the post; `tokens` and `lost` are the history the books are balanced against:
`lost` counts the charges nobody will pay back, which really happens when a
signal, a cancellation or a late clock entry takes a waiter off the list. Deadlines
lie in the future. It implements `TokenPool`, which promises only safety;
that a token is taken in the end is `TokenServed`, with the exceptions it names.

`RWService` — abstract: readers together or one writer alone, for several locks;
a free lock that is asked for is granted or given up on.
`RWLock` — the read-write locks of one process, several at once because a thread
keeps one number, `inRwlock` (`m_in_rwlock`), for all of them. A turn of the loops
in `rdlock` and `wrlock` is `Turn`, in the timed calls `TimedTurn`; `Record` is what
a successful turn writes down. `spin` is the turn of a timed call that neither
leaves its loop nor yields: `continue_loop` does not let it leave, or its deadline
does not make it sleep (`LateTurn`: the current tick, or malformed). A thread that
calls `pthread_exit`, or is cancelled, lets go of its locks (`BeginExit`, `Exit`); one
that returns from its start routine keeps them (`Finish`). `nested` is history. It
implements `RWService`, its liveness as long as nobody spins (`Running`).

`PriorityQueue` — abstract: messages by priority and age, in a bounded queue; who
could be served while he waits is served or gives up.
`MQueue` — one queue and the processes that opened it. `Turn` is a turn of the loops
in `timedsend` and `timedreceive` without a deadline, `TimedTurn` with one; `call` is
what a waiting thread is to do, a priority or `Receive`. A message is its priority
and the process it came from. `mq_unlink` works on a pointer that was never assigned
and has no action. It implements `PriorityQueue`.

`Kernel` — the processors' loop, both schedulers and the threads' states. `k` is what the
kernel's objects keep, a record because one `reschedule` changes most of it through a
dozen calls of `set_next_state` / `update_state`, which are written as operators from one
record to the next (`Go`, `Preempt`, `Resume`, `Unblock`, `Reschedule`). `phase`, `on` and
`turn` are the coroutines. `pos` is where each thread's code really is, so that the
kernel's idea of it (`kmode`, the state) can be compared with it. `Segment` is a thread's
code up to its yield followed by `wait_time`; `Elapse`, `Interrupted` and `Continue` are
the ways that wait ends and goes on; `HardIrq` is the hardware. `interrupt_wrapper` runs
the handler (`Handler`), which yields, and clears the interrupt's bit afterwards
(`HandlerEnd`); the processor is in `handling` in between, and an interrupt raised there
is lost. `k.missed` is history: threads whose sleep ended before they were BLOCKED.
`MCKernel` gives one processor with two tasks (one of two threads) or two processors with
one thread each.

Abstractions of `Kernel`: goodness is a constant `Rank` per task and per thread
(round-robin counters never change, which is itself a finding); one list of blocked
threads stands for all; the thread that runs an interrupt's handler is merged with the
interruption thread, and the handler takes no time up to its yield; one interrupt number
per processor, so that none waits behind another's mask; threads are all created, and
started, at the end of the boot. A bus access follows any segment.

`Signals` — the signals of one process. `pend` and `queue` are the pending sets and
the sizes of the instance lists of the process and of each thread, `received` the
threads with `m_signal_received`, `inSignal` their `m_in_signal`. `SignalProcess` and
`SignalThread` generate; `Start`, `HandlerEnd` and `StopTurn` enter the loop of
`execute_signals`, whose four ways out are `StopHere`, `RunHandler`, `Continued` and
`AllDone`. `frames` is the C++ stack of that loop: which handlers, stops and
suspensions a thread is inside of, with the mask and the point each goes back to.
`excused` is history: signals a thread was never told of, because a wait set took
them (and a wait set outlives its `sigwait`) or SIGCONT's default action forgot them.
Signals whose default action ends the process, and SIGCHLD, are left out.

`TicTimer` — one clock: its list of sleep entries and its list of timers, the sleeps
(`Nanosleep` relative and absolute, `TimedWait`) that make entries, the wake-ups that
zero them, interval timers, `Tick` and `ClockSettime`. An entry's counter is unsigned in
the code and counts modulo `Wide`; an absolute time is its distance from the clock.
`left` is the ticks a sleep has really left. `jumped`, `back` and `mixed` are history: the
clock was set, or set back, and a timer that is not active stood in front of others.

`PthreadLifecycle` — the threads of a task from `pthread_create` to their deletion by
the processor (`Reap`). `process` is a record of what the code keeps. The end of a thread
walks its keys by index and its handlers by depth, one step per destructor or
handler, because those are the program's own and may block. `Scenes` are sets of
features; a behaviour uses those of one, so that each pair of features that interact
meets while the state space stays small.

`UcosFlags` — one MicroC/OS-II event flag group, the only objects of that API that do
their own waiting. A record of the wait list is a local of `uc_FlagBlock`: after a
timeout or a signal it stays on the list, and what a post then finds there is any
wait or nothing it knows. `disturbed` and `overlooked` are the history of the threads
this happens to and of those a consumption satisfies without telling them.

Operators introduced by "Seeded fault" are faulty variants of the definition that
follows. No specification uses them; substituting one shows that the property
paired with it in `PROJECT.json` does catch that fault.

## Runs

| Run | Instance | Shows |
|---|---|---|
| `mutex` | 4 threads, depth 2, all types, fair | mutual exclusion as callers see it, no sleeper on a free mutex, who may wait for himself, sleepers return as owners; `MutexService` implemented, and no thread left asleep while the mutex is freed again and again |
| `sem_disturbed` | 3 threads, ≤2 tokens, timed waits, signals, cancellations, ≤1 lost charge, ≤1 clock entry of a thread | the books balance, tokens only go to threads that asked and are there when they go, and a token that somebody waits for is taken, unless a charge was forgotten or a timed waiter is in the way |
| `rw_disturbed` | 2 locks, 3 threads of 2 ranks, depth 2, one caller of timed calls, signals, cancellations, threads that return with their locks | flags say exactly who holds a lock, a thread's one number is right for all its locks unless it ever locked one twice, no sleeper on a free lock, who may wait for himself, sleepers return as holders |
| `rw_service` | 1 lock, 3 threads, depth 2, timed calls with late deadlines too, destruction, fair | `RWService` implemented, with its liveness as long as nobody spins; a timed call spins only over a lock it cannot have |
| `mqueue` | 3 threads of 2 processes, 2 priorities, 2 messages, one caller of timed calls, signals, cancellations, setattr, open, close, fair | no sleeper on a message or on room, sleepers return served, `PriorityQueue` implemented with liveness |
| `kernel_single` | 1 processor, 3 threads and an interruption thread in 3 tasks, kernel takes no time, fair | every interrupt raised while its handler is not in progress is served, and every handler ends, however many are raised; the first in rank gets the processor if they leave time |
| `kernel_busy` | the same, all ranks equal, kernel code takes time, so that threads are preempted inside calls | `check_system_status` holds, no thread lost or resumed in the wrong mode; whoever is BLOCKED is on a list or asleep, but for a sleep that ended too early, and `unblock` exits only over a thread preempted between its push and BLOCKED |
| `kernel_smp` (violated) | 2 processors, one thread each | a thread is left in SUPER_USER with no processor and in no list |
| `signals` | 2 threads, one standard and one real-time signal, stop and continue, 3 sent, 2 chained | a pending instance has its information, nobody sleeps in `sigwait` on a pending signal or in a stop that was taken back, what is pending is looked for, who is to take a signal is awake |
| `tic_timer` | 2 threads, 2 timers or one of each, 3 deadlines around now, wake-ups, ≤2 entries of a thread, the clock set forward and back | no sleep lasts beyond its tick, a woken wait ends, no sleep returns early, no timer is left behind: each but for an exception the code has and the property names |
| `lifecycle` | up to 3 threads, 3 keys, depth 2, in scenes of features, fair | joins end with their threads and not before, ends run all handlers and clear all keys, a cancellation ends its thread |
| `ucos_flags` | 2 threads, 2 bits, all kinds of waits, consumption, timeouts, signals | nobody sleeps on bits that are there, whoever is woken has bits that satisfy it |

Bounds. Three threads are the least with an owner, a waiter and a third who overtakes it,
and four let two waiters be cancelled and overtaken; two tokens make a post with waiters
differ from one without. In `Kernel` a task of two threads and one of a single thread give
every pair: two threads of a task, threads of two tasks, and either against the
interruption thread; nothing else is bounded there. `MaxLocks`, `MaxTokens`, `MaxLost` and
`MaxEntries` only cut the state space, and so does `MaxNumber`: the number a thread keeps
of its read-write locks grows without bound when it locks recursively. Three threads on
one lock of which two are equals give a reader, a writer and one who comes before both,
and two locks give a thread that holds one and asks for the other. Two messages of two
priorities make order and capacity differ, and a process of two threads shares the
descriptor that one of them changes. Three signals sent to two threads with two chained
give a handler inside a handler inside a stop, and one instance taken by each side of a
queue of two. In `TicTimer` two entries of a thread let a stale one meet a fresh one (the
other POSIX modules allow one, stale or fresh but not both at once), and two sleepers
and two timers on a clock give every order of two entries, and an absolute and a relative
one that `clock_settime` moves past each other; a third thread would only lengthen the
list. Three threads in `PthreadLifecycle` are one that ends, one that joins it and one
that cancels either. Two bits tell ALL from ANY, and three records on the list let one
that is erased have a neighbour on both sides.

Deadlock is not checked where the system really stops: all threads gone (the POSIX
modules), a timed call that spins (`rw_disturbed`, `rw_service`), or `exit(-1)`
(`kernel_busy`).

Fairness. A thread that was made READY eventually runs its next segment (`RunWoken`), and
the clock comes to every entry of its list (`EntryDue`, served by the tick's interrupt):
the POSIX modules take this from the kernel, and `TopRankRuns` shows how far it holds —
for the first in rank, or when those before it block. In `PthreadLifecycle` a thread that
was cancelled goes on (`Honour`), and destructors and handlers, which are the program's,
come to their ends. `Signals`, `TicTimer` and `UcosFlags` state no fairness: their
properties are about states and steps. In `Kernel`, SystemC runs a coroutine that is due
(weak fairness of its phase: each of its steps changes the phase), and the wait of a
thread ends even if it is interrupted again and again, because only the remaining time is
waited for (strong fairness of `Elapse`, per thread). That interrupts are served and
handlers end (`InterruptServed`) needs no more than this; `TopRankRuns` takes `Quiet` as
its hypothesis, that interrupts leave time, because with an interrupt at the end of every
handler's bus access no thread would ever run.

## Proofs

| Theorem (module) | For any number of threads |
|---|---|
| `MutualExclusion`, `ListsAreExact`, `NoSleeperOnFreeMutex`, `OwnersSleepNowhereElse`, `SleepersReturnAsOwners`, `TypeCorrect`, `Refinement` (`PthreadMutex_proofs`) | the safety properties of `mutex` and the safety part of `MutexService` |
| `BooksBalance`, `NoOvergrant`, `NoSleeperOnToken`, `ListIsExact`, `TypeCorrect`, `Refinement` (`Semaphore_proofs`) | the safety properties of `sem_disturbed`, `TokenPool` included |
| `InstancesThere`, `NoLostWakeup`, `AllTold`, `TakersAreAwake`, `TypeCorrect` (`SignalsClock_proofs`) | the properties of `signals`, for any signals, masks, handlers and wait sets too |
| `NobodyOversleeps`, `WokenWaitsEnd`, `NobodyReturnsEarly`, `TimersExpireOnTime`, `SleepsFit`, `TimersFitAlways`, `ClockTypeCorrect` (`SignalsClock_proofs`) | the properties of `tic_timer`, for any timers, times and widths of the counters too, and the two invariants they follow from |
| `CapacityKept`, `NobodySleepsOnWork`, `ListsAreExact`, `SleepersReturnServed`, `TypeCorrect` (`MQueue_proofs`) | the safety properties of `mqueue` except the order of `PriorityQueue` |
| `ReadersOrOneWriter`, `NoSleeperForgotten`, `ListsAreExact`, `NumberIsRight`, `WaitingForOthers`, `ClockWakesEnd`, `SleepersReturnAsHolders`, `TypeCorrect`, `Refinement` (`RWLock_proofs`) | the safety properties of `rw_disturbed` and `rw_service`, for any number of locks too, and the safety part of `RWService` |
| `StatusChecks`, `ExecutingHasProcessor`, `ModeIsKept`, `BlockedCanBeWoken`, `UnblockRefusesOnlyPreempted`, `TypeCorrect` (`KernelFlags_proofs`) | with one processor, for any tasks, threads and ranks: the properties of `kernel_busy` |
| `NothingLostWithoutKernelTime` (`KernelFlags_proofs`) | with one processor whose kernel code takes no time: whoever is BLOCKED is on a list or asleep, and `unblock` never exits |
| `NobodySleepsOnReady`, `WokenFindsItsFlags`, `FlagsTypeCorrect` (`KernelFlags_proofs`) | both properties of `ucos_flags`, for any flags and waits and however many records outlive their pends |
| `JoinsReturnWithTheEnd`, `JoinersAreAwaked`, `EndsRunClean`, `TypeCorrect` (`PthreadLifecycle_proofs`) | the safety properties of `lifecycle`, for any number of keys and handlers and in any scene, all features together included |

They assume only the named assumptions of the modules: the marker `NoThread` is
not a thread, the sets of threads are finite where counted, bounds are naturals,
and for the signals that the numbers differ, the handlers' masks and what threads ask
for are sets of maskable signals, and the process is not a thread. For the read-write locks
ranks are naturals, and in `PthreadLifecycle` there is a first thread. The theorems about
`Kernel` say `NumCpus = 1` in their statements, because with two processors the code
does not keep what they say (`kernel_smp`), and `NothingLostWithoutKernelTime` also says
`KernelTime = FALSE`: with kernel time a thread preempted between `block`'s push and
BLOCKED ends the simulation and a sleep may be missed (see Findings).
`NobodyReturnsEarly` has the hypothesis `InRange`, that deadlines fit the counters (64 bits
in the code). `KernelFlags_proofs` and `SignalsClock_proofs` hold the proofs of two modules
each that do not use each other; this is why `UcosFlags` and `TicTimer` have names of
their own (`Callers`, `FlagsSpec`, `Sleepers`, `ClockSpec`).

All follow one plan: an inductive invariant, one lemma per action that it is
kept, and each property as a consequence. It must be stronger than the
properties. For the mutex, mutual exclusion needs the count of locks to be tied
to the owner, and `unblock` keeps the lists exact only because no list holds a
thread twice and no thread is on both. For the semaphore, "no sleeper while there
is a token" needs the equation that ties counter, sleepers and forgotten charges
to the tokens, which in turn needs the list to have as many elements as there are
blocked threads (`WaitList_proofs` ties length, set and erase). For the queue, a
sleeper woken by a send is off the list whatever becomes of it, so the lists and
the number of messages have to be carried together. For the signals the stack of
frames has to be right (`NestedFrames`): a stop returns to the frame it pushed, and a
suspension is always the outermost, or the point a handler returns to would have no
mask to go with. The loop of `execute_signals` is proved once (`LoopKeeps`), from
whatever its thread comes to it with, and used for its three entries; that the lowest
signal exists at all follows from the well-ordering of the naturals.
For the read-write locks the flags of a lock, its holders and the histories of the
callers are tied to each other lock by lock, and a sleeper is on the list of the lock
it asked for and of no other; the thread's one number is carried along because what a
lock call answers depends on what the thread did to *other* locks. For the event flags
the records on the list are more than the sleepers, so the invariant says of each
sleeper only that a record of its own is there, alive and with its wait, and of a
thread that only posts ever woke that it has no other. For
the threads it ties each list of joiners to `awaited`; since the end of a thread and
`exit` change most of `process` through a chain of operators, what an operator leaves
of the *other* threads is one relation (`Others`) with a lemma for each of them, and
the relation is transitive. That an end leaves no values needs to know how far its walk
over the keys has got while others create and delete keys under it: all keys before
`place` are clean, and `place` is that of the key whose destructor runs or, after one
deletion at or before it, of the next one (`Tidy`).

The kernel's invariant has two halves. `InOrder(k)` is about the record alone: lists,
states of tasks and modes agree. Every change is a chain of `Go`, each of which is a step
between two states of a thread that `Legal` allows, and a step that is not would leave
lists behind; so each link has a lemma that says when the step is allowed and what it
leaves (`Enters`, `Pauses`, `Resumes`), and `UnblockFirst` is a walk whose lemma is proved
from the first position at which it would fail. The other half ties the record to the
processor, at each point of its loop: the thread that executes is the one `Previous`
finds, nobody else is in USER or SUPER_USER (`Execution`); an interruption thread is
BLOCKED unless its interrupt is due, and keeps the interrupt's bit until its handler has
ended, WAITING or in USER in between (`Interruption`), or the dispatch would run a handler
with nothing to handle; and what a thread is about to enter (`preempt`) is what its code,
its state and the time it still has to wait allow (`CodeFits`), which is what makes the
next step of the chain an allowed one. `Wakeable` is about wake-ups: whoever is BLOCKED,
or will be when his time is over, is on a list, asleep or missed, and only a thread
preempted on its way to BLOCKED makes `unblock` exit. `Calm` is what holds besides when
kernel code takes no time: only user code is waited for, so nobody is on a list before he
is BLOCKED.

The clock has an invariant for each of its lists. For the sleeps (`SleepInv`) the loop of
a tick stops at the first entry that still counts, so nobody oversleeps only if the
counters ascend; a wake-up zeroes counters in the middle, and so they ascend but for the
zeroes. A sleeper needs an entry of his own among those he left behind: he has at most one
that is not stale, and who has a stale one was signalled. The counter of that entry is
tied to `left` from both sides, which are the two halves of "on time". For the timers
(`TimerInv`) the list is sorted by expiry as long as no timer that is not active stands
before an active one, and once one does, a tick does not undo it. Both loops are recursive
functions, whose existence and whose effect are proved by the smallest turn at which they
would fail (`FireSleepsFires`, `FireTimersFires`); that the loop over the timers ends
within as many turns as the list is long is counted by the timers that are due.

Model-checked only: liveness and the liveness part of the refinements (fairness
and ENABLED are beyond TLAPS), what recursive definitions compute for every
input, and the order of messages (`SelectSeq` over the list of all priorities) with the
refinement of `PriorityQueue`.

## Findings

`kernel_smp`: `reschedule` takes the previous task from the scheduler, not from
the processor.

The modules have more behaviour that surprises but that no line of the repository
speaks against, or that no run is spent on. The properties name it where they make an
exception for it.

* Kernel: `block(list, time)` never joins the list, so a post does not wake a timed
  waiter. With kernel time, a thread preempted between `block`'s push and BLOCKED is READY
  with a list entry, and `unblock` of it calls `exit(-1)`; one in SUPER_USER that is on no
  list is ignored by `unblock` (uc_thread_class.cpp:516), so that a sleep that ends before
  its thread is BLOCKED never wakes it (`missed`). An interrupt raised after its handler's
  yield and before the bit is cleared (uc_cpu_class.cpp:607-616) is cleared with the first
  and lost; the `#if 0` block at lines 479-486 would report it. `m_prev_task` is never
  assigned, so the round-robin counters never move and equals do not take turns.
* Read-write locks: an inner unlock leaves `m_in_rwlock` behind, so that a thread that
  ever locked recursively is answered EDEADLK by the lock calls of the other kind for ever
  (`nested`); a reader that locks again what it holds while somebody of its rank waits
  sleeps on its own lock (`WaitsForOthers`); `timedrdlock` never resets `continue_loop`,
  so that after a signal it may loop without a yield and the simulation stands still
  (`spin`); so does a timed call for a lock that is taken whose deadline is the current
  tick or malformed, since `clock_nanosleep` returns at once and sets no
  `m_timeout_expired` (`LateTurn`); `sem_timedwait` and the timed queue calls have the
  same loop for a deadline equal to now, which `Semaphore` and `MQueue` leave out; a
  thread that returns from its start routine keeps its locks for ever; `tryrdlock` tests
  `init` the wrong way round and answers EINVAL on every initialised lock.
* Signals: a wait set outlives its `sigwait` and keeps taking signals of the process
  (`excused`); `sigsuspend` sleeps over a signal it opens; `m_signal_executed` is never
  reset, so that after its first handler every interrupted sleep of a thread is EINTR;
  SIGCONT's default action leaves `m_in_signal` one too high, and after ten of them the
  thread takes no more signals; `is_waiting_signal` is never set, so the resending at the
  end of `execute_signals` is dead.
* Clock: a timer that is disarmed or was never armed stops all behind it in the list
  (`mixed`); setting the clock back ends absolute sleeps, setting it forward can
  leave a sleeper behind others (`jumped`, `back`); a deadline already past is a huge
  counter.
* Threads: a join between a thread's end and its deletion sleeps for ever (`late`); a
  signal makes a join return 0 early (`poked`); `exit` cancels its own caller, which dies
  in its first join unless its cancellation is disabled; two keys deleted under one
  destructor make the walk skip a third (`skipped`); returning from the start routine
  runs neither destructors nor handlers (`returned`); cancelling a thread whose
  cancellation is disabled is forgotten.
* Event flags: a consumption tells nobody (`overlooked`), consuming CLR_ANY at once sets
  all other bits, and a thread whose pend ever timed out is answered OS_TIMEOUT by every
  later timed pend.

## Plan

Done: WaitList, PthreadMutex, Semaphore, RWLock, MQueue, Kernel, Signals, TicTimer,
PthreadLifecycle, UcosFlags. Left, in this order:

1. `Interrupts`: the two-level interruption thread (dispatcher and wrapper), several
   interrupt numbers and the stack of masks, one raised behind another's mask; refined
   to "raised while its handler is not in progress implies served".
2. `Bus`, `Dma`: arbitration and transfers of the HAL.
3. The MicroC/OS-II queues, mailboxes and semaphores against the abstract modules
   their POSIX counterparts implement; `pthread_cond_timedwait`.

## Not modelled

Spin locks (one owner, a loop that yields), the real-valued estimation code (caches'
timing, energy, statistics), file descriptors and host calls, XML, M3Explorer, third-party
code.
