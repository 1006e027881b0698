------------------------------- MODULE Kernel -------------------------------
(***************************************************************************)
(* SCoPE's kernel: the processors' loop (rtos/kernel/uc_cpu_class.cpp), the *)
(* task and thread schedulers and the threads' states, with preemption,    *)
(* interrupts and blocking.                                                *)
(*                                                                         *)
(* Each processor is one SystemC coroutine.  It keeps control from a wait  *)
(* to the next ("turn"); only while it waits do the others and the         *)
(* hardware move.  A thread's code runs in no time up to its next yield,   *)
(* and the time it annotated is waited for afterwards, in wait_time.  An   *)
(* interrupt ends that wait early: the thread then resumes it later.       *)
(*                                                                         *)
(* Goodness is a constant: m_RR_counter never moves, because the tick      *)
(* takes it from cpu->m_prev_task, which nothing sets.  The interruption   *)
(* thread and the thread it creates for the handler are one thread here,   *)
(* the handler takes no time up to its yield, and each processor has one   *)
(* interrupt number, so that none waits behind another's mask.  Threads    *)
(* start initialised, and any user thread may run on any processor.        *)
(***************************************************************************)
EXTENDS WaitList, FiniteSets

CONSTANTS NumCpus,
          Tasks, Threads,
          TaskOf,       \* the task each thread belongs to
          IrqThread,    \* each processor's interruption thread
          Rank,         \* goodness of each task and each thread
          KernelTime,   \* whether kernel code takes simulated time
          Idle, None    \* the idle task; no task, thread or processor

Cpus == 0..(NumCpus - 1)
IrqThreads == {IrqThread[c] : c \in Cpus}
UserThreads == Threads \ IrqThreads
IrqTask(c) == TaskOf[IrqThread[c]]
ThreadsOf(task) == {t \in Threads : TaskOf[t] = task}

ASSUME CpusAssumption == NumCpus \in Nat \ {0}
ASSUME TasksAssumption ==
  /\ IsFiniteSet(Tasks) /\ IsFiniteSet(Threads)
  /\ Idle \notin Tasks /\ None \notin Tasks \cup Threads \cup Cpus \cup {Idle}
  /\ TaskOf \in [Threads -> Tasks]
  /\ \A task \in Tasks : ThreadsOf(task) # {}
ASSUME IrqAssumption ==
  /\ IrqThread \in [Cpus -> Threads]
  /\ \A c \in Cpus : ThreadsOf(IrqTask(c)) = {IrqThread[c]}
  /\ \A c, d \in Cpus : IrqThread[c] = IrqThread[d] => c = d
ASSUME RankAssumption == Rank \in [Tasks \cup Threads -> Nat]
ASSUME KernelTimeAssumption == KernelTime \in BOOLEAN

\* UC_process_states, in its order: update_state compares them.
Zombie == 0
Blocked == 1
Waiting == 2
Created == 3
Ready == 4
User == 5
SuperUser == 6
States == 0..6
Listed == {Waiting, Ready}      \* the states of the ready lists
Executing == {User, SuperUser}

VARIABLES
  k,         \* what the schedulers and the threads keep, see TypeOK
  phase,     \* each processor: "sched", "run", "wait" or "idle"
  on,        \* the thread each processor executes
  turn,      \* the processor that has control, or None
  busy,      \* threads with m_parser_time left to wait
  handling,  \* processors whose handler has run and has not cleared its bit:
             \* the interrupt is masked there
  pos,       \* each user thread: in "user" code, in a "kernel" call, or "gone"
  sleepers   \* threads asleep on the clock, until the handler wakes them

vars == <<k, phase, on, turn, busy, handling, pos, sleepers>>

----------------------------------------------------------------------------
\* Lists and states.

Orders(S) == {list \in [1..Cardinality(S) -> S] : On(list) = S}
ToFront(list, x) == <<x>> \o Without(list, x)
ToBack(list, x) == Append(Without(list, x), x)

\* UC_task_scheduler_class::change_state, on m_ready_list: the other lists
\* are read by check_system_status only.  A task whose threads are all ZOMBIE
\* is deleted.
MoveTask(s, task, old, new) ==
  LET gone == new = Zombie
  IN  [s EXCEPT
        !.taskState[task] = new,
        !.ready = IF new \notin Listed THEN Without(@, task)
                  ELSE IF old = SuperUser THEN ToFront(@, task)
                  ELSE ToBack(@, task),
        !.current = IF gone THEN None ELSE @,
        !.cpuTask = IF gone /\ s.taskCpu[task] # None
                    THEN [@ EXCEPT ![s.taskCpu[task]] = None] ELSE @]

\* UC_task_class::update_state: a task is as far up as its highest thread.
UpdateTask(s, task, new) ==
  LET old == s.taskState[task]
      others == {s.state[t] : t \in ThreadsOf(task)}
      highest == CHOOSE x \in {new} \cup others : \A y \in {new} \cup others : x >= y
  IN  IF new = old THEN s
      ELSE MoveTask(s, task, old, IF new > old THEN new ELSE highest)

\* set_next_state: only these steps, and only from the state the thread is in.
Legal == {<<Blocked, Ready>>, <<Waiting, User>>, <<Created, Ready>>,
          <<Ready, SuperUser>>, <<User, SuperUser>>}
           \cup ({SuperUser} \X {Waiting, Blocked, Ready, Zombie})

SetNext(s, t, from, to) ==
  IF s.state[t] = from /\ <<from, to>> \in Legal THEN [s EXCEPT !.next[t] = to] ELSE s

\* Seeded fault: a thread that gets the processor stays in the ready list.
RelistStays(s, t, old, new) ==
  [s EXCEPT !.threadReady[TaskOf[t]] =
              IF new \in Listed \/ new = Blocked THEN ToBack(@, t) ELSE @,
            !.kmode[t] = IF old = User THEN TRUE ELSE @ /\ new # Waiting]

\* UC_thread_scheduler_class::change_state, all but awake_processor: the
\* thread's place in its task's ready list, then the task.
Relist(s, t, old, new) ==
  LET task == TaskOf[t]
      list == CASE old \in {Blocked, Created} -> ToBack(s.threadReady[task], t)
                [] old = SuperUser /\ new \in Listed -> ToFront(s.threadReady[task], t)
                [] old = User -> s.threadReady[task]
                [] OTHER -> Without(s.threadReady[task], t)
      mode == CASE old = User -> TRUE
                [] <<old, new>> = <<SuperUser, Waiting>> -> FALSE
                [] OTHER -> s.kmode[t]
      freed == old = SuperUser /\ new # Zombie
  IN  [s EXCEPT !.threadReady[task] = list,
                !.kmode[t] = mode,
                !.taskCpu[task] = IF freed THEN None ELSE @,
                !.running[task] = IF new = Zombie /\ @ = t THEN None ELSE @]

\* What update_state does to a thread with a new state, without
\* awake_processor; a step change_state does not know changes no list.
Enter(s, t) ==
  LET old == s.state[t]
      new == s.next[t]
      s1 == [s EXCEPT !.state[t] = new]
  IN  IF <<old, new>> \in Legal THEN UpdateTask(Relist(s1, t, old, new), TaskOf[t], new)
      ELSE s1

\* Seeded fault: the processor is not notified.
SendIrqSilently(s, c) ==
  LET raised == [s EXCEPT !.active = @ \cup {c}]
  IN  IF c \in handling THEN raised
      ELSE Enter(SetNext(raised, IrqThread[c], Blocked, Ready), IrqThread[c])

\* UC_cpu_class::send_irq, with interrupts enabled: masked, it leaves its bit
\* only.  awake_processor has nobody else to wake for the interruption thread,
\* which runs on this processor only.
SendIrq(s, c) ==
  LET t == IrqThread[c]
      raised == [s EXCEPT !.active = @ \cup {c}]
  IN  IF c \in handling THEN raised
      ELSE [Enter(SetNext(raised, t, Blocked, Ready), t) EXCEPT !.notified = @ \cup {c}]

\* awake_processor: an interrupt to the first idle processor.
IdleFor(s, t) == {c \in Cpus : s.cpuTask[c] = Idle /\ t \notin IrqThreads}
Awake(s, t) ==
  IF IdleFor(s, t) = {} THEN s
  ELSE SendIrq(s, CHOOSE c \in IdleFor(s, t) : \A d \in IdleFor(s, t) : c <= d)

\* UC_thread_class::update_state.
Update(s, t) ==
  LET wakes == <<s.state[t], s.next[t]>> \in Legal /\ s.next[t] \in Listed
  IN  IF wakes THEN Awake(Enter(s, t), t) ELSE Enter(s, t)

Go(s, t, from, to) == Update(SetNext(s, t, from, to), t)

----------------------------------------------------------------------------
\* Waiting and waking.  One object's list of blocked threads stands for all.

\* Seeded fault: the thread leaves the list without update_state().
UnblockWithoutUpdate(s, t) ==
  [SetNext(s, t, Blocked, Ready) EXCEPT !.list = Without(@, t)]

\* Seeded fault: the thread is woken and stays on the list.
UnblockKeepsEntry(s, t) ==
  IF s.state[t] = Blocked THEN Go(s, t, Blocked, Ready)
  ELSE [s EXCEPT !.fatal = t \in On(s.list)]

\* UC_thread_class::unblock.  A thread on a list that is neither BLOCKED nor in
\* SUPER_USER ends the program ("fatal"); one on no list that is not BLOCKED yet
\* is ignored, and sleeps on ("missed", which is history).
Unblock(s, t) ==
  LET s1 == CASE s.state[t] = Blocked -> Go(s, t, Blocked, Ready)
              [] s.state[t] # Blocked /\ t \notin On(s.list) ->
                   [s EXCEPT !.missed = @ \cup {t}]
              [] s.state[t] = SuperUser /\ t \in On(s.list) ->
                   [SetNext(s, t, SuperUser, Ready) EXCEPT !.preempt[t] = Ready]
              [] OTHER -> [s EXCEPT !.fatal = TRUE]
  IN  [s1 EXCEPT !.list = Without(@, t)]

\* The first n threads of the list, in its order.
UnblockFirst(s, n) ==
  LET upTo[i \in 0..n] == IF i = 0 THEN s ELSE Unblock(upTo[i - 1], s.list[i])
  IN  upTo[n]

----------------------------------------------------------------------------
\* UC_task_scheduler_class::reschedule.

\* Seeded fault: the first in the list, whatever its rank.
FirstOf(list, S) == list[CHOOSE i \in 1..Len(list) :
                           list[i] \in S /\ \A j \in 1..(i - 1) : list[j] \notin S]

\* The first of the highest rank, of those in S.
Best(list, S) ==
  list[CHOOSE i \in 1..Len(list) :
         /\ list[i] \in S
         /\ \A j \in 1..Len(list) : list[j] \in S => Rank[list[j]] <= Rank[list[i]]
         /\ \A j \in 1..(i - 1) : list[j] \in S => Rank[list[j]] < Rank[list[i]]]

\* The thread the scheduler takes for the current one: m_current_task is the
\* scheduler's, not the processor's.
Previous(s) == IF s.current \in Tasks THEN s.running[s.current] ELSE None

IfExecuting(s, t, x) == IF t # None /\ s.state[t] \in Executing THEN <<x>> ELSE <<>>

\* m_cpu_mask: every processor for a user task, its own for an interruption task.
MayRunOn(s, task, c) == /\ s.taskCpu[task] \in {c, None}
                        /\ \A d \in Cpus : task = IrqTask(d) => c = d

\* The current task goes before the ready list.
TaskList(s) == IfExecuting(s, Previous(s), s.current) \o s.ready

TaskCandidates(s, c) == On(IfExecuting(s, Previous(s), s.current))
                          \cup {task \in On(s.ready) : MayRunOn(s, task, c)}

IrqDue(s, c) == c \in s.active /\ s.threadReady[IrqTask(c)] # <<>>

\* The next task, or Idle.
NextTask(s, c) ==
  IF IrqDue(s, c) THEN IrqTask(c)
  ELSE IF TaskCandidates(s, c) = {} THEN Idle
  ELSE Best(TaskList(s), TaskCandidates(s, c))

\* UC_thread_scheduler_class::reschedule.
ThreadList(s, task) ==
  IfExecuting(s, s.running[task], s.running[task]) \o s.threadReady[task]

NextThread(s, task) == Best(ThreadList(s, task), On(ThreadList(s, task)))

\* Seeded fault: the thread that loses the processor keeps its state.
PreemptNobody(s, t) == s

\* The thread that loses the processor goes to the front of the ready list.
Preempt(s, t) ==
  IF s.state[t] = SuperUser THEN Go(Go(s, t, SuperUser, Blocked), t, Blocked, Ready)
  ELSE LET s1 == Go(s, t, s.state[t], SuperUser)
       IN  Go(s1, t, s1.state[t], Waiting)

\* Seeded fault: every thread is resumed as if in user code.
ResumeAsUser(s, t) == Go(s, t, Waiting, User)

\* A thread that kept the processor is resumed too: Go then takes it to the
\* state it was about to yield for.
Resume(s, t) ==
  IF ~s.kmode[t] THEN Go(s, t, Waiting, User)
  ELSE IF s.state[t] = SuperUser THEN s
  ELSE Go(s, t, Ready, SuperUser)

\* The processor goes from the current thread to another one, or keeps it.
Switch(s, c, task, thread) ==
  LET prev == Previous(s)
      s1 == [s EXCEPT !.taskCpu[task] = c, !.current = task, !.cpuTask[c] = task]
      s2 == IF prev \in {None, thread} THEN s1 ELSE Preempt(s1, prev)
      s3 == IF s.current \in Tasks \ {task} THEN [s2 EXCEPT !.taskCpu[s.current] = None]
            ELSE s2
  IN  [Resume(s3, thread) EXCEPT !.running[task] = thread, !.taskCpu[task] = c]

Reschedule(s, c) ==
  LET task == NextTask(s, c)
  IN  IF task = Idle THEN [s EXCEPT !.current = Idle, !.cpuTask[c] = Idle]
      ELSE Switch(s, c, task, NextThread(s, task))

----------------------------------------------------------------------------
\* The processor's loop.

Phases == {"sched", "run", "wait", "bus", "idle"}

Running(c) == /\ turn = c /\ phase[c] = "run" /\ ~k.fatal
              /\ on[c] \notin busy

HasTurn(c) == turn \in {c, None} /\ ~k.fatal

\* reschedule(this); with nothing to run, wait for m_resume_cpu.
Dispatch(c) ==
  /\ HasTurn(c) /\ phase[c] = "sched"
  /\ k' = Reschedule(k, c)
  /\ IF k'.current = Idle
     THEN /\ phase' = [phase EXCEPT ![c] = "idle"]
          /\ on' = [on EXCEPT ![c] = None]
          /\ turn' = None
     ELSE /\ phase' = [phase EXCEPT ![c] = "run"]
          /\ on' = [on EXCEPT ![c] = k'.running[k'.current]]
          /\ turn' = c
  /\ UNCHANGED <<busy, handling, pos, sleepers>>

\* The end of wait_time: the thread enters the state it yielded for.
Complete(s, t) == Update([s EXCEPT !.next[t] = s.preempt[t]], t)

\* The processor goes on to reschedule, or to bus_access if the thread left
\* transfers behind.
AfterWait(c) ==
  \E next \in {"sched", "bus"} :
    /\ phase' = [phase EXCEPT ![c] = next]
    /\ turn' = IF next = "sched" THEN c ELSE None

\* A thread's code up to its yield, then wait_time, skipped when the code
\* annotated no time.  s is what the code leaves.
Segment(c, s) ==
  LET t == on[c]
      s1 == [s EXCEPT !.preempt[t] = s.next[t]]
      mayTake == /\ t \notin IrqThreads
                 /\ k.state[t] = SuperUser => KernelTime
  IN  /\ UNCHANGED on
      /\ \/ /\ mayTake
            /\ k' = s1
            /\ busy' = busy \cup {t}
            /\ phase' = [phase EXCEPT ![c] = "wait"]
            /\ turn' = None
         \/ /\ k' = Complete(s1, t)
            /\ AfterWait(c)
            /\ UNCHANGED busy

Moves(t, to) == pos' = [pos EXCEPT ![t] = to]

\* A call enters the kernel: posix_user_to_superuser.
EnterKernel(c) ==
  /\ Running(c) /\ on[c] \in UserThreads /\ pos[on[c]] = "user"
  /\ Segment(c, SetNext(k, on[c], User, SuperUser))
  /\ Moves(on[c], "kernel")
  /\ UNCHANGED <<handling, sleepers>>

InKernel(c) == Running(c) /\ on[c] \in UserThreads /\ pos[on[c]] = "kernel"

\* A call returns, having woken the first n threads of a list.
Leave(c) ==
  /\ InKernel(c)
  /\ \E n \in 0..Len(k.list) :
       Segment(c, SetNext(UnblockFirst(k, n), on[c], SuperUser, Waiting))
  /\ Moves(on[c], "user")
  /\ UNCHANGED <<handling, sleepers>>

\* A call blocks on a list.
Block(c) ==
  /\ InKernel(c)
  /\ Segment(c, SetNext([k EXCEPT !.list = Append(@, on[c])], on[c], SuperUser, Blocked))
  /\ UNCHANGED <<handling, pos, sleepers>>

\* A call sleeps on the clock: clock_nanosleep.
Sleep(c) ==
  /\ InKernel(c)
  /\ Segment(c, SetNext(k, on[c], SuperUser, Blocked))
  /\ sleepers' = sleepers \cup {on[c]}
  /\ UNCHANGED <<handling, pos>>

\* destroy_thread: off the lists, and those who wait for the end are woken.
Exit(c) ==
  LET t == on[c]
      s1 == SetNext(Go(k, t, User, SuperUser), t, SuperUser, Zombie)
      s2 == [s1 EXCEPT !.list = Without(@, t)]
  IN  /\ Running(c) /\ t \in UserThreads /\ pos[t] = "user"
      /\ \E n \in {0, Len(s2.list)} : Segment(c, UnblockFirst(s2, n))
      /\ Moves(t, "gone")
      /\ sleepers' = sleepers \ {t}
      /\ UNCHANGED handling

\* interruption_handler and the handler it runs, behind the mask: it may wake
\* a thread, and yields before the interrupt is cleared.
Handler(c) ==
  LET t == on[c]
  IN  /\ Running(c) /\ t = IrqThread[c] /\ c \notin handling
      /\ \E woken \in {{}} \cup {{x} : x \in sleepers \cup On(k.list)} :
           LET s == IF woken = {} THEN k ELSE Unblock(k, CHOOSE x \in woken : TRUE)
           IN  /\ Segment(c, SetNext(s, t, SuperUser, Waiting))
               /\ sleepers' = sleepers \ woken
      /\ handling' = handling \cup {c}
      /\ UNCHANGED pos

\* The rest of interrupt_wrapper: the bit is cleared, also of an interrupt
\* raised since, which is lost.  The handler's thread ends, and the
\* interruption thread is BLOCKED.
HandlerEnd(c) ==
  LET t == on[c]
      s == [k EXCEPT !.active = @ \ {c}]
  IN  /\ Running(c) /\ t = IrqThread[c] /\ c \in handling
      /\ Segment(c, Go(Go(s, t, User, SuperUser), t, SuperUser, Blocked))
      /\ handling' = handling \ {c}
      /\ UNCHANGED <<pos, sleepers>>

\* An interrupted thread is resumed with time left: it waits for the rest.
Continue(c) ==
  /\ turn = c /\ phase[c] = "run" /\ on[c] \in busy
  /\ phase' = [phase EXCEPT ![c] = "wait"]
  /\ turn' = None
  /\ UNCHANGED <<k, on, busy, handling, pos, sleepers>>

\* The annotated time has passed, perhaps at the instant of an interrupt.
Elapse(c) ==
  /\ turn = None /\ phase[c] = "wait" /\ ~k.fatal
  /\ \E left \in {k.notified, k.notified \ {c}} :
       k' = Complete([k EXCEPT !.notified = left], on[c])
  /\ busy' = busy \ {on[c]}
  /\ AfterWait(c)
  /\ UNCHANGED <<on, handling, pos, sleepers>>

\* m_resume_cpu ends the wait, or wakes the idle processor.
Interrupted(c) ==
  /\ turn = None /\ phase[c] \in {"wait", "idle"} /\ c \in k.notified /\ ~k.fatal
  /\ phase' = [phase EXCEPT ![c] = "sched"]
  /\ turn' = c
  /\ k' = [k EXCEPT !.notified = @ \ {c}]
  /\ UNCHANGED <<on, busy, handling, pos, sleepers>>

\* bus_access does not wait for m_resume_cpu, and a notification then is lost.
BusDone(c) ==
  /\ turn = None /\ phase[c] = "bus" /\ ~k.fatal
  /\ \E left \in {k.notified, k.notified \ {c}} : k' = [k EXCEPT !.notified = left]
  /\ phase' = [phase EXCEPT ![c] = "sched"]
  /\ turn' = c
  /\ UNCHANGED <<on, busy, handling, pos, sleepers>>

\* The hardware raises an interrupt, once every processor is past the boot.
HardIrq(c) ==
  /\ turn = None /\ ~k.fatal
  /\ \A d \in Cpus : phase[d] # "sched"
  /\ k' = SendIrq(k, c)
  /\ UNCHANGED <<phase, on, turn, busy, handling, pos, sleepers>>

\* The end of the boot: the interruption threads have run up to their first
\* yield, and every other thread is ready to start.
Init ==
  /\ \E order \in Orders({TaskOf[t] : t \in UserThreads}),
        threads \in [Tasks -> UNION {Orders(ThreadsOf(task)) : task \in Tasks}],
        last \in Cpus :
       /\ \A task \in Tasks : On(threads[task]) = ThreadsOf(task)
       /\ LET start == [t \in Threads |-> IF t \in IrqThreads THEN Blocked ELSE Waiting]
              isIrq == [task \in Tasks |-> \E c \in Cpus : task = IrqTask(c)]
          IN  k = [state |-> start, next |-> start, preempt |-> start,
                   kmode |-> [t \in Threads |-> t \in IrqThreads],
                   ready |-> order,
                   threadReady |-> [task \in Tasks |-> IF isIrq[task] THEN <<>> ELSE threads[task]],
                   taskState |-> [task \in Tasks |-> IF isIrq[task] THEN Blocked ELSE Waiting],
                   taskCpu |-> [task \in Tasks |-> None],
                   running |-> [task \in Tasks |-> IF isIrq[task] THEN threads[task][1] ELSE None],
                   current |-> IrqTask(last),
                   cpuTask |-> [c \in Cpus |-> IrqTask(c)],
                   active |-> {}, notified |-> {}, list |-> <<>>, missed |-> {}, fatal |-> FALSE]
  /\ phase = [c \in Cpus |-> "sched"]
  /\ on = [c \in Cpus |-> IrqThread[c]]
  /\ turn = None
  /\ busy = {}
  /\ handling = {}
  /\ pos = [t \in UserThreads |-> "user"]
  /\ sleepers = {}

Run(c) == \/ EnterKernel(c) \/ Leave(c) \/ Block(c) \/ Sleep(c) \/ Exit(c)
          \/ Handler(c) \/ HandlerEnd(c) \/ Continue(c)

\* What the coroutine of a processor does when it is due.
Loop(c) == Dispatch(c) \/ Run(c) \/ Interrupted(c) \/ BusDone(c)

Next == \E c \in Cpus : Loop(c) \/ Elapse(c) \/ HardIrq(c)

SafeSpec == Init /\ [][Next]_vars

Due(c) == /\ HasTurn(c)
          /\ phase[c] \in {"wait", "idle"} => turn = None /\ c \in k.notified

\* SystemC runs a coroutine that is due: some Loop step is then enabled, and
\* each changes its phase.  A thread interrupted again and again gets to the
\* end of its wait: only the time left is waited for again.
Fairness ==
  \A c \in Cpus :
    /\ WF_phase(Due(c) /\ \E p \in Phases : phase' = [phase EXCEPT ![c] = p])
    /\ \A t \in UserThreads : SF_vars(Elapse(c) /\ on[c] = t)

Spec == SafeSpec /\ Fairness

\* The interrupts leave some time to the threads.
Quiet == \A c \in Cpus : []<>(c \notin k.active /\ phase[c] # "bus")

----------------------------------------------------------------------------
\* What the kernel is for.

\* What k ranges over.
KernelStates ==
  [state : [Threads -> States], next : [Threads -> States],
   preempt : [Threads -> States], kmode : [Threads -> BOOLEAN],
   ready : Seq(Tasks), threadReady : [Tasks -> Seq(Threads)],
   taskState : [Tasks -> States], taskCpu : [Tasks -> Cpus \cup {None}],
   running : [Tasks -> Threads \cup {None}],
   current : Tasks \cup {Idle, None},
   cpuTask : [Cpus -> Tasks \cup {Idle, None}],
   active : SUBSET Cpus, notified : SUBSET Cpus,
   list : Seq(UserThreads), missed : SUBSET UserThreads, fatal : BOOLEAN]

\* Every variable is in its domain, the lists hold nobody twice, and control
\* is with a processor that is not waiting.
TypeOK ==
  /\ k \in KernelStates
  /\ NoRepeat(k.ready) /\ NoRepeat(k.list)
  /\ \A task \in Tasks : NoRepeat(k.threadReady[task])
  /\ phase \in [Cpus -> Phases]
  /\ on \in [Cpus -> Threads \cup {None}]
  /\ turn \in Cpus \cup {None}
  /\ turn # None => phase[turn] \in {"sched", "run"}
  /\ busy \subseteq Threads
  /\ handling \subseteq Cpus
  /\ pos \in [UserThreads -> {"user", "kernel", "gone"}]
  /\ sleepers \subseteq UserThreads

\* The assertions of UC_task_scheduler_class::check_system_status: the ready
\* lists hold exactly the threads and tasks in READY or WAITING, and a task is
\* in the state of its highest thread.
SystemStatus ==
  \A task \in Tasks :
    LET states == {k.state[t] : t \in ThreadsOf(task)}
    IN  /\ On(k.threadReady[task]) = {t \in ThreadsOf(task) : k.state[t] \in Listed}
        /\ task \in On(k.ready) <=> k.taskState[task] \in Listed
        /\ k.taskState[task] \in states
        /\ \A x \in states : x <= k.taskState[task]

\* A thread in USER or SUPER_USER is executed by a processor: when reschedule
\* takes its processor away it is in the ready list again.
NobodyStranded ==
  \A t \in Threads : k.state[t] \in Executing => \E c \in Cpus : on[c] = t

\* Preempted wherever it was, a thread goes on in SUPER_USER inside the kernel
\* and in USER outside: set_next_state refuses its next step otherwise.
RunsInItsMode ==
  \A c \in Cpus :
    Running(c) /\ on[c] \in UserThreads =>
      k.state[on[c]] = IF pos[on[c]] = "kernel" THEN SuperUser ELSE User

\* A thread is BLOCKED only while something is left to wake it, a list it is on
\* or its entry with the clock, but for one whose sleep ended before it was
\* BLOCKED: preempted between its push and BLOCKED or not, no thread on a list is
\* overlooked by whoever takes it off.
NobodyBlockedForGood ==
  \A t \in UserThreads :
    k.state[t] = Blocked => t \in On(k.list) \cup sleepers \cup k.missed

\* unblock() ends the simulation only over a thread that was preempted between
\* its push on the list and BLOCKED, which has kernel time left to wait.
UnblockIsLegal ==
  k.fatal => \E t \in busy : k.state[t] = Ready /\ k.preempt[t] = Blocked

\* An interrupt raised while its handler is not in progress gets its handler
\* run, and every handler comes to its end.  One raised while the handler is in
\* progress may be cleared with the first.
InterruptServed ==
  \A c \in Cpus : /\ c \in k.active \ handling ~> c \in handling
                  /\ c \in handling ~> c \notin handling

\* A thread ready in the first rank, of its task and in it, comes to execute
\* if the interrupts leave some time to the threads.
TopRank(t) ==
  /\ \A task \in Tasks \ {TaskOf[t]} : Rank[task] < Rank[TaskOf[t]]
  /\ \A u \in ThreadsOf(TaskOf[t]) \ {t} : Rank[u] < Rank[t]
TopRankRuns ==
  Quiet => \A t \in {u \in Threads : TopRank(u)} :
             k.state[t] \in Listed ~> k.state[t] \in Executing
=============================================================================
