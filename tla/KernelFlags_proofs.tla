-------------------------- MODULE KernelFlags_proofs -------------------------
(***************************************************************************)
(* Proofs about Kernel, and about UcosFlags, whose definitions have other  *)
(* names: neither module uses the other.                                   *)
(*                                                                         *)
(* Kernel, with one processor, for any tasks and threads and any ranks:    *)
(* the lists and the states of tasks agree whenever a thread enters a      *)
(* state it may enter; one thread at most executes, the one the schedulers *)
(* take for the current one; a thread's state, with what it is about to    *)
(* enter, follows from the code it is in; and whoever is BLOCKED is on a   *)
(* list, asleep or missed.                                                 *)
(*                                                                         *)
(* UcosFlags, for any threads, bits and waits: while the group exists      *)
(* whoever sleeps in OSFlagPend has a record on the list that says what he *)
(* waits for, and a thread that was only ever woken by posts has no other  *)
(* record there.                                                           *)
(***************************************************************************)
EXTENDS Kernel, UcosFlags, WaitList_proofs, FiniteSetTheorems

Irq == IrqThread[0]

\* The lists of a task hold who is ready, and the task is in the state of its
\* highest thread.
TaskInOrder(s, task) ==
  /\ NoRepeat(s.threadReady[task])
  /\ On(s.threadReady[task]) = {t \in ThreadsOf(task) : s.state[t] \in Listed}
  /\ task \in On(s.ready) <=> s.taskState[task] \in Listed
  /\ \E t \in ThreadsOf(task) : s.taskState[task] = s.state[t]
  /\ \A t \in ThreadsOf(task) : s.state[t] <= s.taskState[task]
  /\ s.running[task] # None => s.running[task] \in ThreadsOf(task)

\* A thread has started, and its mode is the one of its state.
ThreadInOrder(s, t) ==
  /\ s.state[t] # Created
  /\ s.kmode[t] <=> s.state[t] \notin {User, Waiting}

InOrder(s) ==
  /\ s \in KernelStates
  /\ NoRepeat(s.ready) /\ NoRepeat(s.list)
  /\ \A task \in Tasks : TaskInOrder(s, task)
  /\ \A t \in Threads : ThreadInOrder(s, t)

\* What the schedulers leave alone.
Untouched(s, r) ==
  /\ r.next = s.next /\ r.preempt = s.preempt
  /\ r.active = s.active /\ r.notified = s.notified
  /\ r.list = s.list /\ r.fatal = s.fatal /\ r.missed = s.missed

\* r is s after thread t entered state x.  Only the end of a thread changes what
\* the schedulers take for current.
Enters(s, r, t, x) ==
  /\ InOrder(r)
  /\ r.state = [s.state EXCEPT ![t] = x] /\ r.next = [s.next EXCEPT ![t] = x]
  /\ r.preempt = s.preempt /\ r.list = s.list /\ r.fatal = s.fatal /\ r.missed = s.missed
  /\ r.active = s.active /\ r.notified = s.notified
  /\ x # Zombie \/ x = s.state[t] =>
       r.running = s.running /\ r.current = s.current /\ r.cpuTask = s.cpuTask
  /\ \A task \in Tasks : r.running[task] \in {s.running[task], None}
  /\ r.current \in {s.current, None}
  /\ \A c \in Cpus : r.cpuTask[c] \in {s.cpuTask[c], None}

MayEnter(s, t, x) == x = s.state[t] \/ <<s.state[t], x>> \in Legal

----------------------------------------------------------------------------
\* Lists and numbers.

\* A task or thread that is put to the front of a list or to its end is on it once.
LEMMA ToFrontPuts ==
  ASSUME NEW S, NEW list \in Seq(S), NEW x \in S, NoRepeat(list)
  PROVE  /\ ToFront(list, x) \in Seq(S) /\ NoRepeat(ToFront(list, x))
         /\ On(ToFront(list, x)) = On(list) \cup {x}
<1> DEFINE rest == Without(list, x)
<1>1. /\ rest \in Seq(S) /\ NoRepeat(rest) /\ On(rest) = On(list) \ {x}
  BY WithoutErases
<1> HIDE DEF rest
<1> DEFINE new == <<x>> \o rest
<1>2. /\ new \in Seq(S) /\ Len(new) = Len(rest) + 1 /\ new[1] = x
      /\ \A i \in 1..Len(rest) : new[i + 1] = rest[i]
      /\ Len(rest) \in Nat
  BY <1>1
<1> HIDE DEF new
<1>3. \A j \in 1..Len(new) : \/ j = 1
                             \/ j - 1 \in 1..Len(rest) /\ new[j] = rest[j - 1]
  <2> SUFFICES ASSUME NEW j \in 1..Len(new), j # 1
               PROVE  j - 1 \in 1..Len(rest) /\ new[j] = rest[j - 1]
    OBVIOUS
  <2>1. j - 1 \in 1..Len(rest) /\ (j - 1) + 1 = j
    BY <1>2
  <2> QED BY <1>2, <2>1
<1>4. On(new) = On(rest) \cup {x}
  <2>1. ASSUME NEW u \in On(new) PROVE u \in On(rest) \cup {x}
    BY <1>2, <1>3 DEF On
  <2>2. ASSUME NEW u \in On(rest) \cup {x} PROVE u \in On(new)
    <3>1. CASE u = x
      <4>1. 1 \in 1..Len(new)
        BY <1>2
      <4> QED BY <3>1, <4>1, <1>2 DEF On
    <3>2. CASE u \in On(rest)
      <4>1. PICK i \in 1..Len(rest) : rest[i] = u
        BY <3>2 DEF On
      <4>2. i + 1 \in 1..Len(new)
        BY <1>2, <4>1
      <4> QED BY <4>1, <4>2, <1>2 DEF On
    <3> QED BY <2>2, <3>1, <3>2
  <2> QED BY <2>1, <2>2
<1>5. NoRepeat(new)
  <2> SUFFICES ASSUME NEW i \in 1..Len(new), NEW j \in 1..Len(new), new[i] = new[j]
               PROVE  i = j
    BY DEF NoRepeat
  <2>1. x \notin On(rest)
    BY <1>1
  <2>2. CASE i = 1 /\ j = 1
    BY <2>2
  <2>3. CASE i = 1 /\ j # 1
    BY <1>2, <1>3, <2>1, <2>3 DEF On
  <2>4. CASE i # 1 /\ j = 1
    BY <1>2, <1>3, <2>1, <2>4 DEF On
  <2>5. CASE i # 1 /\ j # 1
    <3>1. /\ i - 1 \in 1..Len(rest) /\ j - 1 \in 1..Len(rest)
          /\ rest[i - 1] = rest[j - 1]
      BY <1>3, <2>5
    <3>2. i - 1 = j - 1
      BY <1>1, <3>1 DEF NoRepeat
    <3> QED BY <3>2, <1>2
  <2> QED BY <2>2, <2>3, <2>4, <2>5
<1>6. ToFront(list, x) = new
  BY DEF ToFront, new, rest
<1> QED BY <1>1, <1>2, <1>4, <1>5, <1>6

LEMMA ToBackPuts ==
  ASSUME NEW S, NEW list \in Seq(S), NEW x \in S, NoRepeat(list)
  PROVE  /\ ToBack(list, x) \in Seq(S) /\ NoRepeat(ToBack(list, x))
         /\ On(ToBack(list, x)) = On(list) \cup {x}
<1>1. /\ Without(list, x) \in Seq(S) /\ NoRepeat(Without(list, x))
      /\ On(Without(list, x)) = On(list) \ {x}
  BY WithoutErases
<1>2. x \notin On(Without(list, x))
  BY <1>1
<1>3. /\ ToBack(list, x) \in Seq(S) /\ NoRepeat(ToBack(list, x))
      /\ On(ToBack(list, x)) = On(Without(list, x)) \cup {x}
  BY <1>1, <1>2, AppendAdds DEF ToBack
<1> QED BY <1>1, <1>3

\* Of some states one is the highest.
LEMMA HighestState ==
  ASSUME NEW S \in SUBSET States, S # {}
  PROVE  \E x \in S : \A y \in S : x >= y
<1> DEFINE Top(x) == x \in S /\ \A y \in S : x >= y
<1>1. \A y \in S : y \in Int /\ 0 <= y /\ y <= 6
  BY DEF States
<1>2. ASSUME NEW n \in Int, n \in S, \A y \in S : y <= n
      PROVE  \E x \in S : \A y \in S : x >= y
  BY <1>1, <1>2
<1>3. ASSUME NEW n \in Int, n \notin S, \A y \in S : y <= n
      PROVE  \A y \in S : y <= n - 1
  <2> SUFFICES ASSUME NEW y \in S PROVE y <= n - 1
    OBVIOUS
  <2>1. y \in Int /\ y <= n /\ y # n
    BY <1>1, <1>3
  <2> QED BY ONLY <2>1, n \in Int
<1>4. \E n \in {0, 1, 2, 3, 4, 5, 6} : n \in S /\ \A y \in S : y <= n
  <2>1. 6 \notin S => \A y \in S : y <= 5 BY <1>1, <1>3
  <2>2. 6 \notin S /\ 5 \notin S => \A y \in S : y <= 4 BY <2>1, <1>3
  <2>3. 6 \notin S /\ 5 \notin S /\ 4 \notin S => \A y \in S : y <= 3 BY <2>2, <1>3
  <2>4. S \cap {3, 4, 5, 6} = {} => \A y \in S : y <= 2 BY <2>3, <1>3
  <2>5. S \cap {2, 3, 4, 5, 6} = {} => \A y \in S : y <= 1 BY <2>4, <1>3
  <2>6. S \cap {1, 2, 3, 4, 5, 6} = {} => \A y \in S : y <= 0 BY <2>5, <1>3
  <2>7. 0 \in S \/ 1 \in S \/ 2 \in S \/ 3 \in S \/ 4 \in S \/ 5 \in S \/ 6 \in S
    BY <1>1
  <2> QED BY <1>1, <2>1, <2>2, <2>3, <2>4, <2>5, <2>6, <2>7
<1> QED BY <1>2, <1>4

----------------------------------------------------------------------------
\* A thread enters a state.

\* r is s after a task got the state new: it is where that state belongs, and only
\* a task that is deleted stops being the current one.
PlacesTask(s, r, task, new) ==
  /\ r \in KernelStates /\ Untouched(s, r)
  /\ r.state = s.state /\ r.threadReady = s.threadReady
  /\ r.kmode = s.kmode /\ r.running = s.running
  /\ r.taskState = [s.taskState EXCEPT ![task] = new]
  /\ NoRepeat(r.ready)
  /\ On(r.ready) = IF new \in Listed THEN On(s.ready) \cup {task} ELSE On(s.ready) \ {task}
  /\ new # Zombie => r.current = s.current /\ r.cpuTask = s.cpuTask
  /\ r.current \in {s.current, None}
  /\ \A c \in Cpus : r.cpuTask[c] \in {s.cpuTask[c], None}

\* UC_task_scheduler_class::change_state.
LEMMA MoveTaskPlaces ==
  ASSUME NEW s \in KernelStates, NoRepeat(s.ready), NEW task \in Tasks,
         NEW old \in States, NEW new \in States,
         NEW r, r = MoveTask(s, task, old, new)
  PROVE  PlacesTask(s, r, task, new)
<1> DEFINE queue == IF new \notin Listed THEN Without(s.ready, task)
                    ELSE IF old = SuperUser THEN ToFront(s.ready, task)
                    ELSE ToBack(s.ready, task)
           current == IF new = Zombie THEN None ELSE s.current
           cpuTask == IF new = Zombie /\ s.taskCpu[task] # None
                      THEN [s.cpuTask EXCEPT ![s.taskCpu[task]] = None] ELSE s.cpuTask
<1>1. s.ready \in Seq(Tasks)
  BY DEF KernelStates
<1>2. /\ queue \in Seq(Tasks) /\ NoRepeat(queue)
      /\ On(queue) = IF new \in Listed THEN On(s.ready) \cup {task}
                     ELSE On(s.ready) \ {task}
  <2>1. CASE new \notin Listed
    BY <1>1, <2>1, WithoutErases
  <2>2. CASE new \in Listed /\ old = SuperUser
    BY <1>1, <2>2, ToFrontPuts
  <2>3. CASE new \in Listed /\ old # SuperUser
    BY <1>1, <2>3, ToBackPuts
  <2> QED BY <2>1, <2>2, <2>3
<1>3. /\ current \in Tasks \cup {Idle, None}
      /\ current \in {s.current, None} /\ (new # Zombie => current = s.current)
  BY DEF KernelStates
<1>4. /\ cpuTask \in [Cpus -> Tasks \cup {Idle, None}]
      /\ new # Zombie => cpuTask = s.cpuTask
      /\ \A c \in Cpus : cpuTask[c] \in {s.cpuTask[c], None}
  BY DEF KernelStates
<1>5. r = [s EXCEPT !.taskState[task] = new, !.ready = queue, !.current = current,
                    !.cpuTask = cpuTask]
  BY DEF MoveTask
<1> HIDE DEF queue, current, cpuTask
<1> DEFINE taskState == [s.taskState EXCEPT ![task] = new]
<1>6. taskState \in [Tasks -> States]
  BY DEF KernelStates
<1>7. r = [s EXCEPT !.taskState = taskState, !.ready = queue, !.current = current,
                    !.cpuTask = cpuTask]
  BY <1>5
<1> HIDE DEF taskState
<1>8. r \in KernelStates
  BY ONLY <1>2, <1>3, <1>4, <1>6, <1>7, s \in KernelStates DEF KernelStates
<1>9. /\ r.taskState = taskState
      /\ r.ready = queue /\ r.current = current /\ r.cpuTask = cpuTask
  BY ONLY <1>7, s \in KernelStates DEF KernelStates
<1>10. /\ Untouched(s, r) /\ r.state = s.state /\ r.threadReady = s.threadReady
       /\ r.kmode = s.kmode /\ r.running = s.running
  BY ONLY <1>7, s \in KernelStates DEF KernelStates, Untouched
<1> QED BY <1>2, <1>3, <1>4, <1>8, <1>9, <1>10 DEF taskState, PlacesTask

\* UC_thread_scheduler_class::change_state keeps the ready list of the task right
\* for a thread that changes its state by a step it may take, and its mode too.
LEMMA RelistPlaces ==
  ASSUME NEW s, InOrder(s), NEW t \in Threads, NEW new \in States,
         <<s.state[t], new>> \in Legal,
         NEW r, r = Relist([s EXCEPT !.state[t] = new], t, s.state[t], new)
  PROVE  /\ r \in KernelStates /\ Untouched(s, r)
         /\ r.state = [s.state EXCEPT ![t] = new]
         /\ r.ready = s.ready /\ r.taskState = s.taskState
         /\ r.current = s.current /\ r.cpuTask = s.cpuTask
         /\ new # Zombie => r.running = s.running
         /\ \A task \in Tasks : r.running[task] \in {s.running[task], None}
         /\ \A task \in Tasks :
              /\ NoRepeat(r.threadReady[task])
              /\ On(r.threadReady[task]) = {u \in ThreadsOf(task) : r.state[u] \in Listed}
         /\ \A u \in Threads : ThreadInOrder(r, u)
<1> DEFINE task == TaskOf[t]
           old == s.state[t]
           was == s.threadReady[task]
           list == CASE old \in {Blocked, Created} -> ToBack(was, t)
                     [] old = SuperUser /\ new \in Listed -> ToFront(was, t)
                     [] old = User -> was
                     [] OTHER -> Without(was, t)
           mode == CASE old = User -> TRUE
                     [] <<old, new>> = <<SuperUser, Waiting>> -> FALSE
                     [] OTHER -> s.kmode[t]
           cpu == IF old = SuperUser /\ new # Zombie THEN None ELSE s.taskCpu[task]
           runs == IF new = Zombie /\ s.running[task] = t THEN None ELSE s.running[task]
<1>1. /\ s.state \in [Threads -> States] /\ s.kmode \in [Threads -> BOOLEAN]
      /\ s.threadReady \in [Tasks -> Seq(Threads)]
      /\ s.running \in [Tasks -> Threads \cup {None}]
      /\ s.taskCpu \in [Tasks -> Cpus \cup {None}]
  BY DEF InOrder, KernelStates
<1>2. task \in Tasks /\ t \in ThreadsOf(task) /\ old \in States
  BY <1>1, TasksAssumption DEF ThreadsOf
<1>3. /\ was \in Seq(Threads) /\ NoRepeat(was)
      /\ On(was) = {u \in ThreadsOf(task) : s.state[u] \in Listed}
  BY <1>1, <1>2 DEF InOrder, TaskInOrder
<1>4. \/ old = Blocked /\ new = Ready
      \/ old = Waiting /\ new = User
      \/ old = Ready /\ new = SuperUser
      \/ old = User /\ new = SuperUser
      \/ old = SuperUser /\ new \in {Waiting, Blocked, Ready, Zombie}
  BY DEF InOrder, ThreadInOrder, Legal
<1>5. /\ Zombie = 0 /\ Blocked = 1 /\ Waiting = 2 /\ Created = 3 /\ Ready = 4
      /\ User = 5 /\ SuperUser = 6 /\ Listed = {2, 4}
  BY DEF Zombie, Blocked, Waiting, Created, Ready, User, SuperUser, Listed
<1> HIDE DEF was, old
<1>6. /\ list \in Seq(Threads) /\ NoRepeat(list)
      /\ On(list) = IF new \in Listed THEN On(was) \cup {t} ELSE On(was) \ {t}
  <2>1. CASE old = Blocked
    BY <1>3, <1>4, <1>5, <2>1, ToBackPuts
  <2>2. CASE old \in {Waiting, Ready}
    <3>1. list = Without(was, t) /\ new \notin Listed
      BY <1>4, <1>5, <2>2
    <3> QED BY <1>3, <3>1, WithoutErases
  <2>3. CASE old = User
    <3>1. t \notin On(was)
      BY <1>3, <1>5, <2>3 DEF old
    <3> QED BY <1>3, <1>4, <1>5, <2>3, <3>1
  <2>4. CASE old = SuperUser /\ new \in Listed
    BY <1>3, <1>5, <2>4, ToFrontPuts
  <2>5. CASE old = SuperUser /\ new \notin Listed
    BY <1>3, <1>5, <2>5, WithoutErases
  <2> QED BY <1>4, <2>1, <2>2, <2>3, <2>4, <2>5
<1>7. mode \in BOOLEAN /\ (mode <=> new \notin {User, Waiting})
  <2>1. s.kmode[t] \in BOOLEAN /\ (s.kmode[t] <=> old \notin {User, Waiting})
    BY <1>1 DEF InOrder, ThreadInOrder, old
  <2>2. CASE old = User
    BY <1>4, <1>5, <2>2
  <2>3. CASE old = SuperUser /\ new = Waiting
    BY <1>5, <2>3
  <2>4. CASE old # User /\ ~(old = SuperUser /\ new = Waiting)
    <3>1. mode = s.kmode[t]
      BY <2>4
    <3>2. old \notin {User, Waiting} <=> new \notin {User, Waiting}
      BY <1>4, <1>5, <2>4
    <3> QED BY <2>1, <3>1, <3>2
  <2> QED BY <2>2, <2>3, <2>4
<1>8. /\ cpu \in Cpus \cup {None} /\ runs \in Threads \cup {None}
      /\ runs \in {s.running[task], None} /\ (new # Zombie => runs = s.running[task])
  BY <1>1, <1>2
<1>9. r = [s EXCEPT !.state = [s.state EXCEPT ![t] = new],
                    !.threadReady = [s.threadReady EXCEPT ![task] = list],
                    !.kmode = [s.kmode EXCEPT ![t] = mode],
                    !.taskCpu = [s.taskCpu EXCEPT ![task] = cpu],
                    !.running = [s.running EXCEPT ![task] = runs]]
  BY DEF Relist, InOrder, KernelStates, old, was
<1> HIDE DEF list, mode, cpu, runs, task
<1> DEFINE state == [s.state EXCEPT ![t] = new]
           threadReady == [s.threadReady EXCEPT ![task] = list]
           kmode == [s.kmode EXCEPT ![t] = mode]
           taskCpu == [s.taskCpu EXCEPT ![task] = cpu]
           running == [s.running EXCEPT ![task] = runs]
<1>10. /\ state \in [Threads -> States] /\ threadReady \in [Tasks -> Seq(Threads)]
       /\ kmode \in [Threads -> BOOLEAN] /\ taskCpu \in [Tasks -> Cpus \cup {None}]
       /\ running \in [Tasks -> Threads \cup {None}]
  BY <1>1, <1>2, <1>6, <1>7, <1>8
<1>11. r = [s EXCEPT !.state = state, !.threadReady = threadReady, !.kmode = kmode,
                     !.taskCpu = taskCpu, !.running = running]
  BY <1>9
<1>12. s \in KernelStates
  BY DEF InOrder
<1> HIDE DEF state, threadReady, kmode, taskCpu, running
<1>13. r \in KernelStates
  BY ONLY <1>10, <1>11, <1>12 DEF KernelStates
<1>14. /\ r.state = state /\ r.threadReady = threadReady
       /\ r.kmode = kmode /\ r.running = running
  BY ONLY <1>11, <1>12 DEF KernelStates
<1>15. /\ Untouched(s, r) /\ r.ready = s.ready /\ r.taskState = s.taskState
       /\ r.current = s.current /\ r.cpuTask = s.cpuTask
  BY ONLY <1>11, <1>12 DEF KernelStates, Untouched
<1>16. /\ r.state = [s.state EXCEPT ![t] = new]
       /\ r.threadReady = [s.threadReady EXCEPT ![task] = list]
       /\ r.kmode = [s.kmode EXCEPT ![t] = mode]
       /\ r.running = [s.running EXCEPT ![task] = runs]
  BY <1>14 DEF state, threadReady, kmode, running
<1>17. new # Zombie => r.running = s.running
  <2>1. new # Zombie => r.running = [s.running EXCEPT ![task] = s.running[task]]
    BY <1>8, <1>16
  <2> QED BY <1>1, <1>2, <2>1
<1>18. \A other \in Tasks : r.running[other] \in {s.running[other], None}
  BY <1>1, <1>2, <1>8, <1>16
<1>19. ASSUME NEW other \in Tasks
       PROVE  /\ NoRepeat(r.threadReady[other])
              /\ On(r.threadReady[other]) = {u \in ThreadsOf(other) : r.state[u] \in Listed}
  <2>1. CASE other = task
    <3>1. r.threadReady[other] = list
      BY <1>1, <1>16, <2>1
    <3>2. \A u \in ThreadsOf(task) : u \in On(list) <=> r.state[u] \in Listed
      BY <1>1, <1>3, <1>6, <1>16 DEF ThreadsOf
    <3>3. On(list) \subseteq ThreadsOf(task)
      BY <1>2, <1>3, <1>6
    <3> QED BY <2>1, <3>1, <3>2, <3>3, <1>6
  <2>2. CASE other # task
    <3>1. r.threadReady[other] = s.threadReady[other]
      BY <1>1, <1>16, <2>2
    <3>2. \A u \in ThreadsOf(other) : r.state[u] = s.state[u]
      BY <1>1, <1>2, <1>16, <2>2 DEF ThreadsOf
    <3>3. /\ NoRepeat(s.threadReady[other])
          /\ On(s.threadReady[other]) = {u \in ThreadsOf(other) : s.state[u] \in Listed}
      BY DEF InOrder, TaskInOrder
    <3> QED BY <3>1, <3>2, <3>3
  <2> QED BY <2>1, <2>2
<1>20. ASSUME NEW u \in Threads PROVE ThreadInOrder(r, u)
  <2>1. CASE u = t
    <3>1. r.state[u] = new /\ r.kmode[u] = mode
      BY <1>1, <1>16, <2>1
    <3>2. new # Created
      BY <1>4, <1>5
    <3> QED BY <3>1, <3>2, <1>7 DEF ThreadInOrder
  <2>2. CASE u # t
    <3>1. r.state[u] = s.state[u] /\ r.kmode[u] = s.kmode[u]
      BY <1>1, <1>16, <2>2
    <3> QED BY <3>1 DEF InOrder, ThreadInOrder
  <2> QED BY <2>1, <2>2
<1> QED BY <1>16, <1>17, <1>18, <1>19, <1>20, <1>13, <1>15

\* A thread that enters the state it is about to enter leaves everything in order.
LEMMA EnterKeeps ==
  ASSUME NEW s, InOrder(s), NEW t \in Threads, MayEnter(s, t, s.next[t])
  PROVE  Enters(s, Enter(s, t), t, s.next[t])
<1> DEFINE new == s.next[t]
           old == s.state[t]
           task == TaskOf[t]
<1>1. /\ s \in KernelStates /\ s.next \in [Threads -> States]
      /\ s.state \in [Threads -> States] /\ s.taskState \in [Tasks -> States]
  BY DEF InOrder, KernelStates
<1>2. new \in States /\ old \in States /\ task \in Tasks /\ t \in ThreadsOf(task)
  BY <1>1, TasksAssumption DEF ThreadsOf
<1>3. CASE new = old /\ <<old, new>> \notin Legal
  <2>1. [s EXCEPT !.state[t] = new] = s
    <3>1. [s.state EXCEPT ![t] = new] = s.state
      BY <1>1, <1>3
    <3> QED BY <1>1, <3>1 DEF KernelStates
  <2>2. Enter(s, t) = s
    BY <1>3, <2>1 DEF Enter
  <2>3. [s.state EXCEPT ![t] = new] = s.state /\ [s.next EXCEPT ![t] = new] = s.next
    BY <1>1, <1>3
  <2> QED BY <2>2, <2>3 DEF Enters
<1>4. CASE <<old, new>> \in Legal
  <2> HIDE DEF new, old
  <2>1. PICK m : m = Relist([s EXCEPT !.state[t] = new], t, old, new)
    OBVIOUS
  <2>2. Enter(s, t) = UpdateTask(m, task, new)
    BY <1>4, <2>1 DEF Enter, new, old
  <2>3. /\ m \in KernelStates /\ Untouched(s, m)
        /\ m.state = [s.state EXCEPT ![t] = new]
        /\ m.ready = s.ready /\ m.taskState = s.taskState
        /\ m.current = s.current /\ m.cpuTask = s.cpuTask
        /\ new # Zombie => m.running = s.running
        /\ \A other \in Tasks : m.running[other] \in {s.running[other], None}
        /\ \A other \in Tasks :
             /\ NoRepeat(m.threadReady[other])
             /\ On(m.threadReady[other]) = {u \in ThreadsOf(other) : m.state[u] \in Listed}
        /\ \A u \in Threads : ThreadInOrder(m, u)
    BY <1>2, <1>4, <2>1, RelistPlaces DEF old
  <2>4. m.state[t] = new /\ \A u \in Threads \ {t} : m.state[u] = s.state[u]
    BY <1>1, <2>3
  <2>5. m.next = [s.next EXCEPT ![t] = new]
    <3>1. m.next = s.next
      BY <2>3 DEF Untouched
    <3> QED BY <1>1, <3>1 DEF new
  <2>6. ASSUME NEW other \in Tasks \ {task}
        PROVE  TaskInOrder(m, other)
    <3>1. TaskInOrder(s, other)
      BY DEF InOrder
    <3>2. \A u \in ThreadsOf(other) : m.state[u] = s.state[u]
      BY <2>4, <2>6 DEF ThreadsOf
    <3>3. m.running[other] # None => m.running[other] \in ThreadsOf(other)
      BY <2>3, <3>1 DEF TaskInOrder
    <3> QED BY <2>3, <3>1, <3>2, <3>3 DEF TaskInOrder
  <2>7. m.running[task] # None => m.running[task] \in ThreadsOf(task)
    BY <1>2, <2>3 DEF InOrder, TaskInOrder
  <2>8. NoRepeat(m.ready) /\ NoRepeat(m.list)
    BY <2>3 DEF InOrder, Untouched
  <2>9. CASE new = s.taskState[task]
    <3>1. Enter(s, t) = m
      BY <2>2, <2>3, <2>9 DEF UpdateTask
    <3>2. TaskInOrder(m, task)
      <4>1. \A u \in ThreadsOf(task) : s.state[u] <= s.taskState[task]
        BY <1>2 DEF InOrder, TaskInOrder
      <4>2. \A u \in ThreadsOf(task) : m.state[u] <= m.taskState[task]
        BY <1>1, <1>2, <2>3, <2>4, <2>9, <4>1 DEF States, ThreadsOf
      <4>3. m.taskState[task] = m.state[t]
        BY <2>3, <2>4, <2>9
      <4>4. task \in On(m.ready) <=> m.taskState[task] \in Listed
        BY <1>2, <2>3 DEF InOrder, TaskInOrder
      <4> QED BY <1>2, <2>3, <2>7, <4>2, <4>3, <4>4 DEF TaskInOrder
    <3>3. InOrder(m)
      BY <2>3, <2>6, <2>8, <3>2 DEF InOrder
    <3>4. new # s.state[t]
      BY <1>4 DEF old, Legal, Zombie, Blocked, Waiting, Created, Ready, User, SuperUser
    <3> QED BY <2>3, <2>5, <3>1, <3>3, <3>4 DEF Enters, Untouched, new
  <2>10. CASE new # s.taskState[task]
    <3> DEFINE was == s.taskState[task]
               others == {m.state[u] : u \in ThreadsOf(task)}
               highest == CHOOSE x \in {new} \cup others : \A y \in {new} \cup others : x >= y
               up == IF new > was THEN new ELSE highest
    <3>1. Enter(s, t) = MoveTask(m, task, was, up)
      BY <2>2, <2>3, <2>10 DEF UpdateTask
    <3>2. /\ new \in others /\ others \subseteq States /\ highest \in others
          /\ \A y \in others : highest >= y
      <4>1. \A u \in ThreadsOf(task) : m.state[u] \in States
        BY <1>1, <1>2, <2>4 DEF ThreadsOf
      <4>2. {new} \cup others = others /\ others # {} /\ others \in SUBSET States
        BY <1>2, <2>4, <4>1
      <4>3. \E x \in others : \A y \in others : x >= y
        BY <4>2, HighestState
      <4> QED BY <4>2, <4>3
    <3>3. /\ up \in States /\ was \in States
          /\ \E u \in ThreadsOf(task) : up = m.state[u]
          /\ \A u \in ThreadsOf(task) : m.state[u] <= up
      <4>1. CASE new > was
        <5>1. \A u \in ThreadsOf(task) : s.state[u] <= was /\ s.state[u] \in Int
          BY <1>1, <1>2 DEF InOrder, TaskInOrder, States, ThreadsOf
        <5>2. \A u \in ThreadsOf(task) : m.state[u] <= new
          BY <1>1, <1>2, <2>4, <4>1, <5>1 DEF States, ThreadsOf
        <5> QED BY <1>1, <1>2, <2>4, <4>1, <5>2
      <4>2. CASE ~(new > was)
        <5>1. up = highest
          BY <4>2
        <5>2. \A u \in ThreadsOf(task) : m.state[u] \in others
          OBVIOUS
        <5>3. \A y \in others : y <= highest
          BY <3>2 DEF States
        <5>4. \E u \in ThreadsOf(task) : highest = m.state[u]
          BY <3>2
        <5> QED BY <1>1, <1>2, <3>2, <5>1, <5>2, <5>3, <5>4
      <4> QED BY <4>1, <4>2
    <3> HIDE DEF others, highest, up, was
    <3>4. PICK r : r = MoveTask(m, task, was, up)
      OBVIOUS
    <3>5. /\ r \in KernelStates /\ Untouched(m, r)
          /\ r.state = m.state /\ r.threadReady = m.threadReady
          /\ r.kmode = m.kmode /\ r.running = m.running
          /\ r.taskState = [m.taskState EXCEPT ![task] = up]
          /\ NoRepeat(r.ready)
          /\ On(r.ready) = IF up \in Listed THEN On(m.ready) \cup {task}
                           ELSE On(m.ready) \ {task}
          /\ up # Zombie => r.current = m.current /\ r.cpuTask = m.cpuTask
          /\ r.current \in {m.current, None}
          /\ \A c \in Cpus : r.cpuTask[c] \in {m.cpuTask[c], None}
      <4>1. /\ m \in KernelStates /\ NoRepeat(m.ready) /\ task \in Tasks
            /\ was \in States /\ up \in States
        BY <1>2, <2>3, <2>8, <3>3
      <4>2. PlacesTask(m, r, task, up)
        BY ONLY <3>4, <4>1, MoveTaskPlaces
      <4> QED BY <4>2 DEF PlacesTask
    <3>6. /\ r.taskState[task] = up
          /\ \A other \in Tasks \ {task} : r.taskState[other] = m.taskState[other]
      BY <1>1, <1>2, <2>3, <3>5
    <3>7. TaskInOrder(r, task)
      BY <1>2, <2>3, <2>7, <3>3, <3>5, <3>6 DEF TaskInOrder
    <3>8. ASSUME NEW other \in Tasks \ {task} PROVE TaskInOrder(r, other)
      BY <2>6, <3>5, <3>6 DEF TaskInOrder
    <3>9. ASSUME NEW u \in Threads PROVE ThreadInOrder(r, u)
      BY <2>3, <3>5 DEF ThreadInOrder
    <3>10. InOrder(r)
      BY <2>8, <3>5, <3>7, <3>8, <3>9 DEF InOrder, Untouched
    <3>11. new # Zombie => up # Zombie
      BY <1>2, <2>4, <3>3 DEF Zombie, States
    <3>12. new # s.state[t]
      BY <1>4 DEF old, Legal, Zombie, Blocked, Waiting, Created, Ready, User, SuperUser
    <3> QED BY <2>3, <2>5, <3>1, <3>4, <3>5, <3>10, <3>11, <3>12 DEF Enters, Untouched, new
  <2> QED BY <2>9, <2>10
<1> QED BY <1>3, <1>4 DEF MayEnter

\* With one processor that is not idle a thread that becomes ready interrupts
\* nobody.
LEMMA UpdateEnters ==
  ASSUME NumCpus = 1, NEW s, InOrder(s), s.cpuTask[0] # Idle,
         NEW t \in Threads, MayEnter(s, t, s.next[t])
  PROVE  Enters(s, Update(s, t), t, s.next[t])
<1>1. PICK r : r = Enter(s, t)
  OBVIOUS
<1>2. Enters(s, r, t, s.next[t])
  BY <1>1, EnterKeeps
<1>3. Cpus = {0}
  BY DEF Cpus
<1>4. r.cpuTask[0] # Idle
  BY <1>2, <1>3, TasksAssumption DEF Enters
<1>5. IdleFor(r, t) = {}
  BY <1>3, <1>4 DEF IdleFor
<1>6. Awake(r, t) = r
  BY <1>5 DEF Awake
<1>7. Update(s, t) = r
  BY <1>1, <1>6 DEF Update
<1> QED BY <1>2, <1>7

\* set_next_state changes what the thread is about to enter, or nothing.
LEMMA SetNextSets ==
  ASSUME NEW s, InOrder(s), NEW t \in Threads, NEW from \in States, NEW to \in States,
         NEW r, r = SetNext(s, t, from, to)
  PROVE  /\ InOrder(r)
         /\ r = [s EXCEPT !.next = r.next]
         /\ r.next = [s.next EXCEPT ![t] =
                        IF s.state[t] = from /\ <<from, to>> \in Legal THEN to ELSE @]
<1>1. s \in KernelStates /\ s.next \in [Threads -> States]
  BY DEF InOrder, KernelStates
<1>2. CASE s.state[t] = from /\ <<from, to>> \in Legal
  <2>1. PICK next : next = [s.next EXCEPT ![t] = to]
    OBVIOUS
  <2>2. next \in [Threads -> States] /\ r = [s EXCEPT !.next = next]
    BY <1>1, <1>2, <2>1 DEF SetNext
  <2>3. r \in KernelStates /\ r.next = next
    BY ONLY <1>1, <2>2 DEF KernelStates
  <2>4. /\ r.ready = s.ready /\ r.list = s.list /\ r.threadReady = s.threadReady
        /\ r.state = s.state /\ r.taskState = s.taskState /\ r.running = s.running
        /\ r.kmode = s.kmode
    BY ONLY <1>1, <2>2 DEF KernelStates
  <2>5. InOrder(r)
    BY <2>3, <2>4 DEF InOrder, TaskInOrder, ThreadInOrder
  <2> QED BY <1>2, <2>1, <2>2, <2>3, <2>5
<1>3. CASE ~(s.state[t] = from /\ <<from, to>> \in Legal)
  <2>1. r = s
    BY <1>3 DEF SetNext
  <2>2. s = [s EXCEPT !.next = s.next] /\ s.next = [s.next EXCEPT ![t] = s.next[t]]
    BY <1>1 DEF KernelStates
  <2> QED BY <1>3, <2>1, <2>2
<1> QED BY <1>2, <1>3

\* The state a thread goes to when it is told to go from one to another.
Target(s, t, from, to) ==
  IF s.state[t] = from /\ <<from, to>> \in Legal THEN to ELSE s.next[t]

LEMMA GoEnters ==
  ASSUME NumCpus = 1, NEW s, InOrder(s), s.cpuTask[0] # Idle,
         NEW t \in Threads, NEW from \in States, NEW to \in States,
         MayEnter(s, t, Target(s, t, from, to))
  PROVE  Enters(s, Go(s, t, from, to), t, Target(s, t, from, to))
<1>1. PICK m : m = SetNext(s, t, from, to)
  OBVIOUS
<1>2. /\ InOrder(m) /\ m = [s EXCEPT !.next = m.next]
      /\ m.next = [s.next EXCEPT ![t] =
                     IF s.state[t] = from /\ <<from, to>> \in Legal THEN to ELSE @]
  BY <1>1, SetNextSets
<1>3. s \in KernelStates /\ s.next \in [Threads -> States]
  BY DEF InOrder, KernelStates
<1> DEFINE x == Target(s, t, from, to)
<1>4. m.next[t] = x /\ m.next = [s.next EXCEPT ![t] = x]
  BY <1>2, <1>3 DEF Target
<1>5. MayEnter(s, t, x)
  OBVIOUS
<1> HIDE DEF x
<1>6. /\ m.state = s.state /\ m.preempt = s.preempt /\ m.list = s.list
      /\ m.fatal = s.fatal /\ m.missed = s.missed /\ m.active = s.active /\ m.notified = s.notified
      /\ m.running = s.running /\ m.current = s.current /\ m.cpuTask = s.cpuTask
  BY ONLY <1>2, <1>3 DEF KernelStates
<1>7. MayEnter(m, t, m.next[t])
  BY <1>4, <1>5, <1>6 DEF MayEnter
<1>8. Enters(m, Update(m, t), t, m.next[t])
  BY <1>2, <1>6, <1>7, UpdateEnters
<1>9. PICK r : r = Update(m, t)
  OBVIOUS
<1>10. Enters(m, r, t, x)
  BY <1>4, <1>8, <1>9
<1>11. [m.next EXCEPT ![t] = x] = [s.next EXCEPT ![t] = x]
  BY <1>3, <1>4
<1>12. Enters(s, r, t, x)
  BY <1>6, <1>10, <1>11 DEF Enters
<1> QED BY <1>1, <1>9, <1>12 DEF Go, x

----------------------------------------------------------------------------
\* Waking.

\* Who does not execute is not about to go anywhere.
Settled(s) == \A t \in Threads : s.state[t] \notin Executing => s.next[t] = s.state[t]

\* r is s after threads of W were woken: those who were BLOCKED are READY, nobody
\* else moves, and no one is taken off the list that stays BLOCKED.  Who was not
\* BLOCKED is missed, or ends the simulation.
Wakes(s, r, W) ==
  /\ InOrder(r)
  /\ r.preempt = s.preempt /\ r.running = s.running /\ r.current = s.current
  /\ r.cpuTask = s.cpuTask /\ r.active = s.active /\ r.notified = s.notified
  /\ On(r.list) \subseteq On(s.list) /\ On(s.list) \ W \subseteq On(r.list)
  /\ \A t \in Threads :
       \/ r.state[t] = s.state[t] /\ r.next[t] = s.next[t]
       \/ /\ t \in W \ On(r.list)
          /\ s.state[t] = Blocked /\ r.state[t] = Ready /\ r.next[t] = Ready
  /\ \A t \in W \ On(r.list) : r.state[t] # Blocked
  /\ \A t \in W \ On(r.list) : s.state[t] = Blocked \/ t \in r.missed \/ r.fatal
  /\ s.missed \subseteq r.missed /\ (s.fatal => r.fatal)
  /\ (\A t \in On(s.list) : s.state[t] = Blocked) => r.fatal = s.fatal

\* unblock() wakes the thread, when no one on the list executes.
LEMMA UnblockWakes ==
  ASSUME NumCpus = 1, NEW s, InOrder(s), s.cpuTask[0] # Idle, Settled(s),
         \A t \in On(s.list) : s.state[t] \notin Executing,
         NEW x \in UserThreads
  PROVE  Wakes(s, Unblock(s, x), {x})
<1>1. /\ s \in KernelStates /\ NoRepeat(s.list) /\ s.list \in Seq(UserThreads)
      /\ s.state \in [Threads -> States] /\ s.next \in [Threads -> States]
  BY DEF InOrder, KernelStates
<1>2. x \in Threads /\ Blocked # SuperUser /\ Blocked # Zombie
  BY DEF UserThreads, Blocked, SuperUser, Zombie
<1> DEFINE Off(m) == [m EXCEPT !.list = Without(@, x)]
<1>3. ASSUME NEW m, InOrder(m), m.list = s.list
      PROVE  /\ InOrder(Off(m)) /\ On(Off(m).list) = On(s.list) \ {x}
             /\ Off(m) = [m EXCEPT !.list = Off(m).list]
  <2>1. m \in KernelStates
    BY <1>3 DEF InOrder
  <2>2. PICK list : list = Without(m.list, x)
    OBVIOUS
  <2>3. /\ list \in Seq(UserThreads) /\ NoRepeat(list) /\ On(list) = On(s.list) \ {x}
    BY <1>1, <1>3, <2>2, WithoutErases
  <2>4. PICK r : r = [m EXCEPT !.list = list]
    OBVIOUS
  <2>5. Off(m) = r
    BY <2>2, <2>4
  <2>6. r \in KernelStates /\ r.list = list
    BY ONLY <2>1, <2>3, <2>4 DEF KernelStates
  <2>7. /\ r.ready = m.ready /\ r.threadReady = m.threadReady
        /\ r.state = m.state /\ r.taskState = m.taskState /\ r.running = m.running
        /\ r.kmode = m.kmode
    BY ONLY <2>1, <2>4 DEF KernelStates
  <2>8. InOrder(r)
    BY <1>3, <2>3, <2>6, <2>7 DEF InOrder, TaskInOrder, ThreadInOrder
  <2> QED BY <2>3, <2>4, <2>5, <2>6, <2>8
<1>4. ASSUME NEW m, InOrder(m), m.list = s.list,
             m.preempt = s.preempt, m.running = s.running, m.current = s.current,
             m.cpuTask = s.cpuTask, m.active = s.active, m.notified = s.notified,
             \A t \in Threads : \/ m.state[t] = s.state[t] /\ m.next[t] = s.next[t]
                                \/ /\ t = x /\ s.state[t] = Blocked
                                   /\ m.state[t] = Ready /\ m.next[t] = Ready,
             m.state[x] # Blocked, s.state[x] = Blocked \/ x \in m.missed \/ m.fatal,
             s.missed \subseteq m.missed, s.fatal => m.fatal,
             (\A t \in On(s.list) : s.state[t] = Blocked) => m.fatal = s.fatal
      PROVE  Wakes(s, Off(m), {x})
  <2>1. PICK r : r = Off(m)
    OBVIOUS
  <2>2. /\ InOrder(r) /\ On(r.list) = On(s.list) \ {x}
        /\ r = [m EXCEPT !.list = r.list]
    BY <1>3, <1>4, <2>1
  <2>3. m \in KernelStates
    BY <1>4 DEF InOrder
  <2>4. /\ r.preempt = m.preempt /\ r.running = m.running /\ r.current = m.current
        /\ r.cpuTask = m.cpuTask /\ r.active = m.active /\ r.notified = m.notified
        /\ r.state = m.state /\ r.next = m.next /\ r.fatal = m.fatal /\ r.missed = m.missed
    BY ONLY <2>2, <2>3 DEF KernelStates
  <2>5. Wakes(s, r, {x})
    BY <1>4, <2>2, <2>4 DEF Wakes
  <2> QED BY <2>1, <2>5
<1>5. CASE s.state[x] = Blocked
  <2>1. <<Blocked, Ready>> \in Legal /\ Ready # Zombie /\ Ready # Blocked
    BY DEF Legal, Ready, Zombie, Blocked
  <2>2. Target(s, x, Blocked, Ready) = Ready
    BY <1>5, <2>1 DEF Target
  <2>3. MayEnter(s, x, Ready) /\ Blocked \in States /\ Ready \in States
    BY <1>5, <2>1 DEF MayEnter, States, Ready, Blocked
  <2>4. PICK m : m = Go(s, x, Blocked, Ready)
    OBVIOUS
  <2>5. Enters(s, m, x, Ready)
    BY <1>2, <2>2, <2>3, <2>4, GoEnters
  <2>6. /\ \A t \in Threads : \/ m.state[t] = s.state[t] /\ m.next[t] = s.next[t]
                              \/ /\ t = x /\ s.state[t] = Blocked
                                 /\ m.state[t] = Ready /\ m.next[t] = Ready
        /\ m.state[x] # Blocked
    BY <1>1, <1>2, <1>5, <2>1, <2>5 DEF Enters
  <2>7. Wakes(s, Off(m), {x})
    BY <1>4, <1>5, <2>1, <2>5, <2>6 DEF Enters
  <2>8. Unblock(s, x) = Off(m)
    BY <1>2, <1>5, <2>4 DEF Unblock
  <2> QED BY <2>7, <2>8
<1>6. CASE s.state[x] # Blocked /\ x \notin On(s.list)
  <2>1. PICK m : m = [s EXCEPT !.missed = @ \cup {x}]
    OBVIOUS
  <2>2. Unblock(s, x) = Off(m)
    BY <1>6, <2>1 DEF Unblock
  <2>3. m \in KernelStates
    BY ONLY <1>1, <2>1, x \in UserThreads DEF KernelStates
  <2>4. /\ m.ready = s.ready /\ m.threadReady = s.threadReady /\ m.list = s.list
        /\ m.state = s.state /\ m.taskState = s.taskState /\ m.running = s.running
        /\ m.kmode = s.kmode /\ m.next = s.next /\ m.preempt = s.preempt
        /\ m.current = s.current /\ m.cpuTask = s.cpuTask
        /\ m.active = s.active /\ m.notified = s.notified
        /\ m.missed = s.missed \cup {x} /\ m.fatal = s.fatal
    BY ONLY <1>1, <2>1 DEF KernelStates
  <2>5. InOrder(m)
    BY <2>3, <2>4 DEF InOrder, TaskInOrder, ThreadInOrder
  <2> QED BY <1>4, <1>6, <2>2, <2>4, <2>5
<1>7. CASE s.state[x] # Blocked /\ x \in On(s.list)
  <2>1. PICK m : m = [s EXCEPT !.fatal = TRUE]
    OBVIOUS
  <2>2. s.state[x] # SuperUser
    BY <1>7 DEF Executing
  <2>3. Unblock(s, x) = Off(m)
    BY <1>7, <2>1, <2>2 DEF Unblock
  <2>4. m \in KernelStates
    BY ONLY <1>1, <2>1 DEF KernelStates
  <2>5. /\ m.ready = s.ready /\ m.threadReady = s.threadReady /\ m.list = s.list
        /\ m.state = s.state /\ m.taskState = s.taskState /\ m.running = s.running
        /\ m.kmode = s.kmode /\ m.next = s.next /\ m.preempt = s.preempt
        /\ m.current = s.current /\ m.cpuTask = s.cpuTask
        /\ m.active = s.active /\ m.notified = s.notified
        /\ m.missed = s.missed /\ m.fatal
    BY ONLY <1>1, <2>1 DEF KernelStates
  <2>6. InOrder(m)
    BY <2>4, <2>5 DEF InOrder, TaskInOrder, ThreadInOrder
  <2> QED BY <1>4, <1>7, <2>3, <2>5, <2>6
<1> QED BY <1>5, <1>6, <1>7

\* Who is on a list waits; and Settled states stay so while threads are woken.
AllWaiting(s) == \A t \in On(s.list) : s.state[t] \notin Executing

LEMMA WakesStaysSettled ==
  ASSUME NEW s, NEW r, NEW W, Wakes(s, r, W), InOrder(s), Settled(s), AllWaiting(s)
  PROVE  Settled(r) /\ AllWaiting(r)
<1>1. Ready \notin Executing
  BY DEF Ready, Executing, User, SuperUser
<1>2. On(r.list) \subseteq On(s.list) /\ On(s.list) \subseteq Threads
  <2>1. s.list \in Seq(Threads)
    BY DEF InOrder, KernelStates, UserThreads
  <2> QED BY <2>1, OnInThreads DEF Wakes
<1>3. Settled(r)
  BY DEF Wakes, Settled
<1>4. AllWaiting(r)
  BY <1>1, <1>2 DEF Wakes, AllWaiting
<1> QED BY <1>3, <1>4

LEMMA WakesTransitive ==
  ASSUME NEW s, NEW r, NEW q, NEW W \in SUBSET On(s.list), NEW x \in On(s.list),
         InOrder(s), Wakes(s, r, W), Wakes(r, q, {x})
  PROVE  Wakes(s, q, On(s.list))
<1> DEFINE U == On(s.list)
<1>1. U \subseteq Threads
  <2>1. s.list \in Seq(Threads)
    BY DEF InOrder, KernelStates, UserThreads
  <2> QED BY <2>1, OnInThreads
<1>2. InOrder(q)
  BY DEF Wakes
<1>3. /\ q.preempt = s.preempt /\ q.running = s.running /\ q.current = s.current
      /\ q.cpuTask = s.cpuTask /\ q.active = s.active /\ q.notified = s.notified
  BY DEF Wakes
<1>4. On(q.list) \subseteq On(s.list) /\ On(r.list) \subseteq On(s.list)
  BY DEF Wakes
<1>5. Ready # Blocked
  BY DEF Ready, Blocked
<1> HIDE DEF U
<1>6. ASSUME NEW t \in Threads
      PROVE  \/ q.state[t] = s.state[t] /\ q.next[t] = s.next[t]
             \/ /\ t \in U \ On(q.list)
                /\ s.state[t] = Blocked /\ q.state[t] = Ready /\ q.next[t] = Ready
  <2>1. CASE q.state[t] = r.state[t] /\ q.next[t] = r.next[t]
    <3>1. CASE r.state[t] = s.state[t] /\ r.next[t] = s.next[t]
      BY <2>1, <3>1
    <3>2. CASE /\ t \in W \ On(r.list)
               /\ s.state[t] = Blocked /\ r.state[t] = Ready /\ r.next[t] = Ready
      <4>1. t \notin On(q.list)
        BY <3>2 DEF Wakes
      <4> QED BY <2>1, <3>2, <4>1 DEF U
    <3> QED BY <3>1, <3>2 DEF Wakes
  <2>2. CASE /\ t \in {x} \ On(q.list)
             /\ r.state[t] = Blocked /\ q.state[t] = Ready /\ q.next[t] = Ready
    <3>1. s.state[t] = Blocked
      BY <1>5, <2>2 DEF Wakes
    <3> QED BY <2>2, <3>1 DEF U
  <2> QED BY <2>1, <2>2 DEF Wakes
<1>7. ASSUME NEW t \in U \ On(q.list) PROVE q.state[t] # Blocked
  <2>1. CASE t \notin On(r.list)
    <3>1. t \in W
      BY <2>1 DEF Wakes, U
    <3>2. r.state[t] # Blocked
      BY <2>1, <3>1 DEF Wakes
    <3> QED BY <1>1, <1>5, <3>2 DEF Wakes
  <2>2. CASE t \in On(r.list)
    <3>1. t \in {x} \ On(q.list)
      BY <2>2 DEF Wakes
    <3> QED BY <3>1 DEF Wakes
  <2> QED BY <2>1, <2>2
<1>8. ASSUME \A t \in On(s.list) : s.state[t] = Blocked
      PROVE  q.fatal = s.fatal
  <2>1. r.fatal = s.fatal
    BY <1>8 DEF Wakes
  <2>2. \A t \in On(r.list) : r.state[t] = Blocked
    BY <1>1, <1>4, <1>8 DEF Wakes, U
  <2> QED BY <2>1, <2>2 DEF Wakes
<1>9. ASSUME NEW t \in U \ On(q.list)
      PROVE  s.state[t] = Blocked \/ t \in q.missed \/ q.fatal
  <2>1. CASE t \notin On(r.list)
    <3>1. t \in W \ On(r.list)
      BY <2>1 DEF Wakes, U
    <3>2. s.state[t] = Blocked \/ t \in r.missed \/ r.fatal
      BY <3>1 DEF Wakes
    <3> QED BY <3>2 DEF Wakes
  <2>2. CASE t \in On(r.list)
    <3>1. t \in {x} \ On(q.list)
      BY <2>2 DEF Wakes
    <3>2. r.state[t] = Blocked \/ t \in q.missed \/ q.fatal
      BY <3>1 DEF Wakes
    <3>3. r.state[t] = Blocked => s.state[t] = Blocked
      BY <1>1, <1>5 DEF Wakes
    <3> QED BY <3>2, <3>3
  <2> QED BY <2>1, <2>2
<1>10. s.missed \subseteq q.missed /\ (s.fatal => q.fatal)
  BY DEF Wakes
<1> QED BY <1>2, <1>3, <1>4, <1>6, <1>7, <1>8, <1>9, <1>10 DEF Wakes, U

\* A broadcast wakes one thread of the list after the other.
LEMMA UnblockFirstWakes ==
  ASSUME NumCpus = 1, NEW s, InOrder(s), s.cpuTask[0] # Idle, Settled(s), AllWaiting(s),
         NEW n \in 0..Len(s.list)
  PROVE  Wakes(s, UnblockFirst(s, n), On(s.list))
<1>1. s.list \in Seq(UserThreads) /\ Len(s.list) \in Nat /\ n \in Nat /\ n <= Len(s.list)
  BY DEF InOrder, KernelStates
<1> DEFINE Rec(f, m) == f = [i \in 0..m |-> IF i = 0 THEN s
                                            ELSE Unblock(f[i - 1], s.list[i])]
           Undefined == {m \in Nat : ~ (\E f : Rec(f, m))}
<1>2. Undefined = {}
  <2> SUFFICES ASSUME Undefined # {} PROVE FALSE
    OBVIOUS
  <2>1. PICK m \in Undefined : \A j \in Undefined : m <= j
    BY SmallestNumber
  <2>2. m \in Nat /\ ~ (\E f : Rec(f, m))
    BY <2>1
  <2>3. CASE m = 0
    <3>1. Rec([i \in 0..0 |-> s], 0)
      OBVIOUS
    <3> QED BY <2>2, <2>3, <3>1
  <2>4. CASE m # 0
    <3>1. m - 1 \in Nat /\ ~ (m <= m - 1)
      BY <2>2, <2>4
    <3>2. m - 1 \notin Undefined
      BY <2>1, <3>1
    <3>3. PICK f : Rec(f, m - 1)
      BY <3>1, <3>2
    <3> DEFINE g == [i \in 0..m |-> IF i = 0 THEN s ELSE Unblock(f[i - 1], s.list[i])]
    <3>4. ASSUME NEW j \in 0..(m - 1) PROVE g[j] = f[j]
      <4>1. j \in 0..m
        BY <2>2
      <4>2. g[j] = IF j = 0 THEN s ELSE Unblock(f[j - 1], s.list[j])
        BY <4>1
      <4>3. f[j] = IF j = 0 THEN s ELSE Unblock(f[j - 1], s.list[j])
        BY <3>3
      <4> QED BY <4>2, <4>3
    <3>5. \A i \in 0..m : i # 0 => g[i - 1] = f[i - 1]
      <4> SUFFICES ASSUME NEW i \in 0..m, i # 0 PROVE g[i - 1] = f[i - 1]
        OBVIOUS
      <4>1. i - 1 \in 0..(m - 1)
        BY <2>2
      <4> QED BY <3>4, <4>1
    <3>6. g = [i \in 0..m |-> IF i = 0 THEN s ELSE Unblock(g[i - 1], s.list[i])]
      BY <3>5
    <3>7. Rec(g, m)
      BY <3>6
    <3> QED BY <2>2, <3>7
  <2> QED BY <2>3, <2>4
<1>3. PICK f : /\ UnblockFirst(s, n) = f[n]
               /\ Rec(f, n)
  <2>1. \E f : Rec(f, n)
    BY <1>1, <1>2
  <2>2. Rec(CHOOSE f : Rec(f, n), n)
    BY <2>1
  <2>3. UnblockFirst(s, n) = (CHOOSE f : Rec(f, n))[n]
    BY DEF UnblockFirst
  <2> QED BY <2>2, <2>3
<1> DEFINE Stuck == {i \in 0..n : ~ Wakes(s, f[i], On(s.list))}
<1>4. Stuck = {}
  <2> SUFFICES ASSUME Stuck # {} PROVE FALSE
    OBVIOUS
  <2>1. PICK i \in Stuck : \A j \in Stuck : i <= j
    <3>1. Stuck \subseteq Nat
      BY <1>1
    <3> HIDE DEF Stuck
    <3> QED BY <3>1, SmallestNumber
  <2>2. i \in Nat /\ i <= n /\ ~ Wakes(s, f[i], On(s.list))
    BY <1>1, <2>1
  <2>3. f[i] = IF i = 0 THEN s ELSE Unblock(f[i - 1], s.list[i])
    BY <1>3, <2>1
  <2>4. CASE i = 0
    <3>1. Wakes(s, s, On(s.list))
      BY DEF Wakes
    <3> QED BY <2>2, <2>3, <2>4, <3>1
  <2>5. CASE i # 0
    <3>1. i - 1 \in 0..n /\ ~ (i <= i - 1) /\ i \in 1..Len(s.list)
      BY ONLY <1>1, <2>2, <2>5
    <3>2. Wakes(s, f[i - 1], On(s.list))
      BY <2>1, <3>1
    <3>3. PICK r : r = f[i - 1]
      OBVIOUS
    <3>4. PICK x \in On(s.list) : x = s.list[i]
      BY <3>1 DEF On
    <3>5. x \in UserThreads
      BY <1>1, <3>1, <3>4
    <3>6. Settled(r) /\ AllWaiting(r)
      BY <3>2, <3>3, WakesStaysSettled
    <3>7. InOrder(r) /\ r.cpuTask[0] # Idle
      BY <3>2, <3>3 DEF Wakes
    <3>8. Wakes(r, Unblock(r, x), {x})
      BY <3>5, <3>6, <3>7, UnblockWakes DEF AllWaiting
    <3>9. Wakes(s, Unblock(r, x), On(s.list))
      BY <3>2, <3>3, <3>8, WakesTransitive
    <3> QED BY <2>2, <2>3, <2>5, <3>3, <3>4, <3>9
  <2> QED BY <2>4, <2>5
<1>5. n \in 0..n
  BY <1>1
<1> QED BY <1>3, <1>4, <1>5

----------------------------------------------------------------------------
\* Scheduling.

\* r is s with other values in the schedulers' own fields.
Assigns(s, r, taskCpu, running, current, cpuTask) ==
  /\ InOrder(r) /\ Untouched(s, r) /\ r.state = s.state /\ r.kmode = s.kmode
  /\ r.threadReady = s.threadReady /\ r.taskCpu = taskCpu
  /\ r.running = running /\ r.current = current /\ r.cpuTask = cpuTask

\* The schedulers' own fields can take any values that fit.
LEMMA SchedulersFields ==
  ASSUME NEW s, InOrder(s), NEW taskCpu \in [Tasks -> Cpus \cup {None}],
         NEW running \in [Tasks -> Threads \cup {None}],
         \A task \in Tasks : running[task] # None => running[task] \in ThreadsOf(task),
         NEW current \in Tasks \cup {Idle, None},
         NEW cpuTask \in [Cpus -> Tasks \cup {Idle, None}],
         NEW r, r = [s EXCEPT !.taskCpu = taskCpu, !.running = running,
                              !.current = current, !.cpuTask = cpuTask]
  PROVE  Assigns(s, r, taskCpu, running, current, cpuTask)
<1>1. s \in KernelStates
  BY DEF InOrder
<1>2. r \in KernelStates
  BY ONLY <1>1, r = [s EXCEPT !.taskCpu = taskCpu, !.running = running,
                              !.current = current, !.cpuTask = cpuTask],
          taskCpu \in [Tasks -> Cpus \cup {None}],
          running \in [Tasks -> Threads \cup {None}],
          current \in Tasks \cup {Idle, None},
          cpuTask \in [Cpus -> Tasks \cup {Idle, None}] DEF KernelStates
<1>3. /\ Untouched(s, r) /\ r.state = s.state /\ r.kmode = s.kmode
      /\ r.threadReady = s.threadReady /\ r.ready = s.ready /\ r.taskState = s.taskState
      /\ r.taskCpu = taskCpu
      /\ r.running = running /\ r.current = current /\ r.cpuTask = cpuTask
  BY ONLY <1>1, r = [s EXCEPT !.taskCpu = taskCpu, !.running = running,
                              !.current = current, !.cpuTask = cpuTask]
     DEF KernelStates, Untouched
<1>4. ASSUME NEW task \in Tasks PROVE TaskInOrder(r, task)
  BY <1>3 DEF InOrder, TaskInOrder
<1>5. ASSUME NEW t \in Threads PROVE ThreadInOrder(r, t)
  BY <1>3 DEF InOrder, ThreadInOrder
<1>6. InOrder(r)
  BY <1>2, <1>3, <1>4, <1>5 DEF InOrder, Untouched
<1> QED BY <1>3, <1>6 DEF Assigns

\* goodness() is compared with that of every one that may run: the choice is one
\* of them.
LEMMA BestIsOne ==
  ASSUME NEW S, NEW list \in Seq(Tasks \cup Threads), S \cap On(list) # {}
  PROVE  Best(list, S) \in S \cap On(list)
<1>1. Len(list) \in Nat /\ \A i \in 1..Len(list) : Rank[list[i]] \in Nat
  BY RankAssumption
<1> DEFINE Highest(i, m) ==
             /\ i \in 1..m /\ list[i] \in S
             /\ \A j \in 1..m : list[j] \in S => Rank[list[j]] <= Rank[list[i]]
             /\ \A j \in 1..(i - 1) : list[j] \in S => Rank[list[j]] < Rank[list[i]]
           Open == {m \in 0..Len(list) : /\ \E i \in 1..m : list[i] \in S
                                         /\ ~ (\E i \in 1..m : Highest(i, m))}
<1>2. Open = {}
  <2> SUFFICES ASSUME Open # {} PROVE FALSE
    OBVIOUS
  <2>1. PICK m \in Open : \A j \in Open : m <= j
    <3>1. Open \subseteq Nat
      BY <1>1
    <3> HIDE DEF Open
    <3> QED BY <3>1, SmallestNumber
  <2>2. /\ m \in Nat /\ m <= Len(list) /\ m # 0
        /\ \E i \in 1..m : list[i] \in S
        /\ ~ (\E i \in 1..m : Highest(i, m))
    BY <1>1, <2>1
  <2>3. m - 1 \in 0..Len(list) /\ ~ (m <= m - 1) /\ m \in 1..Len(list)
    BY ONLY <1>1, <2>2
  <2>4. m - 1 \notin Open
    BY <2>1, <2>3
  <2>5. CASE \E i \in 1..(m - 1) : list[i] \in S
    <3>1. PICK i \in 1..(m - 1) : Highest(i, m - 1)
      BY <2>3, <2>4, <2>5
    <3>2. i \in 1..m /\ i \in 1..Len(list) /\ i \in Int
      BY <2>2
    <3>3. Rank[list[i]] \in Nat /\ Rank[list[m]] \in Nat
      BY <1>1, <2>3, <3>2
    <3>4. \A j \in 1..m : j = m \/ j \in 1..(m - 1)
      BY <2>2
    <3>5. CASE list[m] \notin S \/ Rank[list[m]] <= Rank[list[i]]
      <4>1. Highest(i, m)
        BY <3>1, <3>2, <3>4, <3>5
      <4> QED BY <2>2, <3>2, <4>1
    <3>6. CASE list[m] \in S /\ Rank[list[i]] < Rank[list[m]]
      <4>1. ASSUME NEW j \in 1..(m - 1), list[j] \in S
            PROVE  Rank[list[j]] < Rank[list[m]]
        <5>1. j \in 1..Len(list)
          BY <2>2
        <5>2. Rank[list[j]] \in Nat /\ Rank[list[j]] <= Rank[list[i]]
          BY <1>1, <3>1, <4>1, <5>1
        <5> QED BY <3>3, <3>6, <5>2
      <4>2. \A j \in 1..m : list[j] \in S => Rank[list[j]] <= Rank[list[m]]
        <5> SUFFICES ASSUME NEW j \in 1..m, list[j] \in S
                     PROVE  Rank[list[j]] <= Rank[list[m]]
          OBVIOUS
        <5>1. CASE j = m
          BY <3>3, <5>1
        <5>2. CASE j \in 1..(m - 1)
          <6>1. j \in 1..Len(list)
            BY <2>2
          <6> QED BY <1>1, <3>3, <4>1, <5>2, <6>1
        <5> QED BY <3>4, <5>1, <5>2
      <4>3. Highest(m, m)
        BY <2>2, <3>6, <4>1, <4>2
      <4> QED BY <2>2, <4>3
    <3> QED BY <3>3, <3>5, <3>6
  <2>6. CASE ~ (\E i \in 1..(m - 1) : list[i] \in S)
    <3>1. list[m] \in S
      BY <2>2, <2>6
    <3>2. \A j \in 1..m : j = m \/ j \in 1..(m - 1)
      BY <2>2
    <3>3. Rank[list[m]] \in Nat
      BY <1>1, <2>3
    <3>4. Highest(m, m)
      BY <2>2, <2>6, <3>1, <3>2, <3>3
    <3> QED BY <2>2, <3>4
  <2> QED BY <2>5, <2>6
<1>3. \E i \in 1..Len(list) : list[i] \in S
  BY DEF On
<1>4. \E i \in 1..Len(list) : Highest(i, Len(list))
  <2>1. Len(list) \in 0..Len(list)
    BY <1>1
  <2> QED BY <1>2, <1>3, <2>1
<1>5. PICK i \in 1..Len(list) : list[i] \in S /\ Best(list, S) = list[i]
  BY <1>4 DEF Best
<1> QED BY <1>5 DEF On

\* Where the loser of a processor goes, and where the winner.
PausedFrom(x) == CASE x = User -> Waiting [] x = SuperUser -> Ready [] OTHER -> x

\* r is s after t lost the processor.
Pauses(s, r, t) ==
  /\ InOrder(r)
  /\ r.state = [s.state EXCEPT ![t] = PausedFrom(s.state[t])]
  /\ r.next = [s.next EXCEPT ![t] = PausedFrom(s.state[t])]
  /\ r.preempt = s.preempt /\ r.list = s.list /\ r.fatal = s.fatal /\ r.missed = s.missed
  /\ r.active = s.active /\ r.notified = s.notified
  /\ r.running = s.running /\ r.current = s.current /\ r.cpuTask = s.cpuTask

\* The thread that loses the processor waits in its ready list; one that blocked
\* or ended of its own accord stays as it is.
LEMMA PreemptPauses ==
  ASSUME NumCpus = 1, NEW s, InOrder(s), s.cpuTask[0] # Idle, Settled(s),
         NEW t \in Threads, s.state[t] # Ready,
         s.state[t] = User => s.next[t] \in Executing
  PROVE  Pauses(s, Preempt(s, t), t)
<1>1. s.state \in [Threads -> States] /\ s.next \in [Threads -> States]
  BY DEF InOrder, KernelStates
<1>2. /\ Zombie = 0 /\ Blocked = 1 /\ Waiting = 2 /\ Created = 3 /\ Ready = 4
      /\ User = 5 /\ SuperUser = 6 /\ States = 0..6 /\ Executing = {5, 6}
  BY DEF Zombie, Blocked, Waiting, Created, Ready, User, SuperUser, States, Executing
<1>3. /\ <<User, SuperUser>> \in Legal /\ <<SuperUser, Waiting>> \in Legal
      /\ <<SuperUser, Blocked>> \in Legal /\ <<Blocked, Ready>> \in Legal
      /\ \A x \in {Zombie, Blocked, Waiting} :
           <<x, SuperUser>> \notin Legal /\ <<x, Waiting>> \notin Legal
  BY DEF Legal, Zombie, Blocked, Waiting, Created, Ready, User, SuperUser
<1>4. s.state[t] \in {Zombie, Blocked, Waiting, User, SuperUser}
  <2>1. s.state[t] \in States /\ s.state[t] # Created
    BY <1>1 DEF InOrder, ThreadInOrder
  <2> QED BY <1>2, <2>1
<1>5. CASE s.state[t] = SuperUser
  <2>1. Target(s, t, SuperUser, Blocked) = Blocked /\ MayEnter(s, t, Blocked)
    BY <1>3, <1>5 DEF Target, MayEnter
  <2>2. PICK p : p = Go(s, t, SuperUser, Blocked)
    OBVIOUS
  <2>3. Enters(s, p, t, Blocked)
    BY <1>2, <2>1, <2>2, GoEnters
  <2>4. PICK r : r = Go(p, t, Blocked, Ready)
    OBVIOUS
  <2>5. Enters(p, r, t, Ready)
    <3>1. InOrder(p) /\ p.cpuTask[0] # Idle /\ p.state[t] = Blocked
      BY <1>1, <1>2, <2>3 DEF Enters
    <3>2. Target(p, t, Blocked, Ready) = Ready /\ MayEnter(p, t, Ready)
      BY <1>3, <3>1 DEF Target, MayEnter
    <3> QED BY <1>2, <2>4, <3>1, <3>2, GoEnters
  <2>6. Preempt(s, t) = r
    BY <1>5, <2>2, <2>4 DEF Preempt
  <2>7. PausedFrom(s.state[t]) = Ready
    BY <1>2, <1>5 DEF PausedFrom
  <2>8. Pauses(s, r, t)
    BY <1>1, <1>2, <2>3, <2>5, <2>7 DEF Enters, Pauses
  <2> QED BY <2>6, <2>8
<1>6. CASE s.state[t] = User
  <2>1. Target(s, t, User, SuperUser) = SuperUser /\ MayEnter(s, t, SuperUser)
    BY <1>3, <1>6 DEF Target, MayEnter
  <2>2. PICK p : p = Go(s, t, User, SuperUser)
    OBVIOUS
  <2>3. Enters(s, p, t, SuperUser)
    BY <1>2, <2>1, <2>2, GoEnters
  <2>4. PICK r : r = Go(p, t, SuperUser, Waiting)
    OBVIOUS
  <2>5. p.state[t] = SuperUser
    BY <1>1, <2>3 DEF Enters
  <2>6. Enters(p, r, t, Waiting)
    <3>1. InOrder(p) /\ p.cpuTask[0] # Idle
      BY <1>2, <2>3 DEF Enters
    <3>2. Target(p, t, SuperUser, Waiting) = Waiting /\ MayEnter(p, t, Waiting)
      BY <1>3, <2>5 DEF Target, MayEnter
    <3> QED BY <1>2, <2>4, <3>1, <3>2, GoEnters
  <2>7. Preempt(s, t) = r
    BY <1>2, <1>6, <2>2, <2>4, <2>5 DEF Preempt
  <2>8. PausedFrom(s.state[t]) = Waiting
    BY <1>2, <1>6 DEF PausedFrom
  <2>9. Pauses(s, r, t)
    BY <1>1, <1>2, <2>3, <2>6, <2>8 DEF Enters, Pauses
  <2> QED BY <2>7, <2>9
<1>7. CASE s.state[t] \in {Zombie, Blocked, Waiting}
  <2>1. PICK x \in States : x = s.state[t]
    BY <1>1
  <2>2. s.next[t] = x
    BY <1>2, <1>7, <2>1 DEF Settled
  <2>3. Target(s, t, x, SuperUser) = x /\ MayEnter(s, t, x)
    BY <1>3, <1>7, <2>1, <2>2 DEF Target, MayEnter
  <2>4. PICK p : p = Go(s, t, x, SuperUser)
    OBVIOUS
  <2>5. Enters(s, p, t, x)
    BY <1>2, <2>1, <2>3, <2>4, GoEnters
  <2>6. PICK r : r = Go(p, t, x, Waiting)
    OBVIOUS
  <2>7. /\ p.state[t] = x /\ p.next[t] = x /\ p.cpuTask = s.cpuTask
        /\ p.running = s.running /\ p.current = s.current
    BY <1>1, <2>1, <2>5 DEF Enters
  <2>8. Enters(p, r, t, x)
    <3>1. InOrder(p) /\ p.cpuTask[0] # Idle
      BY <2>5, <2>7 DEF Enters
    <3>2. Target(p, t, x, Waiting) = x /\ MayEnter(p, t, x)
      BY <1>3, <1>7, <2>1, <2>7 DEF Target, MayEnter
    <3> QED BY <1>2, <2>1, <2>6, <3>1, <3>2, GoEnters
  <2>9. Preempt(s, t) = r
    BY <1>2, <1>7, <2>1, <2>4, <2>6, <2>7 DEF Preempt
  <2>10. PausedFrom(s.state[t]) = x
    BY <1>2, <1>7, <2>1 DEF PausedFrom
  <2>11. r.running = p.running /\ r.current = p.current /\ r.cpuTask = p.cpuTask
    BY <2>7, <2>8 DEF Enters
  <2>12. Pauses(s, r, t)
    BY <1>1, <2>5, <2>7, <2>8, <2>10, <2>11 DEF Enters, Pauses
  <2> QED BY <2>9, <2>12
<1> QED BY <1>4, <1>5, <1>6, <1>7

\* r is s after the thread t got the processor, which was to go on from x.
Resumed(s, t) == CASE s.state[t] = Waiting -> User
                   [] s.state[t] = Ready -> SuperUser
                   [] s.state[t] = User -> s.next[t]
                   [] OTHER -> s.state[t]

Resumes(s, r, t) ==
  /\ InOrder(r)
  /\ r.state = [s.state EXCEPT ![t] = Resumed(s, t)]
  /\ r.next = [s.next EXCEPT ![t] = IF s.state[t] = SuperUser THEN @ ELSE Resumed(s, t)]
  /\ r.preempt = s.preempt /\ r.list = s.list /\ r.fatal = s.fatal /\ r.missed = s.missed
  /\ r.active = s.active /\ r.notified = s.notified
  /\ r.running = s.running /\ r.current = s.current /\ r.cpuTask = s.cpuTask

LEMMA ResumeResumes ==
  ASSUME NumCpus = 1, NEW s, InOrder(s), s.cpuTask[0] # Idle,
         NEW t \in Threads, s.state[t] \in Listed \cup Executing,
         s.state[t] = User => s.next[t] \in Executing
  PROVE  Resumes(s, Resume(s, t), t)
<1>1. s.state \in [Threads -> States] /\ s.next \in [Threads -> States]
  BY DEF InOrder, KernelStates
<1>2. /\ Zombie = 0 /\ Blocked = 1 /\ Waiting = 2 /\ Created = 3 /\ Ready = 4
      /\ User = 5 /\ SuperUser = 6 /\ States = 0..6 /\ Executing = {5, 6}
  BY DEF Zombie, Blocked, Waiting, Created, Ready, User, SuperUser, States, Executing
<1>3. /\ <<Waiting, User>> \in Legal /\ <<Ready, SuperUser>> \in Legal
      /\ <<User, SuperUser>> \in Legal
  BY DEF Legal
<1>4. s.state[t] \in {Waiting, Ready, User, SuperUser}
  BY <1>2 DEF Listed
<1>5. s.kmode[t] <=> s.state[t] \notin {User, Waiting}
  BY DEF InOrder, ThreadInOrder
<1>6. CASE s.state[t] = SuperUser
  <2>1. Resume(s, t) = s /\ Resumed(s, t) = s.state[t]
    BY <1>2, <1>5, <1>6 DEF Resume, Resumed
  <2> QED BY <1>1, <1>6, <2>1 DEF Resumes
<1>7. ASSUME NEW from \in States, NEW to \in States, s.state[t] # SuperUser,
             Resume(s, t) = Go(s, t, from, to),
             Target(s, t, from, to) = Resumed(s, t), MayEnter(s, t, Resumed(s, t)),
             Resumed(s, t) # Zombie
      PROVE  Resumes(s, Resume(s, t), t)
  <2>1. PICK r : r = Go(s, t, from, to)
    OBVIOUS
  <2>2. Enters(s, r, t, Resumed(s, t))
    BY <1>7, <2>1, GoEnters
  <2>3. Resumes(s, r, t)
    BY <1>1, <1>7, <2>2 DEF Enters, Resumes
  <2> QED BY <1>7, <2>1, <2>3
<1>8. CASE s.state[t] = Waiting
  <2>1. Resume(s, t) = Go(s, t, Waiting, User) /\ Resumed(s, t) = User
    BY <1>2, <1>5, <1>8 DEF Resume, Resumed
  <2>2. Target(s, t, Waiting, User) = User /\ MayEnter(s, t, User)
    BY <1>3, <1>8 DEF Target, MayEnter
  <2> QED BY <1>2, <1>7, <1>8, <2>1, <2>2
<1>9. CASE s.state[t] = Ready
  <2>1. Resume(s, t) = Go(s, t, Ready, SuperUser) /\ Resumed(s, t) = SuperUser
    BY <1>2, <1>5, <1>9 DEF Resume, Resumed
  <2>2. Target(s, t, Ready, SuperUser) = SuperUser /\ MayEnter(s, t, SuperUser)
    BY <1>3, <1>9 DEF Target, MayEnter
  <2> QED BY <1>2, <1>7, <1>9, <2>1, <2>2
<1>10. CASE s.state[t] = User
  <2>1. Resume(s, t) = Go(s, t, Waiting, User) /\ Resumed(s, t) = s.next[t]
    BY <1>2, <1>5, <1>10 DEF Resume, Resumed
  <2>2. Target(s, t, Waiting, User) = s.next[t]
    BY <1>2, <1>10 DEF Target
  <2>3. MayEnter(s, t, s.next[t]) /\ s.next[t] # Zombie
    BY <1>2, <1>3, <1>10 DEF MayEnter
  <2> QED BY <1>2, <1>7, <1>10, <2>1, <2>2, <2>3
<1> QED BY <1>4, <1>6, <1>8, <1>9, <1>10

LEMMA OnConcat ==
  ASSUME NEW S, NEW a \in Seq(S), NEW b \in Seq(S)
  PROVE  a \o b \in Seq(S) /\ On(a \o b) = On(a) \cup On(b)
<1>1. /\ a \o b \in Seq(S) /\ Len(a \o b) = Len(a) + Len(b)
      /\ Len(a) \in Nat /\ Len(b) \in Nat
      /\ \A i \in 1..(Len(a) + Len(b)) :
           (a \o b)[i] = IF i <= Len(a) THEN a[i] ELSE b[i - Len(a)]
  OBVIOUS
<1>2. PICK ab : ab = a \o b
  OBVIOUS
<1>3. ASSUME NEW u \in On(ab) PROVE u \in On(a) \cup On(b)
  <2>1. PICK i \in 1..(Len(a) + Len(b)) : ab[i] = u
    BY <1>1, <1>2, <1>3 DEF On
  <2>2. CASE i <= Len(a)
    BY <1>1, <1>2, <2>1, <2>2 DEF On
  <2>3. CASE ~(i <= Len(a))
    <3>1. i - Len(a) \in 1..Len(b)
      BY <1>1, <2>3
    <3> QED BY <1>1, <1>2, <2>1, <2>3, <3>1 DEF On
  <2> QED BY <2>2, <2>3
<1>4. ASSUME NEW u \in On(a) PROVE u \in On(ab)
  <2>1. PICK i \in 1..Len(a) : a[i] = u
    BY <1>4 DEF On
  <2>2. i \in 1..(Len(a) + Len(b)) /\ i <= Len(a)
    BY <1>1
  <2> QED BY <1>1, <1>2, <2>1, <2>2 DEF On
<1>5. ASSUME NEW u \in On(b) PROVE u \in On(ab)
  <2>1. PICK i \in 1..Len(b) : b[i] = u
    BY <1>5 DEF On
  <2>2. /\ i + Len(a) \in 1..(Len(a) + Len(b)) /\ ~ (i + Len(a) <= Len(a))
        /\ (i + Len(a)) - Len(a) = i
    BY <1>1
  <2> QED BY <1>1, <1>2, <2>1, <2>2 DEF On
<1> QED BY <1>1, <1>2, <1>3, <1>4, <1>5

\* One thread at most executes: the one the schedulers take for the current one.
OneExecutes(s) == \A t \in Threads : s.state[t] \in Executing => t = Previous(s)

LEMMA IfExecutingHolds ==
  ASSUME NEW s, NEW t, NEW x
  PROVE  /\ IfExecuting(s, t, x) \in {<<>>, <<x>>}
         /\ On(IfExecuting(s, t, x)) \subseteq {x}
         /\ On(IfExecuting(s, t, x)) # {} <=> t # None /\ s.state[t] \in Executing
<1>1. On(<<>>) = {} /\ On(<<x>>) = {x}
  BY DEF On
<1> QED BY <1>1 DEF IfExecuting

\* The thread scheduler chooses among the ready threads of the task and the one
\* that executes.
LEMMA NextThreadRuns ==
  ASSUME NEW s, InOrder(s), NEW task \in Tasks,
         \/ \E t \in ThreadsOf(task) : s.state[t] \in Listed
         \/ s.running[task] # None /\ s.state[s.running[task]] \in Executing
  PROVE  /\ NextThread(s, task) \in ThreadsOf(task)
         /\ s.state[NextThread(s, task)] \in Listed \cup Executing
<1>1. s.running[task] \in Threads \cup {None} /\ s.threadReady[task] \in Seq(Threads)
  BY DEF InOrder, KernelStates
<1>2. /\ On(s.threadReady[task]) = {t \in ThreadsOf(task) : s.state[t] \in Listed}
      /\ s.running[task] # None => s.running[task] \in ThreadsOf(task)
  BY DEF InOrder, TaskInOrder
<1> DEFINE runs == IfExecuting(s, s.running[task], s.running[task])
<1>3. /\ On(runs) \subseteq {s.running[task]}
      /\ On(runs) # {} <=> s.running[task] # None /\ s.state[s.running[task]] \in Executing
  BY IfExecutingHolds
<1>4. runs \in Seq(Threads)
  <2>1. CASE s.running[task] = None
    BY <2>1 DEF IfExecuting
  <2>2. CASE s.running[task] \in Threads
    BY <2>2 DEF IfExecuting
  <2> QED BY <1>1, <2>1, <2>2
<1>5. PICK list : list = ThreadList(s, task)
  OBVIOUS
<1>6. list \in Seq(Threads) /\ On(list) = On(runs) \cup On(s.threadReady[task])
  BY <1>1, <1>4, <1>5, OnConcat DEF ThreadList
<1>7. list \in Seq(Tasks \cup Threads) /\ On(list) # {}
  <2>1. On(list) # {}
    BY <1>2, <1>3, <1>6
  <2> QED BY <1>6, <2>1
<1>8. Best(list, On(list)) \in On(list)
  BY <1>7, BestIsOne
<1>9. NextThread(s, task) \in On(list)
  BY <1>5, <1>8 DEF NextThread
<1> QED BY <1>2, <1>3, <1>6, <1>9

\* reschedule() finds nothing to run only when nothing executes; the task it finds
\* has a thread that is ready or executes, and an interrupt goes first.
LEMMA NextRuns ==
  ASSUME NumCpus = 1, NEW s, InOrder(s), OneExecutes(s), NEW task, task = NextTask(s, 0)
  PROVE  /\ \/ task = Idle /\ \A t \in Threads : s.state[t] \notin Executing
            \/ /\ task \in Tasks
               /\ NextThread(s, task) \in ThreadsOf(task)
               /\ s.state[NextThread(s, task)] \in Listed \cup Executing
         /\ 0 \in s.active /\ s.state[Irq] = Ready => task = IrqTask(0)
<1>1. /\ s.state \in [Threads -> States] /\ s.threadReady \in [Tasks -> Seq(Threads)]
      /\ s.ready \in Seq(Tasks) /\ s.running \in [Tasks -> Threads \cup {None}]
  BY DEF InOrder, KernelStates
<1>2. 0 \in Cpus /\ Irq \in Threads /\ IrqTask(0) \in Tasks /\ Irq \in ThreadsOf(IrqTask(0))
  BY IrqAssumption, TasksAssumption DEF Cpus, Irq, IrqTask, ThreadsOf
<1>3. \A other \in Tasks :
        On(s.threadReady[other]) = {t \in ThreadsOf(other) : s.state[t] \in Listed}
  BY DEF InOrder, TaskInOrder
<1>4. 0 \in s.active /\ s.state[Irq] = Ready => task = IrqTask(0)
  <2> SUFFICES ASSUME 0 \in s.active, s.state[Irq] = Ready PROVE task = IrqTask(0)
    OBVIOUS
  <2>1. Irq \in On(s.threadReady[IrqTask(0)])
    BY <1>2, <1>3 DEF Listed
  <2>2. s.threadReady[IrqTask(0)] # <<>>
    BY <2>1, EmptyList
  <2> QED BY <2>2 DEF NextTask, IrqDue
<1> DEFINE Runnable == /\ task \in Tasks
                       /\ \/ \E t \in ThreadsOf(task) : s.state[t] \in Listed
                          \/ /\ s.running[task] # None
                             /\ s.state[s.running[task]] \in Executing
<1>5. CASE Runnable
  BY <1>4, <1>5, NextThreadRuns
<1> DEFINE current == IfExecuting(s, Previous(s), s.current)
<1>6. /\ On(current) \subseteq {s.current}
      /\ On(current) # {} <=> Previous(s) # None /\ s.state[Previous(s)] \in Executing
  BY IfExecutingHolds
<1>7. CASE IrqDue(s, 0)
  <2>1. task = IrqTask(0) /\ s.threadReady[task] # <<>>
    BY <1>7 DEF NextTask, IrqDue
  <2>2. On(s.threadReady[task]) # {}
    <3>1. PICK list \in Seq(Threads) : list = s.threadReady[task]
      BY <1>1, <1>2, <2>1
    <3>2. 1 \in 1..Len(list)
      BY <2>1, <3>1
    <3> QED BY <3>1, <3>2 DEF On
  <2>3. Runnable
    BY <1>2, <1>3, <2>1, <2>2
  <2> QED BY <1>5, <2>3
<1>8. CASE ~IrqDue(s, 0) /\ TaskCandidates(s, 0) = {}
  <2>1. task = Idle
    BY <1>8 DEF NextTask
  <2>2. On(current) = {}
    BY <1>8 DEF TaskCandidates
  <2>3. ASSUME NEW t \in Threads, s.state[t] \in Executing PROVE FALSE
    <3>1. t = Previous(s) /\ t # None
      BY <2>3, TasksAssumption DEF OneExecutes
    <3> QED BY <1>6, <2>2, <2>3, <3>1
  <2> QED BY <1>4, <2>1, <2>3
<1>9. CASE ~IrqDue(s, 0) /\ TaskCandidates(s, 0) # {}
  <2> DEFINE S == TaskCandidates(s, 0)
  <2>1. PICK list : list = TaskList(s)
    OBVIOUS
  <2>2. task = Best(list, S)
    BY <1>9, <2>1 DEF NextTask
  <2>3. current \in Seq(Tasks)
    <3>1. CASE s.current \in Tasks
      BY <3>1 DEF IfExecuting
    <3>2. CASE s.current \notin Tasks
      BY <3>2 DEF IfExecuting, Previous
    <3> QED BY <3>1, <3>2
  <2>4. list \in Seq(Tasks) /\ On(list) = On(current) \cup On(s.ready)
    BY <1>1, <2>1, <2>3, OnConcat DEF TaskList
  <2>5. S \subseteq On(list)
    BY <2>4 DEF TaskCandidates
  <2>6. list \in Seq(Tasks \cup Threads) /\ S \cap On(list) # {}
    <3>1. S \cap On(list) # {}
      BY <1>9, <2>5
    <3> QED BY <2>4, <3>1
  <2>7. task \in S \cap On(list)
    <3> HIDE DEF S
    <3> QED BY <2>2, <2>6, BestIsOne
  <2>8. task \in Tasks
    <3>1. On(list) \subseteq Tasks
      BY <2>4, OnInThreads
    <3> QED BY <2>7, <3>1
  <2>9. CASE task \in On(current)
    <3>1. task = s.current /\ Previous(s) = s.running[task]
      BY <1>6, <2>8, <2>9 DEF Previous
    <3> QED BY <1>5, <1>6, <2>8, <2>9, <3>1
  <2>10. CASE task \in On(s.ready)
    <3>1. s.taskState[task] \in Listed
      BY <2>8, <2>10 DEF InOrder, TaskInOrder
    <3>2. \E t \in ThreadsOf(task) : s.taskState[task] = s.state[t]
      BY <2>8 DEF InOrder, TaskInOrder
    <3> QED BY <1>5, <2>8, <3>1, <3>2
  <2> QED BY <2>7, <2>9, <2>10 DEF TaskCandidates
<1> QED BY <1>7, <1>8, <1>9

\* What a processor's reschedule does to the threads: nothing when there is nothing
\* to run, and else one thread gets the processor and whoever had it waits.
Reschedules(s, r) ==
  /\ InOrder(r)
  /\ r.preempt = s.preempt /\ r.list = s.list /\ r.fatal = s.fatal /\ r.missed = s.missed
  /\ r.active = s.active /\ r.notified = s.notified
  /\ \/ /\ r.current = Idle /\ r.state = s.state /\ r.next = s.next
        /\ \A t \in Threads : s.state[t] \notin Executing
     \/ /\ r.current \in Tasks /\ r.cpuTask[0] = r.current
        /\ \E th \in Threads :
             /\ r.running[r.current] = th /\ s.state[th] \in Listed \cup Executing
             /\ r.state[th] = Resumed(s, th)
             /\ r.next[th] = IF s.state[th] = SuperUser THEN s.next[th] ELSE Resumed(s, th)
             /\ \A t \in Threads \ {th} : /\ r.state[t] = PausedFrom(s.state[t])
                                          /\ r.next[t] = r.state[t]

\* A thread that is taken for the current one and is READY is the interruption
\* thread, and its interrupt is due.
PreviousReady(s) ==
  Previous(s) # None /\ s.state[Previous(s)] = Ready => Previous(s) = Irq /\ 0 \in s.active

UsersGoOn(s) == \A t \in Threads : s.state[t] = User => s.next[t] \in Executing

LEMMA RescheduleKeeps ==
  ASSUME NumCpus = 1, NEW s, InOrder(s), OneExecutes(s), Settled(s), PreviousReady(s),
         UsersGoOn(s)
  PROVE  Reschedules(s, Reschedule(s, 0))
<1>1. /\ s \in KernelStates /\ s.state \in [Threads -> States]
      /\ s.next \in [Threads -> States] /\ s.threadReady \in [Tasks -> Seq(Threads)]
      /\ s.running \in [Tasks -> Threads \cup {None}]
      /\ s.taskCpu \in [Tasks -> Cpus \cup {None}]
      /\ s.current \in Tasks \cup {Idle, None}
      /\ s.cpuTask \in [Cpus -> Tasks \cup {Idle, None}]
  BY DEF InOrder, KernelStates
<1>2. Cpus = {0} /\ Idle \notin Tasks /\ Idle # None /\ None \notin Tasks /\ None \notin Threads
  BY TasksAssumption DEF Cpus
<1>3. \A task \in Tasks : s.running[task] # None => s.running[task] \in ThreadsOf(task)
  BY DEF InOrder, TaskInOrder
<1>4. PICK task : task = NextTask(s, 0)
  OBVIOUS
<1>5. CASE task = Idle
  <2>1. PICK cpuTask \in [Cpus -> Tasks \cup {Idle, None}] :
          cpuTask = [s.cpuTask EXCEPT ![0] = Idle]
    BY <1>1
  <2>2. PICK r : r = [s EXCEPT !.taskCpu = s.taskCpu, !.running = s.running,
                               !.current = Idle, !.cpuTask = cpuTask]
    OBVIOUS
  <2>3. Reschedule(s, 0) = r
    <3>1. Reschedule(s, 0) = [s EXCEPT !.current = Idle, !.cpuTask = cpuTask]
      BY <1>4, <1>5, <2>1 DEF Reschedule
    <3>2. [s EXCEPT !.current = Idle, !.cpuTask = cpuTask] = r
      BY ONLY <1>1, <2>2 DEF KernelStates
    <3> QED BY <3>1, <3>2
  <2>4. InOrder(r) /\ Untouched(s, r) /\ r.state = s.state /\ r.current = Idle
    <3>1. Assigns(s, r, s.taskCpu, s.running, Idle, cpuTask)
      BY <1>1, <1>3, <2>2, SchedulersFields
    <3> QED BY <3>1 DEF Assigns
  <2>5. \A t \in Threads : s.state[t] \notin Executing
    BY <1>2, <1>4, <1>5, NextRuns
  <2> QED BY <2>3, <2>4, <2>5 DEF Reschedules, Untouched
<1>6. CASE task # Idle
  <2>1. PICK th : th = NextThread(s, task)
    OBVIOUS
  <2>2. /\ task \in Tasks /\ th \in ThreadsOf(task) /\ th \in Threads
        /\ s.state[th] \in Listed \cup Executing
    BY <1>4, <1>6, <2>1, NextRuns DEF ThreadsOf
  <2>3. PICK prev : prev = Previous(s)
    OBVIOUS
  <2>4. prev \in Threads \cup {None}
    BY <1>1, <2>3 DEF Previous
  <2>5. PICK taskCpu \in [Tasks -> Cpus \cup {None}], cpuTask \in [Cpus -> Tasks \cup {Idle, None}] :
          taskCpu = [s.taskCpu EXCEPT ![task] = 0] /\ cpuTask = [s.cpuTask EXCEPT ![0] = task]
    BY <1>1, <1>2, <2>2
  <2>6. PICK s1 : s1 = [s EXCEPT !.taskCpu = taskCpu, !.running = s.running,
                                 !.current = task, !.cpuTask = cpuTask]
    OBVIOUS
  <2>7. [s EXCEPT !.taskCpu[task] = 0, !.current = task, !.cpuTask[0] = task] = s1
    <3>1. [s EXCEPT !.taskCpu = taskCpu, !.current = task, !.cpuTask = cpuTask] = s1
      BY ONLY <1>1, <2>6 DEF KernelStates
    <3> QED BY <2>5, <3>1
  <2>8. /\ InOrder(s1) /\ Untouched(s, s1) /\ s1.state = s.state
        /\ s1.running = s.running /\ s1.current = task /\ s1.cpuTask = cpuTask
        /\ cpuTask[0] = task /\ cpuTask[0] # Idle
    <3>1. cpuTask[0] = task
      BY <1>1, <1>2, <2>5
    <3>2. task \in Tasks \cup {Idle, None}
      BY <2>2
    <3>3. Assigns(s, s1, taskCpu, s.running, task, cpuTask)
      BY <1>1, <1>3, <2>6, <3>2, SchedulersFields
    <3> QED BY <1>6, <3>1, <3>3 DEF Assigns
  <2>9. PICK s2 : s2 = IF prev \in {None, th} THEN s1 ELSE Preempt(s1, prev)
    OBVIOUS
  <2>10. /\ InOrder(s2) /\ s2.preempt = s.preempt /\ s2.list = s.list
         /\ s2.fatal = s.fatal /\ s2.missed = s.missed /\ s2.active = s.active /\ s2.notified = s.notified
         /\ s2.running = s.running /\ s2.current = task /\ s2.cpuTask = cpuTask
         /\ s2.state[th] = s.state[th] /\ s2.next[th] = s.next[th]
         /\ \A t \in Threads \ {th} : /\ s2.state[t] = PausedFrom(s.state[t])
                                      /\ s2.next[t] = s2.state[t]
    <3>1. \A t \in Threads \ {prev} : /\ s.state[t] \notin Executing
                                      /\ s.next[t] = s.state[t]
                                      /\ PausedFrom(s.state[t]) = s.state[t]
      <4>1. \A x : x \notin Executing => PausedFrom(x) = x
        BY DEF Executing, PausedFrom
      <4> QED BY <2>3, <4>1 DEF OneExecutes, Settled
    <3>2. CASE prev \in {None, th}
      <4>1. s2 = s1
        BY <2>9, <3>2
      <4>2. Threads \ {th} \subseteq Threads \ {prev}
        BY <1>2, <3>2
      <4> QED BY <2>8, <3>1, <4>1, <4>2 DEF Untouched
    <3>3. CASE prev \notin {None, th}
      <4>1. prev \in Threads
        BY <2>4, <3>3
      <4>2. s.state[prev] # Ready
        <5> SUFFICES ASSUME s.state[prev] = Ready PROVE FALSE
          OBVIOUS
        <5>1. prev = Irq /\ 0 \in s.active
          BY <2>3, <3>3 DEF PreviousReady
        <5>2. task = IrqTask(0)
          BY <1>4, <5>1, NextRuns
        <5>3. ThreadsOf(task) = {Irq}
          BY <1>2, <5>2, IrqAssumption DEF Irq
        <5> QED BY <2>2, <3>3, <5>1, <5>3
      <4>3. Settled(s1) /\ s1.state[prev] # Ready
        BY <2>8, <4>2 DEF Settled, Untouched
      <4>4. s1.state[prev] = User => s1.next[prev] \in Executing
        BY <2>8, <4>1 DEF UsersGoOn, Untouched
      <4>5. s1.cpuTask[0] # Idle
        BY <2>8
      <4>6. Pauses(s1, Preempt(s1, prev), prev)
        BY <2>8, <4>1, <4>3, <4>4, <4>5, PreemptPauses
      <4>7. Pauses(s1, s2, prev)
        BY <2>9, <3>3, <4>6
      <4>8. s1.state = s.state /\ s1.next = s.next
        BY <2>8 DEF Untouched
      <4>9. /\ s2.state = [s.state EXCEPT ![prev] = PausedFrom(s.state[prev])]
            /\ s2.next = [s.next EXCEPT ![prev] = PausedFrom(s.state[prev])]
        BY <4>7, <4>8 DEF Pauses
      <4>10. \A t \in Threads \ {th} : /\ s2.state[t] = PausedFrom(s.state[t])
                                       /\ s2.next[t] = s2.state[t]
        <5> SUFFICES ASSUME NEW t \in Threads \ {th}
                     PROVE  s2.state[t] = PausedFrom(s.state[t]) /\ s2.next[t] = s2.state[t]
          OBVIOUS
        <5>1. CASE t = prev
          BY <1>1, <4>1, <4>9, <5>1
        <5>2. CASE t # prev
          BY <1>1, <3>1, <4>9, <5>2
        <5> QED BY <5>1, <5>2
      <4>11. s2.state[th] = s.state[th] /\ s2.next[th] = s.next[th]
        BY <1>1, <2>2, <3>3, <4>9
      <4> QED BY <2>8, <4>7, <4>10, <4>11 DEF Pauses, Untouched
    <3> QED BY <3>2, <3>3
  <2>11. PICK s3 : s3 = IF s.current \in Tasks \ {task}
                        THEN [s2 EXCEPT !.taskCpu[s.current] = None] ELSE s2
    OBVIOUS
  <2>12. s2 \in KernelStates /\ \A other \in Tasks :
                                  s2.running[other] # None => s2.running[other] \in ThreadsOf(other)
    BY <2>10 DEF InOrder, TaskInOrder
  <2>13. /\ InOrder(s3) /\ Untouched(s2, s3) /\ s3.state = s2.state
         /\ s3.running = s2.running /\ s3.current = s2.current /\ s3.cpuTask = s2.cpuTask
    <3>1. CASE s.current \in Tasks \ {task}
      <4>1. PICK cpus \in [Tasks -> Cpus \cup {None}] :
              cpus = [s2.taskCpu EXCEPT ![s.current] = None]
        BY <2>12 DEF KernelStates
      <4>2. s3 = [s2 EXCEPT !.taskCpu = cpus]
        BY <2>11, <3>1, <4>1
      <4>3. s3 = [s2 EXCEPT !.taskCpu = cpus, !.running = s2.running,
                            !.current = s2.current, !.cpuTask = s2.cpuTask]
        BY ONLY <2>12, <4>2 DEF KernelStates
      <4>4. /\ s2.running \in [Tasks -> Threads \cup {None}]
            /\ s2.current \in Tasks \cup {Idle, None}
            /\ s2.cpuTask \in [Cpus -> Tasks \cup {Idle, None}]
        BY <2>12 DEF KernelStates
      <4>5. Assigns(s2, s3, cpus, s2.running, s2.current, s2.cpuTask)
        BY <2>10, <2>12, <4>3, <4>4, SchedulersFields
      <4> QED BY <4>5 DEF Assigns
    <3>2. CASE s.current \notin Tasks \ {task}
      BY <2>10, <2>11, <3>2 DEF Untouched
    <3> QED BY <3>1, <3>2
  <2>14. PICK q : q = Resume(s3, th)
    OBVIOUS
  <2>15. s3.state = s2.state /\ s3.next = s2.next
    BY <2>13 DEF Untouched
  <2>16. Resumes(s3, q, th)
    <3>1. s3.state[th] \in Listed \cup Executing
      BY <2>2, <2>10, <2>15
    <3>2. s3.state[th] = User => s3.next[th] \in Executing
      BY <2>2, <2>10, <2>15 DEF UsersGoOn
    <3>3. s3.cpuTask[0] # Idle
      BY <2>8, <2>10, <2>13
    <3> QED BY <2>2, <2>13, <2>14, <3>1, <3>2, <3>3, ResumeResumes
  <2>17. q \in KernelStates /\ \A other \in Tasks :
                                  q.running[other] # None => q.running[other] \in ThreadsOf(other)
    BY <2>16 DEF Resumes, InOrder, TaskInOrder
  <2>18. PICK running \in [Tasks -> Threads \cup {None}], cpus \in [Tasks -> Cpus \cup {None}] :
           running = [q.running EXCEPT ![task] = th] /\ cpus = [q.taskCpu EXCEPT ![task] = 0]
    <3>1. /\ q.running \in [Tasks -> Threads \cup {None}]
          /\ q.taskCpu \in [Tasks -> Cpus \cup {None}]
      BY <2>17 DEF KernelStates
    <3> QED BY <1>2, <2>2, <3>1
  <2>19. PICK r : r = [q EXCEPT !.running = running, !.taskCpu = cpus]
    OBVIOUS
  <2>20. Reschedule(s, 0) = r
    <3> DEFINE e1 == [s EXCEPT !.taskCpu[task] = 0, !.current = task, !.cpuTask[0] = task]
               e2 == IF Previous(s) \in {None, th} THEN e1 ELSE Preempt(e1, Previous(s))
               e3 == IF s.current \in Tasks \ {task}
                     THEN [e2 EXCEPT !.taskCpu[s.current] = None] ELSE e2
    <3>1. Reschedule(s, 0) = Switch(s, 0, task, th)
      BY <1>4, <1>6, <2>1 DEF Reschedule
    <3>2. Switch(s, 0, task, th) =
            [Resume(e3, th) EXCEPT !.running[task] = th, !.taskCpu[task] = 0]
      BY DEF Switch
    <3>3. e1 = s1
      BY <2>7
    <3> HIDE DEF e1
    <3>4. e2 = s2
      BY <2>3, <2>9, <3>3
    <3> HIDE DEF e2
    <3>5. e3 = s3
      BY <2>11, <3>4
    <3> HIDE DEF e3
    <3>6. Reschedule(s, 0) = [q EXCEPT !.running[task] = th, !.taskCpu[task] = 0]
      BY ONLY <2>14, <3>1, <3>2, <3>5
    <3>7. [q EXCEPT !.running[task] = th, !.taskCpu[task] = 0] = r
      BY ONLY <2>18, <2>19
    <3> QED BY <3>6, <3>7
  <2>21. r = [q EXCEPT !.taskCpu = cpus, !.running = running,
                       !.current = q.current, !.cpuTask = q.cpuTask]
    BY ONLY <2>17, <2>19 DEF KernelStates
  <2>22. /\ InOrder(r) /\ Untouched(q, r) /\ r.state = q.state
         /\ r.running = running /\ r.current = q.current /\ r.cpuTask = q.cpuTask
    <3>1. /\ q.current \in Tasks \cup {Idle, None}
          /\ q.cpuTask \in [Cpus -> Tasks \cup {Idle, None}]
          /\ q.running \in [Tasks -> Threads \cup {None}]
      BY <2>17 DEF KernelStates
    <3>2. \A other \in Tasks : running[other] # None => running[other] \in ThreadsOf(other)
      BY <2>2, <2>17, <2>18, <3>1
    <3>3. InOrder(q)
      BY <2>16 DEF Resumes
    <3>4. Assigns(q, r, cpus, running, q.current, q.cpuTask)
      BY <2>21, <3>1, <3>2, <3>3, SchedulersFields
    <3> QED BY <3>4 DEF Assigns
  <2>23. r.current = task /\ r.cpuTask[0] = task /\ r.running[task] = th
    <3>1. q.running \in [Tasks -> Threads \cup {None}]
      BY <2>17 DEF KernelStates
    <3>2. q.current = task /\ q.cpuTask[0] = task
      BY <2>8, <2>10, <2>13, <2>16 DEF Resumes
    <3> QED BY <2>2, <2>18, <2>22, <3>1, <3>2
  <2>24. Resumed(s3, th) = Resumed(s, th)
    BY <2>10, <2>15 DEF Resumed
  <2>25. s2.state \in [Threads -> States] /\ s2.next \in [Threads -> States]
    BY <2>12 DEF KernelStates
  <2>26. /\ r.state = [s2.state EXCEPT ![th] = Resumed(s, th)]
         /\ r.next = [s2.next EXCEPT ![th] = IF s.state[th] = SuperUser THEN s.next[th]
                                             ELSE Resumed(s, th)]
    BY <2>2, <2>10, <2>15, <2>16, <2>22, <2>24, <2>25 DEF Resumes, Untouched
  <2>27. /\ r.state[th] = Resumed(s, th)
         /\ r.next[th] = IF s.state[th] = SuperUser THEN s.next[th] ELSE Resumed(s, th)
         /\ \A t \in Threads \ {th} : /\ r.state[t] = PausedFrom(s.state[t])
                                      /\ r.next[t] = r.state[t]
    BY <2>2, <2>10, <2>25, <2>26
  <2>28. /\ r.preempt = s.preempt /\ r.list = s.list /\ r.fatal = s.fatal /\ r.missed = s.missed
         /\ r.active = s.active /\ r.notified = s.notified
    BY <2>10, <2>13, <2>16, <2>22 DEF Untouched, Resumes
  <2> QED BY <2>2, <2>20, <2>22, <2>23, <2>27, <2>28 DEF Reschedules
<1> QED BY <1>5, <1>6

----------------------------------------------------------------------------
\* The invariant.

\* The state x of a thread whose code is at p.  If its time is not over yet (waits)
\* it is to enter y, and was executing or is preempted; else it is in a state its
\* code left it in.
Fits(p, waits, y, x) ==
  CASE p = "gone" -> IF waits THEN y = Zombie /\ x \in {SuperUser, Ready} ELSE x = Zombie
    [] p = "kernel" -> IF waits
                       THEN \/ y = SuperUser /\ x \in {User, Waiting, SuperUser, Ready}
                            \/ y = Blocked /\ x \in {SuperUser, Ready}
                       ELSE x \in {SuperUser, Ready, Blocked}
    [] OTHER -> IF waits THEN y = Waiting /\ x \in {SuperUser, Ready}
                ELSE x \in {User, Waiting}

\* The processor: while it runs or waits it has a thread that executes.
Control ==
  /\ phase \in [Cpus -> Phases] /\ on \in [Cpus -> Threads \cup {None}]
  /\ turn \in Cpus \cup {None} /\ (turn # None => phase[turn] \in {"sched", "run"})
  /\ busy \subseteq UserThreads /\ sleepers \subseteq UserThreads /\ handling \subseteq Cpus
  /\ pos \in [UserThreads -> {"user", "kernel", "gone"}]
  /\ phase[0] = "run" => turn = 0
  /\ phase[0] = "wait" => on[0] \in busy
  /\ phase[0] \in {"run", "wait"} =>
       on[0] \in Threads /\ k.state[on[0]] \in Executing /\ k.cpuTask[0] # Idle

\* Nobody else executes, and who had the processor last is not in a ready list.
Execution ==
  /\ \A t \in Threads : k.state[t] \in Executing => t = on[0]
  /\ OneExecutes(k) /\ Settled(k)
  /\ Previous(k) \in UserThreads => k.state[Previous(k)] # Ready

\* The interruption thread is READY only for an interrupt and keeps its bit until the
\* handler has ended; it is WAITING or in USER between the handler and that end, and
\* nobody waits for its time.
Interruption ==
  /\ k.state[Irq] \in IF 0 \in handling THEN {Waiting, User} ELSE {Blocked, Ready, SuperUser}
  /\ k.next[Irq] = k.state[Irq]
  /\ k.state[Irq] # Blocked => 0 \in k.active
  /\ k.state[Irq] \in Executing => phase[0] = "run"

CodeFits ==
  \A t \in UserThreads :
    /\ Fits(pos[t], t \in busy, k.preempt[t], k.state[t])
    /\ k.state[t] = User => k.next[t] = User \/ (t \in busy /\ k.next[t] = SuperUser)

\* Who is on a list is BLOCKED, or will be when its time is over.
ListFits ==
  \A t \in On(k.list) : IF t \in busy THEN pos[t] = "kernel" /\ k.preempt[t] = Blocked
                        ELSE k.state[t] = Blocked

Inv == InOrder(k) /\ Control /\ Execution /\ Interruption /\ CodeFits /\ ListFits

\* What holds besides when kernel code takes no time: only user code is waited for.
Calm ==
  /\ ~k.fatal
  /\ \A t \in On(k.list) : k.state[t] = Blocked
  /\ \A t \in UserThreads : k.state[t] = Blocked => t \in On(k.list) \cup sleepers
  /\ \A t \in busy : k.preempt[t] \in {SuperUser, Zombie}

----------------------------------------------------------------------------
\* What one processor does.

\* s with other values in fields that order nothing.
Edited(s, next, preempt, active, notified, list) ==
  [s EXCEPT !.next = next, !.preempt = preempt, !.active = active,
            !.notified = notified, !.list = list]

Edits(s, r, next, preempt, list) ==
  /\ InOrder(r) /\ r.state = s.state /\ r.running = s.running
  /\ r.current = s.current /\ r.cpuTask = s.cpuTask /\ r.fatal = s.fatal /\ r.missed = s.missed
  /\ r.next = next /\ r.preempt = preempt /\ r.list = list

LEMMA FieldsEdited ==
  ASSUME NEW s, InOrder(s), NEW next \in [Threads -> States],
         NEW preempt \in [Threads -> States], NEW active \in SUBSET Cpus,
         NEW notified \in SUBSET Cpus, NEW list \in Seq(UserThreads), NoRepeat(list)
  PROVE  LET r == Edited(s, next, preempt, active, notified, list)
         IN  Edits(s, r, next, preempt, list) /\ r.active = active /\ r.notified = notified
<1> DEFINE r == Edited(s, next, preempt, active, notified, list)
<1> r = [s EXCEPT !.next = next, !.preempt = preempt, !.active = active,
                  !.notified = notified, !.list = list]
  BY DEF Edited
<1> HIDE DEF r
<1>1. s \in KernelStates
  BY DEF InOrder
<1>2. r \in KernelStates
  BY ONLY <1>1, r = [s EXCEPT !.next = next, !.preempt = preempt, !.active = active,
                              !.notified = notified, !.list = list],
          next \in [Threads -> States], preempt \in [Threads -> States],
          active \in SUBSET Cpus, notified \in SUBSET Cpus, list \in Seq(UserThreads)
     DEF KernelStates
<1>3. /\ r.state = s.state /\ r.kmode = s.kmode /\ r.threadReady = s.threadReady
      /\ r.ready = s.ready /\ r.taskState = s.taskState /\ r.running = s.running
      /\ r.current = s.current /\ r.cpuTask = s.cpuTask /\ r.fatal = s.fatal /\ r.missed = s.missed
      /\ r.next = next /\ r.preempt = preempt /\ r.active = active
      /\ r.notified = notified /\ r.list = list
  BY ONLY <1>1, r = [s EXCEPT !.next = next, !.preempt = preempt, !.active = active,
                              !.notified = notified, !.list = list]
     DEF KernelStates
<1>4. ASSUME NEW task \in Tasks PROVE TaskInOrder(r, task)
  BY <1>3 DEF InOrder, TaskInOrder
<1>5. ASSUME NEW t \in Threads PROVE ThreadInOrder(r, t)
  BY <1>3 DEF InOrder, ThreadInOrder
<1>6. InOrder(r)
  BY <1>2, <1>3, <1>4, <1>5 DEF InOrder
<1> QED BY <1>3, <1>6 DEF Edits, r

\* Where the code of thread t goes, with pos at p: the interruption thread waits after
\* its handler, with its bit set, or is BLOCKED; a call touches no interrupt.
Goes(s, t, p) ==
  /\ handling' \subseteq Cpus
  /\ IF t = Irq
     THEN s.next[t] = IF 0 \in handling' THEN Waiting ELSE Blocked
     ELSE handling' = handling /\ s.active = k.active /\ Fits(p, FALSE, s.next[t], s.next[t])
  /\ t = Irq /\ 0 \in handling' => 0 \in s.active

\* s is what the code of thread t leaves, with pos at p: t may enter the state it
\* yielded for, which fits its code, and besides it only BLOCKED threads moved.
Leaves(s, t, p) ==
  /\ InOrder(s) /\ s.cpuTask[0] # Idle
  /\ s.running = k.running /\ s.current = k.current
  /\ MayEnter(s, t, s.next[t]) /\ s.next[t] # Ready
  /\ \A u \in Threads \ {t} :
       /\ s.preempt[u] = k.preempt[u]
       /\ \/ s.state[u] = k.state[u] /\ s.next[u] = k.next[u]
          \/ /\ u \in UserThreads /\ k.state[u] = Blocked
             /\ s.state[u] = Ready /\ s.next[u] = Ready
  /\ \A u \in On(s.list) \ {t} : u \in On(k.list) /\ s.state[u] = k.state[u]
  /\ t \in On(s.list) => p = "kernel" /\ s.next[t] = Blocked
  /\ Goes(s, t, p)

\* The values of the states.
LEMMA StateValues ==
  /\ Zombie = 0 /\ Blocked = 1 /\ Waiting = 2 /\ Created = 3 /\ Ready = 4
  /\ User = 5 /\ SuperUser = 6 /\ Listed = {2, 4} /\ Executing = {5, 6}
BY DEF Zombie, Blocked, Waiting, Created, Ready, User, SuperUser, Listed, Executing

\* One processor, with one interruption thread.
LEMMA OneProcessor ==
  ASSUME NumCpus = 1
  PROVE  /\ Cpus = {0} /\ Irq \in Threads /\ IrqThreads = {Irq} /\ Irq \notin UserThreads
         /\ UserThreads \cup {Irq} = Threads /\ None \notin Threads /\ None \notin Cpus
         /\ None \notin Tasks /\ Idle \notin Tasks /\ Idle # None
BY IrqAssumption, TasksAssumption DEF Cpus, Irq, IrqThreads, UserThreads

\* Moves of the code of t, to p.
MovesTo(t, p) ==
  /\ pos' \in [UserThreads -> {"user", "kernel", "gone"}]
  /\ \A u \in UserThreads : pos'[u] = IF u = t THEN p ELSE pos[u]
  /\ sleepers' \subseteq UserThreads

\* The end of wait_time: the thread enters the state it yielded for.
LEMMA CompletesKeeps ==
  ASSUME NumCpus = 1, Inv, NEW t \in Threads, t = on[0], k.state[t] \in Executing,
         NEW s, NEW p, Leaves(s, t, p), k' = Update(s, t),
         on' = on, busy' = busy \ {t}, MovesTo(t, p), AfterWait(0)
  PROVE  Inv'
<1>1. InOrder(s) /\ s.cpuTask[0] # Idle /\ MayEnter(s, t, s.next[t])
  BY DEF Leaves
<1> DEFINE y == s.next[t]
<1>2. Enters(s, k', t, y)
  BY <1>1, UpdateEnters
<1>3. /\ s.state \in [Threads -> States] /\ s.next \in [Threads -> States]
      /\ s.list \in Seq(UserThreads) /\ k.list \in Seq(UserThreads)
  BY <1>1 DEF InOrder, KernelStates, Inv
<1>4. /\ k'.state[t] = y /\ k'.next[t] = y
      /\ \A u \in Threads \ {t} : k'.state[u] = s.state[u] /\ k'.next[u] = s.next[u]
      /\ k'.preempt = s.preempt /\ k'.list = s.list /\ k'.active = s.active
  BY <1>2, <1>3 DEF Enters
<1> HIDE DEF y
<1>5. Control'
  <2>1. phase' \in [Cpus -> Phases] /\ phase'[0] \in {"sched", "bus"}
        /\ turn' = (IF phase'[0] = "sched" THEN 0 ELSE None)
    BY OneProcessor DEF AfterWait, Inv, Control, Phases
  <2> QED BY <2>1, OneProcessor DEF Control, Inv, MovesTo, Leaves, Goes
<1>6. \A u \in Threads \ {t} : k'.state[u] \notin Executing
  BY <1>4, StateValues DEF Leaves, Inv, Execution
<1>7. t = Previous(k) /\ t \in Threads
  BY DEF Inv, Execution, OneExecutes
<1>8. Previous(k') \in {t, None} /\ (y \in Executing => Previous(k') = t)
  <2>1. /\ k'.current \in {k.current, None}
        /\ \A task \in Tasks : k'.running[task] \in {k.running[task], None}
    BY <1>2 DEF Enters, Leaves
  <2>2. y # Zombie => k'.current = k.current /\ k'.running = k.running
    BY <1>2 DEF Enters, Leaves
  <2>3. Previous(k') \in {Previous(k), None}
    BY <2>1, OneProcessor DEF Previous
  <2>4. y # Zombie => Previous(k') = Previous(k)
    BY <2>2 DEF Previous
  <2> QED BY <1>7, <2>3, <2>4, StateValues
<1>9. Execution'
  <2>1. Settled(k')
    BY <1>4, StateValues DEF Leaves, Inv, Execution, Settled
  <2>2. Previous(k') \in UserThreads => k'.state[Previous(k')] # Ready
    BY <1>4, <1>8, OneProcessor DEF Leaves, y, UserThreads
  <2>3. OneExecutes(k')
    BY <1>4, <1>6, <1>8 DEF OneExecutes
  <2>4. \A u \in Threads : k'.state[u] \in Executing => u = on'[0]
    BY <1>6
  <2> QED BY <2>1, <2>2, <2>3, <2>4 DEF Execution
<1>10. Interruption'
  <2>1. CASE t = Irq
    <3>1. /\ k'.state[Irq] = IF 0 \in handling' THEN Waiting ELSE Blocked
          /\ k'.next[Irq] = k'.state[Irq] /\ (0 \in handling' => 0 \in k'.active)
      BY <1>4, <2>1 DEF Leaves, Goes, y
    <3> QED BY <3>1, StateValues DEF Interruption
  <2>2. CASE t # Irq
    <3>1. /\ k'.state[Irq] = k.state[Irq] /\ k'.next[Irq] = k.next[Irq]
          /\ k'.active = k.active /\ handling' = handling
      BY <1>4, <2>2, OneProcessor DEF Leaves, Goes
    <3>2. k.state[Irq] \notin Executing
      BY <2>2, OneProcessor, StateValues DEF Inv, Execution
    <3> QED BY <3>1, <3>2 DEF Inv, Interruption
  <2> QED BY <2>1, <2>2
<1>11. CodeFits'
  <2>1. ASSUME NEW u \in UserThreads, u # t
        PROVE  /\ Fits(pos'[u], u \in busy', k'.preempt[u], k'.state[u])
               /\ k'.state[u] = User =>
                    k'.next[u] = User \/ (u \in busy' /\ k'.next[u] = SuperUser)
    <3>1. /\ pos'[u] = pos[u] /\ (u \in busy' <=> u \in busy) /\ k'.preempt[u] = k.preempt[u]
          /\ k'.state[u] = s.state[u] /\ k'.next[u] = s.next[u]
      BY <1>4, <2>1 DEF MovesTo, Leaves, UserThreads
    <3>2. /\ Fits(pos[u], u \in busy, k.preempt[u], k.state[u])
          /\ k.state[u] = User => k.next[u] = User \/ (u \in busy /\ k.next[u] = SuperUser)
      BY DEF Inv, CodeFits
    <3>3. CASE s.state[u] = k.state[u] /\ s.next[u] = k.next[u]
      BY <3>1, <3>2, <3>3
    <3>4. CASE k.state[u] = Blocked /\ s.state[u] = Ready
      BY <3>1, <3>2, <3>4, StateValues DEF Fits
    <3> QED BY <2>1, <3>3, <3>4 DEF Leaves, UserThreads
  <2>2. ASSUME t \in UserThreads
        PROVE  /\ Fits(pos'[t], t \in busy', k'.preempt[t], k'.state[t])
               /\ k'.state[t] = User =>
                    k'.next[t] = User \/ (t \in busy' /\ k'.next[t] = SuperUser)
    <3>1. pos'[t] = p /\ t \notin busy' /\ k'.state[t] = y /\ k'.next[t] = y
      BY <1>4, <2>2 DEF MovesTo
    <3>2. Fits(p, FALSE, y, y)
      BY <2>2, OneProcessor DEF Leaves, Goes, y
    <3> QED BY <3>1, <3>2 DEF Fits
  <2> QED BY <2>1, <2>2 DEF CodeFits
<1>12. ListFits'
  <2>1. ASSUME NEW u \in On(k'.list), u # t
        PROVE  IF u \in busy' THEN pos'[u] = "kernel" /\ k'.preempt[u] = Blocked
               ELSE k'.state[u] = Blocked
    <3>1. u \in UserThreads
      BY <1>3, <1>4, OnInThreads
    <3>2. u \in On(k.list) /\ k'.state[u] = k.state[u]
      BY <1>4, <2>1, <3>1 DEF Leaves, UserThreads
    <3>3. pos'[u] = pos[u] /\ (u \in busy' <=> u \in busy) /\ k'.preempt[u] = k.preempt[u]
      BY <1>4, <2>1, <3>1 DEF Leaves, MovesTo, UserThreads
    <3> QED BY <3>2, <3>3 DEF Inv, ListFits
  <2>2. t \in On(k'.list) => t \notin busy' /\ k'.state[t] = Blocked
    BY <1>4 DEF Leaves, y
  <2> QED BY <2>1, <2>2 DEF ListFits
<1> QED BY <1>2, <1>5, <1>9, <1>10, <1>11, <1>12 DEF Inv, Enters

\* The thread annotated time: it is about to enter its state when that has passed.
LEMMA WaitsKeeps ==
  ASSUME NumCpus = 1, Inv, NEW t \in UserThreads, t = on[0], k.state[t] \in Executing,
         NEW s, NEW p, Leaves(s, t, p), s.state[t] \in Executing,
         Fits(p, TRUE, s.next[t], s.state[t]),
         s.state[t] = User => s.next[t] \in Executing,
         k' = [s EXCEPT !.preempt[t] = s.next[t]],
         on' = on, busy' = busy \cup {t}, MovesTo(t, p),
         phase' = [phase EXCEPT ![0] = "wait"], turn' = None
  PROVE  Inv'
<1>1. /\ s \in KernelStates /\ InOrder(s) /\ s.state \in [Threads -> States]
      /\ s.next \in [Threads -> States] /\ s.preempt \in [Threads -> States]
      /\ s.list \in Seq(UserThreads) /\ NoRepeat(s.list)
      /\ s.active \in SUBSET Cpus /\ s.notified \in SUBSET Cpus
  BY DEF Leaves, InOrder, KernelStates
<1>2. t \in Threads /\ t # Irq
  BY OneProcessor DEF UserThreads
<1>3. PICK preempt : preempt = [s.preempt EXCEPT ![t] = s.next[t]]
  OBVIOUS
<1> preempt \in [Threads -> States]
  BY <1>1, <1>2, <1>3
<1>4. PICK r : r = k'
  OBVIOUS
<1>5. r = Edited(s, s.next, preempt, s.active, s.notified, s.list)
  BY ONLY <1>1, <1>3, <1>4, k' = [s EXCEPT !.preempt[t] = s.next[t]] DEF KernelStates, Edited
<1>6. Edits(s, r, s.next, preempt, s.list) /\ r.active = s.active
  BY ONLY <1>1, <1>5, preempt \in [Threads -> States], FieldsEdited
<1>7. /\ InOrder(k') /\ k'.state = s.state /\ k'.next = s.next /\ k'.list = s.list
      /\ k'.running = s.running /\ k'.current = s.current /\ k'.cpuTask = s.cpuTask
      /\ k'.active = s.active /\ k'.preempt = preempt
  BY <1>4, <1>6 DEF Edits
<1>8. k'.preempt[t] = s.next[t] /\ \A u \in Threads \ {t} : k'.preempt[u] = s.preempt[u]
  BY <1>1, <1>2, <1>3, <1>7
<1>9. Control'
  <2>1. phase' \in [Cpus -> Phases] /\ phase'[0] = "wait"
    BY OneProcessor DEF Inv, Control, Phases
  <2> QED BY <1>2, <1>7, <2>1, OneProcessor DEF Control, Inv, MovesTo, Leaves, Goes
<1>10. \A u \in Threads \ {t} : k'.state[u] \notin Executing
  BY <1>7, StateValues DEF Leaves, Inv, Execution
<1>11. Previous(k') = t
  BY <1>2, <1>7 DEF Previous, Leaves, Inv, Execution, OneExecutes
<1>12. Execution'
  <2>1. Settled(k')
    BY <1>7, StateValues DEF Leaves, Inv, Execution, Settled
  <2>2. k'.state[t] # Ready
    BY <1>7, StateValues
  <2>3. OneExecutes(k')
    BY <1>10, <1>11 DEF OneExecutes
  <2>4. \A u \in Threads : k'.state[u] \in Executing => u = on'[0]
    BY <1>10
  <2> QED BY <1>11, <2>1, <2>2, <2>3, <2>4 DEF Execution
<1>13. Interruption'
  <2>1. /\ k'.state[Irq] = k.state[Irq] /\ k'.next[Irq] = k.next[Irq]
        /\ k'.active = k.active /\ handling' = handling
    BY <1>2, <1>7, OneProcessor DEF Leaves, Goes
  <2>2. k.state[Irq] \notin Executing
    BY <1>2, OneProcessor, StateValues DEF Inv, Execution
  <2> QED BY <2>1, <2>2 DEF Inv, Interruption
<1>14. CodeFits'
  <2>1. ASSUME NEW u \in UserThreads, u # t
        PROVE  /\ Fits(pos'[u], u \in busy', k'.preempt[u], k'.state[u])
               /\ k'.state[u] = User =>
                    k'.next[u] = User \/ (u \in busy' /\ k'.next[u] = SuperUser)
    <3>1. /\ pos'[u] = pos[u] /\ (u \in busy' <=> u \in busy) /\ k'.preempt[u] = k.preempt[u]
          /\ k'.state[u] = s.state[u] /\ k'.next[u] = s.next[u]
      BY <1>7, <1>8, <2>1 DEF MovesTo, Leaves, UserThreads
    <3>2. /\ Fits(pos[u], u \in busy, k.preempt[u], k.state[u])
          /\ k.state[u] = User => k.next[u] = User \/ (u \in busy /\ k.next[u] = SuperUser)
      BY DEF Inv, CodeFits
    <3>3. CASE s.state[u] = k.state[u] /\ s.next[u] = k.next[u]
      BY <3>1, <3>2, <3>3
    <3>4. CASE k.state[u] = Blocked /\ s.state[u] = Ready
      BY <3>1, <3>2, <3>4, StateValues DEF Fits
    <3> QED BY <2>1, <3>3, <3>4 DEF Leaves, UserThreads
  <2>2. /\ Fits(pos'[t], t \in busy', k'.preempt[t], k'.state[t])
        /\ k'.state[t] = User => k'.next[t] = User \/ (t \in busy' /\ k'.next[t] = SuperUser)
    <3>1. /\ pos'[t] = p /\ t \in busy' /\ k'.state[t] = s.state[t]
          /\ k'.next[t] = s.next[t] /\ k'.preempt[t] = s.next[t]
      BY <1>7, <1>8 DEF MovesTo
    <3> QED BY <3>1 DEF Fits, Executing
  <2> QED BY <2>1, <2>2 DEF CodeFits
<1>15. ListFits'
  <2>1. ASSUME NEW u \in On(k'.list), u # t
        PROVE  IF u \in busy' THEN pos'[u] = "kernel" /\ k'.preempt[u] = Blocked
               ELSE k'.state[u] = Blocked
    <3>1. u \in UserThreads
      BY <1>1, <1>7, OnInThreads
    <3>2. u \in On(k.list) /\ k'.state[u] = k.state[u]
      BY <1>7, <2>1, <3>1 DEF Leaves, UserThreads
    <3>3. pos'[u] = pos[u] /\ (u \in busy' <=> u \in busy) /\ k'.preempt[u] = k.preempt[u]
      BY <1>7, <1>8, <2>1, <3>1 DEF Leaves, MovesTo, UserThreads
    <3> QED BY <3>2, <3>3 DEF Inv, ListFits
  <2>2. t \in On(k'.list) => pos'[t] = "kernel" /\ k'.preempt[t] = Blocked
    BY <1>7, <1>8 DEF Leaves, MovesTo
  <2> QED BY <2>1, <2>2 DEF ListFits
<1> QED BY <1>7, <1>9, <1>12, <1>13, <1>14, <1>15 DEF Inv

\* The code of t left what was on the list there but for W, whom it woke.
Woke(s, t, W) ==
  /\ (\A u \in On(k.list) : k.state[u] = Blocked) => s.fatal = k.fatal
  /\ On(k.list) \ (W \cup {t}) \subseteq On(s.list)
  /\ \A u \in W \ {t} : \/ u \in On(s.list)
                       \/ /\ s.state[u] # Blocked
                          /\ k.state[u] = Blocked \/ u \in s.missed \/ s.fatal
  /\ k.missed \subseteq s.missed /\ (k.fatal => s.fatal)

\* The code of t ran and left s, with pos at p: if it annotated time, it is to
\* enter a state its own allows, and BLOCKED only with something to wake it.
CodeLeft(t, s, p, W) ==
  /\ Leaves(s, t, p) /\ Woke(s, t, W) /\ Segment(0, s) /\ MovesTo(t, p)
  /\ sleepers \ sleepers' \subseteq W \cup {t}
  /\ t \in UserThreads =>
       /\ s.state[t] \in Executing /\ Fits(p, TRUE, s.next[t], s.state[t])
       /\ s.state[t] = User => s.next[t] \in Executing
       /\ k.state[t] = User => s.next[t] \in {SuperUser, Zombie}
       /\ s.next[t] = Blocked => t \in On(s.list) \cup sleepers'

CodeRan(t) == /\ t = on[0] /\ t \in Threads /\ k.state[t] \in Executing /\ t \notin busy
              /\ \E s, p, W : CodeLeft(t, s, p, W)

\* r is s but for m_preempt_state of t, from which it takes the state to enter.
ToEnter(s, r, t) ==
  /\ InOrder(r) /\ r.state = s.state /\ r.next = s.next /\ r.list = s.list
  /\ r.running = s.running /\ r.current = s.current /\ r.cpuTask = s.cpuTask
  /\ r.active = s.active /\ r.fatal = s.fatal /\ r.missed = s.missed
  /\ \A u \in Threads \ {t} : r.preempt[u] = s.preempt[u]

\* The code annotated time, or not.
Annotated(s, t) ==
  /\ t \in UserThreads /\ (k.state[t] = SuperUser => KernelTime)
  /\ k' = [s EXCEPT !.preempt[t] = s.next[t]] /\ on' = on /\ busy' = busy \cup {t}
  /\ phase' = [phase EXCEPT ![0] = "wait"] /\ turn' = None

NotAnnotated(s, t) ==
  /\ \E r : ToEnter(s, r, t) /\ k' = Update(r, t)
  /\ on' = on /\ busy' = busy \ {t} /\ AfterWait(0)

LEMMA SegmentSplits ==
  ASSUME NumCpus = 1, NEW t \in Threads, t = on[0], t \notin busy, NEW s, InOrder(s),
         Segment(0, s)
  PROVE  Annotated(s, t) \/ NotAnnotated(s, t)
<1> DEFINE s1 == [s EXCEPT !.preempt[t] = s.next[t]]
<1>1. /\ s \in KernelStates /\ InOrder(s) /\ s.state \in [Threads -> States]
      /\ s.next \in [Threads -> States] /\ s.preempt \in [Threads -> States]
      /\ s.list \in Seq(UserThreads) /\ NoRepeat(s.list)
      /\ s.active \in SUBSET Cpus /\ s.notified \in SUBSET Cpus
  BY DEF InOrder, KernelStates
<1>2. CASE /\ t \notin IrqThreads /\ (k.state[t] = SuperUser => KernelTime) /\ k' = s1
           /\ busy' = busy \cup {t} /\ phase' = [phase EXCEPT ![0] = "wait"] /\ turn' = None
  BY <1>2 DEF Segment, Annotated, UserThreads
<1>3. CASE k' = Complete(s1, t) /\ AfterWait(0) /\ busy' = busy
  <2>1. PICK preempt : preempt = [s.preempt EXCEPT ![t] = s.next[t]]
    OBVIOUS
  <2> preempt \in [Threads -> States]
    BY <1>1, <2>1
  <2>2. PICK r : r = [s1 EXCEPT !.next[t] = s1.preempt[t]]
    OBVIOUS
  <2>3. s1 \in KernelStates /\ s1.preempt[t] = s.next[t]
    BY ONLY <1>1, t \in Threads DEF KernelStates
  <2>4. s1 = [s EXCEPT !.preempt = preempt] /\ s1.next = s.next
    BY ONLY <1>1, <2>1 DEF KernelStates
  <2>5. [s1.next EXCEPT ![t] = s.next[t]] = s.next
    BY <1>1, <2>4
  <2>6. r = [s1 EXCEPT !.next = s.next]
    BY ONLY <2>2, <2>3, <2>4, <2>5 DEF KernelStates
  <2> HIDE DEF s1
  <2>7. r = Edited(s, s.next, preempt, s.active, s.notified, s.list)
    BY ONLY <1>1, <2>4, <2>6 DEF KernelStates, Edited
  <2>8. Edits(s, r, s.next, preempt, s.list) /\ r.active = s.active
    BY ONLY <1>1, <2>7, preempt \in [Threads -> States], FieldsEdited
  <2>9. /\ InOrder(r) /\ r.state = s.state /\ r.next = s.next /\ r.list = s.list
        /\ r.running = s.running /\ r.current = s.current /\ r.cpuTask = s.cpuTask
        /\ r.active = s.active /\ r.preempt = preempt /\ r.fatal = s.fatal /\ r.missed = s.missed
    BY <2>8 DEF Edits
  <2>10. \A u \in Threads \ {t} : r.preempt[u] = s.preempt[u]
    BY <1>1, <2>1, <2>9
  <2>11. ToEnter(s, r, t)
    BY <2>9, <2>10 DEF ToEnter
  <2>12. k' = Update(r, t)
    BY <1>3, <2>2 DEF Complete
  <2> QED BY <1>3, <2>11, <2>12 DEF NotAnnotated, Segment
<1> QED BY <1>2, <1>3 DEF Segment

\* What a thread's code leaves is fine whether or not it annotated time.
LEMMA SegmentKeeps ==
  ASSUME NumCpus = 1, Inv, NEW t, CodeRan(t)
  PROVE  Inv'
<1>1. PICK s, p, W : CodeLeft(t, s, p, W)
  BY DEF CodeRan
<1>2. /\ t \in Threads /\ t = on[0] /\ k.state[t] \in Executing /\ t \notin busy
      /\ Leaves(s, t, p) /\ Segment(0, s) /\ MovesTo(t, p)
      /\ t \in UserThreads => /\ s.state[t] \in Executing
                              /\ Fits(p, TRUE, s.next[t], s.state[t])
                              /\ s.state[t] = User => s.next[t] \in Executing
  BY <1>1 DEF CodeRan, CodeLeft
<1>3. InOrder(s)
  BY <1>2 DEF Leaves
<1>4. CASE Annotated(s, t)
  <2>1. /\ t \in UserThreads /\ k' = [s EXCEPT !.preempt[t] = s.next[t]]
        /\ on' = on /\ busy' = busy \cup {t}
        /\ phase' = [phase EXCEPT ![0] = "wait"] /\ turn' = None
    BY <1>4 DEF Annotated
  <2> QED BY <1>2, <2>1, WaitsKeeps
<1>5. CASE NotAnnotated(s, t)
  <2>1. PICK r : ToEnter(s, r, t) /\ k' = Update(r, t)
    BY <1>5 DEF NotAnnotated
  <2>2. Leaves(r, t, p)
    BY <1>2, <2>1 DEF Leaves, Goes, MayEnter, ToEnter
  <2>3. on' = on /\ busy' = busy \ {t} /\ AfterWait(0)
    BY <1>5 DEF NotAnnotated
  <2> QED BY <1>2, <2>1, <2>2, <2>3, CompletesKeeps
<1> QED BY <1>2, <1>3, <1>4, <1>5, SegmentSplits

\* The thread that runs is on no list, and in the state its code needs.
Runs(t) ==
  /\ t \in Threads /\ t = on[0] /\ t \notin busy /\ t \notin On(k.list)
  /\ k.state[t] \in Executing /\ k.cpuTask[0] # Idle
  /\ t \in UserThreads => pos[t] # "gone" /\ k.state[t] = IF pos[t] = "kernel" THEN SuperUser
                                                          ELSE User

LEMMA RunningRuns ==
  ASSUME NumCpus = 1, Inv, Running(0)
  PROVE  /\ Runs(on[0]) /\ AllWaiting(k) /\ Settled(k) /\ InOrder(k)
         /\ k.list \in Seq(UserThreads) /\ NoRepeat(k.list)
         /\ k.state \in [Threads -> States] /\ k.next \in [Threads -> States]
         /\ k.preempt \in [Threads -> States]
         /\ k.active \in SUBSET Cpus /\ k.notified \in SUBSET Cpus
<1> DEFINE t == on[0]
<1>1. /\ t \in Threads /\ k.state[t] \in Executing /\ k.cpuTask[0] # Idle /\ t \notin busy
  BY DEF Running, Inv, Control
<1>2. /\ k.list \in Seq(UserThreads) /\ NoRepeat(k.list) /\ InOrder(k)
      /\ k.state \in [Threads -> States] /\ k.next \in [Threads -> States]
      /\ k.preempt \in [Threads -> States]
      /\ k.active \in SUBSET Cpus /\ k.notified \in SUBSET Cpus
  BY DEF Inv, InOrder, KernelStates
<1>3. t \notin On(k.list)
  BY <1>1, StateValues DEF Inv, ListFits
<1>4. AllWaiting(k)
  <2>1. On(k.list) \subseteq UserThreads
    BY <1>2, OnInThreads
  <2> QED BY <1>3, <2>1 DEF AllWaiting, Inv, Execution, UserThreads
<1>5. ASSUME t \in UserThreads
      PROVE  pos[t] # "gone" /\ k.state[t] = IF pos[t] = "kernel" THEN SuperUser ELSE User
  BY <1>1, <1>5, StateValues DEF Inv, CodeFits, Fits
<1>6. Settled(k)
  BY DEF Inv, Execution
<1> QED BY <1>1, <1>2, <1>3, <1>4, <1>5, <1>6 DEF Runs

\* The code of t starts: m is what there is before it wakes anybody.
Starts(m, t) ==
  /\ t \notin On(m.list) /\ On(m.list) \subseteq On(k.list) /\ m.fatal = k.fatal /\ m.missed = k.missed
  /\ On(k.list) \ {t} \subseteq On(m.list)
  /\ m.running = k.running /\ m.current = k.current /\ m.cpuTask[0] # Idle
  /\ \A u \in Threads \ {t} : /\ m.state[u] = k.state[u] /\ m.next[u] = k.next[u]
                              /\ m.preempt[u] = k.preempt[u]

\* The code of t ends: s is r but for t, which may enter the state it goes to.
Ends(r, s, t, p) ==
  /\ InOrder(s) /\ s.running = r.running /\ s.current = r.current
  /\ s.cpuTask = r.cpuTask /\ s.preempt = r.preempt /\ s.list = r.list
  /\ s.fatal = r.fatal /\ s.missed = r.missed
  /\ \A u \in Threads \ {t} : s.state[u] = r.state[u] /\ s.next[u] = r.next[u]
  /\ MayEnter(s, t, s.next[t]) /\ s.next[t] # Ready
  /\ Goes(s, t, p)

\* Nobody but t moved, except who was woken.
LEMMA WakesLeaves ==
  ASSUME NumCpus = 1, Inv, NEW t \in Threads, NEW m, NEW r, NEW W, Starts(m, t), Wakes(m, r, W),
         W \subseteq UserThreads, NEW s, NEW p, Ends(r, s, t, p)
  PROVE  Leaves(s, t, p) /\ Woke(s, t, W)
<1>1. /\ s.running = k.running /\ s.current = k.current /\ s.cpuTask[0] # Idle
  BY DEF Wakes, Starts, Ends
<1>2. t \notin On(s.list)
  BY DEF Wakes, Starts, Ends
<1>3. ASSUME NEW u \in Threads \ {t}
      PROVE  /\ s.preempt[u] = k.preempt[u]
             /\ \/ s.state[u] = k.state[u] /\ s.next[u] = k.next[u]
                \/ /\ u \in UserThreads /\ k.state[u] = Blocked
                   /\ s.state[u] = Ready /\ s.next[u] = Ready
  BY DEF Wakes, Starts, Ends
<1>4. On(s.list) \subseteq Threads
  <2>1. s.list \in Seq(UserThreads)
    BY DEF Ends, InOrder, KernelStates
  <2> QED BY <2>1, OnInThreads DEF UserThreads
<1>5. ASSUME NEW u \in On(s.list) \ {t} PROVE u \in On(k.list) /\ s.state[u] = k.state[u]
  <2>1. u \in Threads \ {t} /\ u \in On(r.list)
    BY <1>4 DEF Ends
  <2>2. r.state[u] = m.state[u]
    BY <2>1 DEF Wakes
  <2> QED BY <2>1, <2>2 DEF Wakes, Starts, Ends
<1>6. Leaves(s, t, p)
  BY <1>1, <1>2, <1>3, <1>5 DEF Leaves, Ends
<1>7. Woke(s, t, W)
  <2>1. ASSUME \A u \in On(k.list) : k.state[u] = Blocked PROVE s.fatal = k.fatal
    <3>1. On(k.list) \subseteq UserThreads
      BY OnInThreads DEF Inv, InOrder, KernelStates
    <3>2. \A u \in On(m.list) : m.state[u] = Blocked
      BY <2>1, <3>1 DEF Starts, UserThreads
    <3> QED BY <3>2 DEF Wakes, Starts, Ends
  <2>2. On(k.list) \ (W \cup {t}) \subseteq On(s.list)
    BY DEF Wakes, Starts, Ends
  <2>3. ASSUME NEW u \in W \ {t}, u \notin On(s.list)
        PROVE  s.state[u] # Blocked /\ (k.state[u] = Blocked \/ u \in s.missed \/ s.fatal)
    <3>1. u \in Threads \ {t} /\ u \in W \ On(r.list)
      BY <2>3 DEF Ends, UserThreads
    <3>2. r.state[u] # Blocked /\ (m.state[u] = Blocked \/ u \in r.missed \/ r.fatal)
      BY <3>1 DEF Wakes
    <3> QED BY <3>1, <3>2 DEF Starts, Ends
  <2>4. k.missed \subseteq s.missed /\ (k.fatal => s.fatal)
    BY DEF Wakes, Starts, Ends
  <2> QED BY <2>1, <2>2, <2>3, <2>4 DEF Woke
<1> QED BY <1>6, <1>7

\* Waking nobody.
LEMMA WakesNobody ==
  ASSUME NEW s, InOrder(s) PROVE Wakes(s, s, {})
BY DEF Wakes

\* The code of a call: it wakes, and then goes to a state.
Yields(s, t, p, W, from, to) ==
  Leaves(s, t, p) /\ Woke(s, t, W) /\ s.state[t] = from /\ s.next[t] = to

LEMMA CallLeaves ==
  ASSUME NumCpus = 1, Inv, NEW t \in UserThreads, Runs(t), Settled(k), AllWaiting(k),
         NEW r, NEW W, Wakes(k, r, W), W \subseteq UserThreads,
         NEW from \in States, NEW to \in States, k.state[t] = from,
         <<from, to>> \in Legal, to # Ready,
         NEW s, s = SetNext(r, t, from, to), NEW p, Fits(p, FALSE, to, to), handling' = handling
  PROVE  Yields(s, t, p, W, from, to)
<1>1. t \in Threads /\ t # Irq
  BY OneProcessor DEF UserThreads
<1>2. InOrder(r) /\ r \in KernelStates /\ r.next \in [Threads -> States]
  BY DEF Wakes, InOrder, KernelStates
<1>3. r.state[t] = from
  BY <1>1, StateValues DEF Wakes, Runs
<1>4. /\ InOrder(s) /\ s = [r EXCEPT !.next = s.next]
      /\ s.next = [r.next EXCEPT ![t] = to]
  BY <1>1, <1>2, <1>3, SetNextSets
<1>5. /\ s.state = r.state /\ s.running = r.running /\ s.current = r.current
      /\ s.cpuTask = r.cpuTask /\ s.preempt = r.preempt /\ s.list = r.list
      /\ s.active = r.active /\ s.fatal = r.fatal /\ s.missed = r.missed
  BY ONLY <1>2, <1>4 DEF KernelStates
<1>6. s.next[t] = to /\ \A u \in Threads \ {t} : s.next[u] = r.next[u]
  BY <1>1, <1>2, <1>4
<1>7. MayEnter(s, t, s.next[t])
  BY <1>3, <1>5, <1>6 DEF MayEnter
<1>8. s.active = k.active
  BY <1>5 DEF Wakes
<1>9. Starts(k, t)
  BY DEF Starts, Runs
<1>10. Ends(r, s, t, p)
  <2>1. handling' \subseteq Cpus
    BY DEF Inv, Control
  <2> QED BY <1>1, <1>4, <1>5, <1>6, <1>7, <1>8, <2>1 DEF Ends, Goes
<1>11. Leaves(s, t, p) /\ Woke(s, t, W)
  BY <1>1, <1>9, <1>10, WakesLeaves
<1> QED BY <1>3, <1>5, <1>6, <1>11 DEF Yields

\* One step of the processor at a time.
LEMMA EnterKernelStep ==
  ASSUME NumCpus = 1, Inv, EnterKernel(0) PROVE CodeRan(on[0])
<1> DEFINE t == on[0]
<1>1. /\ Runs(t) /\ AllWaiting(k) /\ Settled(k) /\ InOrder(k)
      /\ t \in UserThreads /\ pos[t] = "user"
  BY RunningRuns DEF EnterKernel
<1>2. PICK s : s = SetNext(k, t, User, SuperUser)
  OBVIOUS
<1>3. /\ k.state[t] = User /\ User \in States /\ SuperUser \in States
      /\ <<User, SuperUser>> \in Legal /\ SuperUser # Ready /\ SuperUser # Blocked
      /\ Fits("kernel", FALSE, SuperUser, SuperUser)
  BY <1>1, StateValues DEF Runs, Legal, States, Fits
<1>4. PICK nobody : Wakes(k, k, nobody) /\ nobody \subseteq UserThreads
  <2>1. Wakes(k, k, {}) /\ {} \subseteq UserThreads
    BY <1>1, WakesNobody
  <2> QED BY <2>1
<1>5. Segment(0, s) /\ MovesTo(t, "kernel") /\ sleepers' = sleepers /\ handling' = handling
  BY <1>1, <1>2 DEF EnterKernel, Moves, MovesTo, Inv, Control
<1> HIDE DEF t
<1>6. Yields(s, t, "kernel", nobody, User, SuperUser)
  BY <1>1, <1>2, <1>3, <1>4, <1>5, CallLeaves
<1>7. Fits("kernel", TRUE, SuperUser, User) /\ User \in Executing /\ SuperUser \in Executing
  BY DEF Fits, Executing
<1>8. t \in Threads /\ k.state[t] \in Executing /\ t \notin busy
  BY <1>1 DEF Runs
<1>9. t = on[0]
  BY DEF t
<1>10. CodeLeft(t, s, "kernel", nobody)
  BY <1>3, <1>5, <1>6, <1>7 DEF Yields, CodeLeft
<1> QED BY <1>8, <1>9, <1>10 DEF CodeRan

LEMMA LeaveStep ==
  ASSUME NumCpus = 1, Inv, Leave(0) PROVE CodeRan(on[0])
<1> DEFINE t == on[0]
<1>1. /\ Runs(t) /\ AllWaiting(k) /\ Settled(k) /\ InOrder(k) /\ k.list \in Seq(UserThreads)
      /\ t \in UserThreads /\ pos[t] = "kernel"
  BY RunningRuns DEF Leave, InKernel
<1>2. PICK n \in 0..Len(k.list) :
        Segment(0, SetNext(UnblockFirst(k, n), on[0], SuperUser, Waiting))
  BY DEF Leave
<1>3. PICK r : r = UnblockFirst(k, n)
  OBVIOUS
<1>4. PICK s : s = SetNext(r, t, SuperUser, Waiting)
  OBVIOUS
<1>5. Wakes(k, r, On(k.list)) /\ On(k.list) \subseteq UserThreads
  BY <1>1, <1>3, UnblockFirstWakes, OnInThreads DEF Runs
<1>6. /\ k.state[t] = SuperUser /\ Waiting \in States /\ SuperUser \in States
      /\ <<SuperUser, Waiting>> \in Legal /\ Waiting # Ready
      /\ Fits("user", FALSE, Waiting, Waiting)
  BY <1>1, StateValues DEF Runs, Legal, States, Fits
<1>7. Segment(0, s) /\ MovesTo(t, "user") /\ sleepers' = sleepers /\ handling' = handling
  BY <1>1, <1>2, <1>3, <1>4 DEF Leave, Moves, MovesTo, Inv, Control
<1> HIDE DEF t
<1>8. Yields(s, t, "user", On(k.list), SuperUser, Waiting)
  BY <1>1, <1>4, <1>5, <1>6, <1>7, CallLeaves
<1>9. Fits("user", TRUE, Waiting, SuperUser) /\ SuperUser \in Executing /\ SuperUser # User
  BY StateValues DEF Fits
<1>10. t \in Threads /\ k.state[t] \in Executing /\ t \notin busy
  BY <1>1 DEF Runs
<1>11. t = on[0]
  BY DEF t
<1>12. CodeLeft(t, s, "user", On(k.list))
  BY <1>6, <1>7, <1>8, <1>9, StateValues DEF Yields, CodeLeft
<1> QED BY <1>10, <1>11, <1>12 DEF CodeRan

LEMMA SleepStep ==
  ASSUME NumCpus = 1, Inv, Sleep(0) PROVE CodeRan(on[0])
<1> DEFINE t == on[0]
<1>1. /\ Runs(t) /\ AllWaiting(k) /\ Settled(k) /\ InOrder(k)
      /\ t \in UserThreads /\ pos[t] = "kernel"
  BY RunningRuns DEF Sleep, InKernel
<1>2. PICK s : s = SetNext(k, t, SuperUser, Blocked)
  OBVIOUS
<1>3. /\ k.state[t] = SuperUser /\ Blocked \in States /\ SuperUser \in States
      /\ <<SuperUser, Blocked>> \in Legal /\ Blocked # Ready
      /\ Fits("kernel", FALSE, Blocked, Blocked)
  BY <1>1, StateValues DEF Runs, Legal, States, Fits
<1>4. PICK nobody : Wakes(k, k, nobody) /\ nobody \subseteq UserThreads
  <2>1. Wakes(k, k, {}) /\ {} \subseteq UserThreads
    BY <1>1, WakesNobody
  <2> QED BY <2>1
<1>5. Segment(0, s) /\ MovesTo(t, "kernel") /\ sleepers' = sleepers \cup {t} /\ handling' = handling
  BY <1>1, <1>2 DEF Sleep, MovesTo, Inv, Control
<1> HIDE DEF t
<1>6. Yields(s, t, "kernel", nobody, SuperUser, Blocked)
  BY <1>1, <1>2, <1>3, <1>4, <1>5, CallLeaves
<1>7. Fits("kernel", TRUE, Blocked, SuperUser) /\ SuperUser \in Executing /\ SuperUser # User
  BY StateValues DEF Fits
<1>8. t \in Threads /\ k.state[t] \in Executing /\ t \notin busy
  BY <1>1 DEF Runs
<1>9. t = on[0]
  BY DEF t
<1>10. CodeLeft(t, s, "kernel", nobody)
  BY <1>3, <1>5, <1>6, <1>7, StateValues DEF Yields, CodeLeft
<1> QED BY <1>8, <1>9, <1>10 DEF CodeRan

LEMMA BlockStep ==
  ASSUME NumCpus = 1, Inv, Block(0) PROVE CodeRan(on[0])
<1> DEFINE t == on[0]
<1>1. /\ Runs(t) /\ InOrder(k) /\ k.list \in Seq(UserThreads) /\ NoRepeat(k.list)
      /\ k.state \in [Threads -> States] /\ k.next \in [Threads -> States]
      /\ k.preempt \in [Threads -> States]
      /\ k.active \in SUBSET Cpus /\ k.notified \in SUBSET Cpus
      /\ t \in UserThreads /\ pos[t] = "kernel"
  BY RunningRuns DEF Block, InKernel
<1>2. t \in Threads /\ k.state[t] \in Executing /\ t \notin busy /\ k.cpuTask[0] # Idle
      /\ k.state[t] = SuperUser /\ t # Irq /\ t \notin On(k.list)
  BY <1>1, OneProcessor DEF Runs, UserThreads
<1>3. PICK m : m = [k EXCEPT !.list = Append(@, t)]
  OBVIOUS
<1>4. PICK s : s = SetNext(m, t, SuperUser, Blocked)
  OBVIOUS
<1>5. Segment(0, s) /\ MovesTo(t, "kernel") /\ sleepers' = sleepers /\ handling' = handling
  BY <1>1, <1>3, <1>4 DEF Block, MovesTo, Inv, Control
<1> HIDE DEF t
<1>6. PICK list : list = Append(k.list, t)
  OBVIOUS
<1>7. list \in Seq(UserThreads) /\ NoRepeat(list) /\ On(list) = On(k.list) \cup {t}
  BY <1>1, <1>2, <1>6, AppendAdds
<1>8. m = Edited(k, k.next, k.preempt, k.active, k.notified, list)
  <2>1. k \in KernelStates
    BY <1>1 DEF InOrder
  <2> QED BY ONLY <1>3, <1>6, <2>1 DEF KernelStates, Edited
<1>9. Edits(k, m, k.next, k.preempt, list) /\ m.active = k.active
  BY <1>1, <1>7, <1>8, FieldsEdited
<1>10. /\ InOrder(m) /\ m.state = k.state /\ m.running = k.running /\ m.current = k.current
       /\ m.cpuTask = k.cpuTask /\ m.next = k.next /\ m.preempt = k.preempt /\ m.list = list
       /\ m.active = k.active /\ m.fatal = k.fatal /\ m.missed = k.missed
  BY <1>9 DEF Edits
<1>11. /\ {Blocked, SuperUser} \subseteq States /\ <<SuperUser, Blocked>> \in Legal
       /\ Blocked # Ready /\ Fits("kernel", FALSE, Blocked, Blocked)
       /\ Fits("kernel", TRUE, Blocked, SuperUser) /\ SuperUser \in Executing /\ SuperUser # User
  BY StateValues DEF Legal, States, Fits
<1>12. /\ InOrder(s) /\ s = [m EXCEPT !.next = s.next]
       /\ s.next = [k.next EXCEPT ![t] = Blocked]
  BY <1>2, <1>4, <1>10, <1>11, SetNextSets
<1>13. m \in KernelStates
  BY <1>10 DEF InOrder
<1>14. /\ s.state = m.state /\ s.running = m.running /\ s.current = m.current
       /\ s.cpuTask = m.cpuTask /\ s.preempt = m.preempt /\ s.list = m.list
       /\ s.active = m.active /\ s.fatal = m.fatal /\ s.missed = m.missed
  BY ONLY <1>12, <1>13 DEF KernelStates
<1>15. s.next[t] = Blocked /\ \A u \in Threads \ {t} : s.next[u] = k.next[u]
  BY <1>1, <1>2, <1>12
<1>16. MayEnter(s, t, s.next[t]) /\ s.state[t] = SuperUser
  BY <1>2, <1>10, <1>11, <1>14, <1>15 DEF MayEnter
<1>17. Leaves(s, t, "kernel")
  <2>1. \A u \in On(s.list) \ {t} : u \in On(k.list) /\ s.state[u] = k.state[u]
    BY <1>7, <1>10, <1>14
  <2>2. InOrder(s)
    BY <1>12
  <2>3. Goes(s, t, "kernel")
    BY <1>2, <1>5, <1>10, <1>11, <1>14, <1>15 DEF Goes, Inv, Control
  <2> QED BY <1>2, <1>10, <1>11, <1>14, <1>15, <1>16, <2>1, <2>2, <2>3 DEF Leaves
<1>18. t = on[0]
  BY DEF t
<1>19. Woke(s, t, {}) /\ t \in On(s.list)
  BY <1>7, <1>10, <1>14 DEF Woke
<1>20. CodeLeft(t, s, "kernel", {})
  BY <1>2, <1>5, <1>11, <1>15, <1>16, <1>17, <1>19 DEF CodeLeft
<1> QED BY <1>2, <1>18, <1>20 DEF CodeRan

LEMMA ExitStep ==
  ASSUME NumCpus = 1, Inv, Exit(0) PROVE CodeRan(on[0])
<1> DEFINE t == on[0]
<1>1. /\ Runs(t) /\ InOrder(k) /\ AllWaiting(k) /\ Settled(k)
      /\ k.list \in Seq(UserThreads)
      /\ k.state \in [Threads -> States] /\ k.next \in [Threads -> States]
      /\ t \in UserThreads /\ pos[t] = "user"
  BY RunningRuns DEF Exit
<1>2. /\ t \in Threads /\ k.state[t] \in Executing /\ t \notin busy /\ k.cpuTask[0] # Idle
      /\ k.state[t] = User /\ t # Irq /\ t \notin On(k.list)
  BY <1>1, OneProcessor DEF Runs, UserThreads
<1>3. PICK a : a = Go(k, t, User, SuperUser)
  OBVIOUS
<1>4. PICK s1 : s1 = SetNext(a, t, SuperUser, Zombie)
  OBVIOUS
<1>5. PICK s2 : s2 = [s1 EXCEPT !.list = Without(@, t)]
  OBVIOUS
<1>6. PICK n \in {0, Len(s2.list)} : Segment(0, UnblockFirst(s2, n))
  BY <1>3, <1>4, <1>5 DEF Exit
<1>7. MovesTo(t, "gone") /\ sleepers' = sleepers \ {t} /\ handling' = handling
  BY <1>1 DEF Exit, Moves, MovesTo, Inv, Control
<1> HIDE DEF t
<1>8. /\ User \in States /\ SuperUser \in States /\ Zombie \in States
      /\ <<User, SuperUser>> \in Legal /\ <<SuperUser, Zombie>> \in Legal
      /\ SuperUser \in Executing /\ SuperUser # User /\ SuperUser # Zombie
      /\ SuperUser # Blocked /\ Zombie # Ready
      /\ Fits("gone", FALSE, Zombie, Zombie) /\ Fits("gone", TRUE, Zombie, SuperUser)
  BY StateValues DEF Legal, States, Fits
<1>9. Target(k, t, User, SuperUser) = SuperUser
  BY <1>2, <1>8 DEF Target
<1>10. Enters(k, a, t, SuperUser)
  BY <1>1, <1>2, <1>3, <1>8, <1>9, GoEnters DEF MayEnter
<1>11. /\ InOrder(a) /\ a.state = [k.state EXCEPT ![t] = SuperUser]
       /\ a.next = [k.next EXCEPT ![t] = SuperUser] /\ a.preempt = k.preempt
       /\ a.list = k.list /\ a.active = k.active /\ a.fatal = k.fatal /\ a.missed = k.missed
       /\ a.running = k.running /\ a.current = k.current /\ a.cpuTask = k.cpuTask
  BY <1>8, <1>10 DEF Enters
<1>12. a.state[t] = SuperUser /\ a \in KernelStates
  BY <1>1, <1>2, <1>11 DEF InOrder
<1>13. /\ InOrder(s1) /\ s1 = [a EXCEPT !.next = s1.next]
       /\ s1.next = [a.next EXCEPT ![t] = Zombie]
  BY <1>2, <1>4, <1>8, <1>11, <1>12, SetNextSets
<1>14. /\ s1.state = a.state /\ s1.running = a.running /\ s1.current = a.current
       /\ s1.cpuTask = a.cpuTask /\ s1.preempt = a.preempt /\ s1.list = a.list
       /\ s1.active = a.active /\ s1.fatal = a.fatal /\ s1.missed = a.missed
  BY ONLY <1>12, <1>13 DEF KernelStates
<1>15. /\ s1 \in KernelStates /\ InOrder(s1)
       /\ s1.list \in Seq(UserThreads) /\ NoRepeat(s1.list)
       /\ s1.next \in [Threads -> States] /\ s1.preempt \in [Threads -> States]
       /\ s1.active \in SUBSET Cpus /\ s1.notified \in SUBSET Cpus
  BY <1>13 DEF InOrder, KernelStates
<1>16. PICK list : list = Without(s1.list, t)
  OBVIOUS
<1>17. list \in Seq(UserThreads) /\ NoRepeat(list) /\ On(list) = On(k.list) \ {t}
  BY <1>1, <1>11, <1>14, <1>15, <1>16, WithoutErases
<1>18. s2 = Edited(s1, s1.next, s1.preempt, s1.active, s1.notified, list)
  BY ONLY <1>5, <1>15, <1>16 DEF KernelStates, Edited
<1>19. Edits(s1, s2, s1.next, s1.preempt, list) /\ s2.active = s1.active
  BY <1>15, <1>17, <1>18, FieldsEdited
<1>20. /\ InOrder(s2) /\ s2.state = [k.state EXCEPT ![t] = SuperUser]
       /\ s2.next = [a.next EXCEPT ![t] = Zombie] /\ s2.preempt = k.preempt
       /\ s2.list = list /\ s2.active = k.active /\ s2.fatal = k.fatal /\ s2.missed = k.missed
       /\ s2.running = k.running /\ s2.current = k.current /\ s2.cpuTask = k.cpuTask
  BY <1>11, <1>13, <1>14, <1>19 DEF Edits
<1>21. /\ s2.state[t] = SuperUser /\ s2.next[t] = Zombie
       /\ \A u \in Threads \ {t} : s2.state[u] = k.state[u] /\ s2.next[u] = k.next[u]
  BY <1>1, <1>2, <1>11, <1>20
<1>22. Settled(s2)
  BY <1>1, <1>8, <1>21 DEF Settled
<1>23. AllWaiting(s2) /\ On(s2.list) \subseteq UserThreads
  BY <1>1, <1>17, <1>20, <1>21, OnInThreads DEF AllWaiting, UserThreads
<1>24. n \in 0..Len(s2.list)
  BY <1>6, <1>17, <1>20
<1>25. PICK s : s = UnblockFirst(s2, n)
  OBVIOUS
<1>26. Wakes(s2, s, On(s2.list))
  BY <1>2, <1>20, <1>22, <1>23, <1>24, <1>25, UnblockFirstWakes
<1>27. Starts(s2, t)
  BY <1>2, <1>17, <1>20, <1>21 DEF Starts
<1>28. s.state[t] = SuperUser /\ s.next[t] = Zombie /\ s.active = k.active /\ InOrder(s)
  BY <1>2, <1>8, <1>20, <1>21, <1>26 DEF Wakes
<1>29. Ends(s, s, t, "gone")
  <2>1. Goes(s, t, "gone")
    BY <1>2, <1>7, <1>8, <1>28 DEF Goes, Inv, Control
  <2> QED BY <1>2, <1>8, <1>28, <2>1 DEF Ends, MayEnter
<1>30. Leaves(s, t, "gone") /\ Woke(s, t, On(s2.list))
  BY <1>2, <1>23, <1>26, <1>27, <1>29, WakesLeaves
<1>31. t = on[0] /\ Segment(0, s)
  BY <1>6, <1>25 DEF t
<1>32. CodeLeft(t, s, "gone", On(s2.list))
  BY <1>7, <1>8, <1>28, <1>30, <1>31, StateValues DEF CodeLeft
<1> QED BY <1>2, <1>31, <1>32 DEF CodeRan

LEMMA HandlerStep ==
  ASSUME NumCpus = 1, Inv, Handler(0) PROVE CodeRan(on[0])
<1> DEFINE t == on[0]
<1>1. /\ Runs(t) /\ InOrder(k) /\ AllWaiting(k) /\ Settled(k)
      /\ k.list \in Seq(UserThreads) /\ t = Irq /\ 0 \notin handling
  BY RunningRuns DEF Handler, Irq
<1>2. /\ t \in Threads /\ k.state[t] \in Executing /\ t \notin busy /\ k.cpuTask[0] # Idle
      /\ t \notin UserThreads /\ t \notin On(k.list)
  BY <1>1, OneProcessor DEF Runs
<1>3. k.state[t] = SuperUser /\ 0 \in k.active
  BY <1>1, <1>2, StateValues DEF Inv, Interruption
<1>4. PICK woken \in {{}} \cup {{x} : x \in sleepers \cup On(k.list)} :
        LET s1 == IF woken = {} THEN k ELSE Unblock(k, CHOOSE x \in woken : TRUE)
        IN  /\ Segment(0, SetNext(s1, t, SuperUser, Waiting)) /\ sleepers' = sleepers \ woken
  BY DEF Handler
<1>5. PICK s1 : s1 = IF woken = {} THEN k ELSE Unblock(k, CHOOSE x \in woken : TRUE)
  OBVIOUS
<1>6. PICK s : s = SetNext(s1, t, SuperUser, Waiting)
  OBVIOUS
<1>7. Segment(0, s) /\ sleepers' = sleepers \ woken
  BY <1>4, <1>5, <1>6
<1>8. handling' = handling \cup {0}
  BY DEF Handler
<1>9. MovesTo(t, "user")
  BY <1>2, <1>7 DEF Handler, MovesTo, Inv, Control
<1> HIDE DEF t
<1>10. Wakes(k, s1, woken) /\ woken \subseteq UserThreads
  <2>1. CASE woken = {}
    <3>1. s1 = k /\ Wakes(k, k, {})
      BY <1>1, <1>5, <2>1, WakesNobody
    <3> QED BY <2>1, <3>1
  <2>2. CASE woken # {}
    <3>1. PICK x \in sleepers \cup On(k.list) : woken = {x}
      BY <1>4, <2>2
    <3>2. x \in UserThreads
      BY <1>1, <3>1, OnInThreads DEF Inv, Control
    <3>3. s1 = Unblock(k, x)
      <4>1. (CHOOSE z \in woken : TRUE) = x
        BY <3>1
      <4> QED BY <1>5, <2>2, <4>1
    <3>4. Wakes(k, s1, {x})
      BY <1>1, <1>2, <3>2, <3>3, UnblockWakes DEF AllWaiting
    <3> QED BY <3>1, <3>2, <3>4
  <2> QED BY <2>1, <2>2
<1>11. /\ InOrder(s1) /\ s1 \in KernelStates /\ s1.state[t] = SuperUser
       /\ s1.active = k.active /\ s1.next \in [Threads -> States]
  BY <1>2, <1>3, <1>10, StateValues DEF Wakes, InOrder, KernelStates
<1>12. /\ SuperUser \in States /\ Waiting \in States /\ <<SuperUser, Waiting>> \in Legal
       /\ Waiting # Ready
  BY StateValues DEF Legal, States
<1>13. /\ InOrder(s) /\ s = [s1 EXCEPT !.next = s.next]
       /\ s.next = [s1.next EXCEPT ![t] = Waiting]
  BY <1>2, <1>6, <1>11, <1>12, SetNextSets
<1>14. /\ s.state = s1.state /\ s.running = s1.running /\ s.current = s1.current
       /\ s.cpuTask = s1.cpuTask /\ s.preempt = s1.preempt /\ s.list = s1.list
       /\ s.active = s1.active /\ s.fatal = s1.fatal /\ s.missed = s1.missed
  BY ONLY <1>11, <1>13 DEF KernelStates
<1>15. /\ s.next[t] = Waiting /\ s.state[t] = SuperUser
       /\ \A u \in Threads \ {t} : s.state[u] = s1.state[u] /\ s.next[u] = s1.next[u]
  BY <1>2, <1>11, <1>13, <1>14
<1>16. Goes(s, t, "user")
  BY <1>1, <1>3, <1>8, <1>11, <1>14, <1>15, OneProcessor DEF Goes, Inv, Control
<1>17. Ends(s1, s, t, "user")
  BY <1>12, <1>13, <1>14, <1>15, <1>16 DEF Ends, MayEnter
<1>18. Starts(k, t)
  BY <1>2 DEF Starts
<1>19. Leaves(s, t, "user") /\ Woke(s, t, woken)
  BY <1>2, <1>10, <1>17, <1>18, WakesLeaves
<1>20. t = on[0]
  BY DEF t
<1>21. CodeLeft(t, s, "user", woken)
  BY <1>2, <1>7, <1>9, <1>19 DEF CodeLeft
<1> QED BY <1>2, <1>20, <1>21 DEF CodeRan

LEMMA HandlerEndStep ==
  ASSUME NumCpus = 1, Inv, HandlerEnd(0) PROVE CodeRan(on[0])
<1> DEFINE t == on[0]
<1>1. /\ Runs(t) /\ InOrder(k) /\ t = Irq /\ 0 \in handling
      /\ k.list \in Seq(UserThreads) /\ NoRepeat(k.list) /\ k.state \in [Threads -> States]
      /\ k.next \in [Threads -> States] /\ k.preempt \in [Threads -> States]
      /\ k.active \ {0} \in SUBSET Cpus /\ k.notified \in SUBSET Cpus
  BY RunningRuns DEF HandlerEnd, Irq
<1>2. /\ t \in Threads /\ k.state[t] \in Executing /\ t \notin busy /\ k.cpuTask[0] # Idle
      /\ t \notin UserThreads /\ t \notin On(k.list)
  BY <1>1, OneProcessor DEF Runs
<1>3. k.state[t] = User
  BY <1>1, <1>2, StateValues DEF Inv, Interruption
<1>4. PICK m : m = [k EXCEPT !.active = @ \ {0}]
  OBVIOUS
<1>5. PICK a : a = Go(m, t, User, SuperUser)
  OBVIOUS
<1>6. PICK s : s = Go(a, t, SuperUser, Blocked)
  OBVIOUS
<1>7. Segment(0, s) /\ sleepers' = sleepers /\ handling' = handling \ {0}
  BY <1>4, <1>5, <1>6 DEF HandlerEnd
<1>8. MovesTo(t, "user")
  BY <1>2, <1>7 DEF HandlerEnd, MovesTo, Inv, Control
<1> HIDE DEF t
<1>9. m = Edited(k, k.next, k.preempt, k.active \ {0}, k.notified, k.list)
  <2>1. k \in KernelStates
    BY <1>1 DEF InOrder
  <2> QED BY ONLY <1>4, <2>1 DEF KernelStates, Edited
<1>10. Edits(k, m, k.next, k.preempt, k.list)
  BY <1>1, <1>9, FieldsEdited
<1>11. /\ InOrder(m) /\ m.state = k.state /\ m.next = k.next /\ m.list = k.list
       /\ m.preempt = k.preempt /\ m.running = k.running /\ m.current = k.current
       /\ m.cpuTask = k.cpuTask /\ m.fatal = k.fatal /\ m.missed = k.missed
  BY <1>10 DEF Edits
<1>12. /\ {User, SuperUser, Blocked} \subseteq States /\ <<User, SuperUser>> \in Legal
       /\ <<SuperUser, Blocked>> \in Legal /\ Blocked # Ready /\ Blocked # Zombie
       /\ SuperUser # Zombie
  BY StateValues DEF Legal, States
<1>13. Enters(m, a, t, SuperUser)
  <2>1. Target(m, t, User, SuperUser) = SuperUser /\ MayEnter(m, t, SuperUser)
    BY <1>3, <1>11, <1>12 DEF Target, MayEnter
  <2> QED BY <1>2, <1>5, <1>11, <1>12, <2>1, GoEnters
<1>14. /\ InOrder(a) /\ a.state = [k.state EXCEPT ![t] = SuperUser]
       /\ a.next = [k.next EXCEPT ![t] = SuperUser] /\ a.list = k.list
       /\ a.preempt = k.preempt /\ a.running = k.running /\ a.current = k.current
       /\ a.cpuTask = k.cpuTask /\ a.fatal = k.fatal /\ a.missed = k.missed
  BY <1>11, <1>12, <1>13 DEF Enters
<1>15. a.state[t] = SuperUser
  BY <1>1, <1>2, <1>14
<1>16. Enters(a, s, t, Blocked)
  <2>1. Target(a, t, SuperUser, Blocked) = Blocked /\ MayEnter(a, t, Blocked)
    BY <1>12, <1>15 DEF Target, MayEnter
  <2> QED BY <1>2, <1>6, <1>12, <1>14, <2>1, GoEnters
<1>17. /\ InOrder(s) /\ s.state = [a.state EXCEPT ![t] = Blocked]
       /\ s.next = [a.next EXCEPT ![t] = Blocked] /\ s.list = k.list
       /\ s.preempt = k.preempt /\ s.running = k.running /\ s.current = k.current
       /\ s.cpuTask = k.cpuTask /\ s.fatal = k.fatal /\ s.missed = k.missed
  BY <1>12, <1>14, <1>16 DEF Enters
<1>18. /\ s.state[t] = Blocked /\ s.next[t] = Blocked
       /\ \A u \in Threads \ {t} : s.state[u] = k.state[u] /\ s.next[u] = k.next[u]
  BY <1>1, <1>2, <1>14, <1>17
<1>19. Goes(s, t, "user")
  BY <1>1, <1>7, <1>18 DEF Goes, Inv, Control
<1>20. Ends(k, s, t, "user") /\ Starts(k, t)
  BY <1>2, <1>12, <1>17, <1>18, <1>19 DEF Ends, Starts, MayEnter
<1>21. Leaves(s, t, "user") /\ Woke(s, t, {})
  <2>1. Wakes(k, k, {}) /\ {} \subseteq UserThreads
    BY <1>1, WakesNobody
  <2> QED BY <1>2, <1>20, <2>1, WakesLeaves
<1>22. t = on[0]
  BY DEF t
<1>23. CodeLeft(t, s, "user", {})
  BY <1>2, <1>7, <1>8, <1>21 DEF CodeLeft
<1> QED BY <1>2, <1>22, <1>23 DEF CodeRan

\* Steps that block nobody, wake nobody, and end no wait.
Peaceful ==
  /\ k'.fatal = k.fatal /\ k'.missed = k.missed /\ k'.list = k.list /\ k'.preempt = k.preempt
  /\ \A t \in UserThreads : k'.state[t] = Blocked <=> k.state[t] = Blocked
  /\ busy' = busy /\ sleepers' = sleepers
  /\ k.fatal => k'.state = k.state

LEMMA ContinueStep ==
  ASSUME NumCpus = 1, Inv, Continue(0) PROVE Inv' /\ Peaceful
<1>1. /\ k' = k /\ on' = on /\ busy' = busy /\ handling' = handling
      /\ pos' = pos /\ sleepers' = sleepers
      /\ on[0] \in busy /\ turn' = None /\ phase[0] = "run"
      /\ phase' = [phase EXCEPT ![0] = "wait"]
  BY DEF Continue
<1>2. phase' \in [Cpus -> Phases] /\ phase'[0] = "wait"
  BY <1>1, OneProcessor DEF Inv, Control, Phases
<1>3. k.state[Irq] \notin Executing
  BY <1>1, OneProcessor, StateValues DEF Inv, Execution, Control
<1>4. Control'
  BY <1>1, <1>2, OneProcessor DEF Inv, Control
<1>5. Execution' /\ CodeFits' /\ ListFits'
  BY <1>1 DEF Inv, Execution, CodeFits, ListFits, OneExecutes, Settled
<1>6. Interruption'
  BY <1>1, <1>3 DEF Inv, Interruption
<1> QED BY <1>1, <1>4, <1>5, <1>6 DEF Inv, Peaceful

\* s is k with the state to enter taken from m_preempt_state of t.
Elapsed(t, s) ==
  /\ t = on[0] /\ t \in busy /\ t \in Threads /\ k.state[t] \in Executing
  /\ Leaves(s, t, pos[t]) /\ k' = Update(s, t)
  /\ s.state = k.state /\ s.list = k.list /\ s.preempt = k.preempt /\ s.fatal = k.fatal /\ s.missed = k.missed
  /\ s.next[t] = k.preempt[t]
  /\ on' = on /\ busy' = busy \ {t} /\ AfterWait(0) /\ MovesTo(t, pos[t])
  /\ sleepers' = sleepers /\ handling' = handling /\ ~k.fatal

LEMMA ElapseStep ==
  ASSUME NumCpus = 1, Inv, Elapse(0) PROVE \E s : Elapsed(on[0], s)
<1> DEFINE t == on[0]
<1>1. /\ t \in busy /\ t \in UserThreads /\ t \in Threads /\ t # Irq
      /\ k.state[t] \in Executing /\ k.cpuTask[0] # Idle
  BY OneProcessor DEF Elapse, Inv, Control, UserThreads
<1>2. PICK left \in {k.notified, k.notified \ {0}} :
        k' = Complete([k EXCEPT !.notified = left], t)
  BY DEF Elapse
<1>3. /\ on' = on /\ busy' = busy \ {t} /\ AfterWait(0) /\ MovesTo(t, pos[t])
      /\ sleepers' = sleepers /\ handling' = handling /\ ~k.fatal
  BY DEF Elapse, MovesTo, Inv, Control
<1> HIDE DEF t
<1>4. /\ InOrder(k) /\ k \in KernelStates /\ k.list \in Seq(UserThreads) /\ NoRepeat(k.list)
      /\ k.state \in [Threads -> States] /\ k.next \in [Threads -> States]
      /\ k.preempt \in [Threads -> States]
      /\ k.active \in SUBSET Cpus /\ left \in SUBSET Cpus
  BY DEF Inv, InOrder, KernelStates
<1>5. PICK m : m = [k EXCEPT !.notified = left]
  OBVIOUS
<1>6. PICK s : s = [m EXCEPT !.next[t] = m.preempt[t]]
  OBVIOUS
<1>7. PICK next : next = [k.next EXCEPT ![t] = k.preempt[t]]
  OBVIOUS
<1> next \in [Threads -> States]
  BY <1>1, <1>4, <1>7
<1>8. s = Edited(k, next, k.preempt, k.active, left, k.list)
  BY ONLY <1>4, <1>5, <1>6, <1>7 DEF KernelStates, Edited
<1>9. Edits(k, s, next, k.preempt, k.list) /\ s.active = k.active
  BY <1>4, <1>8, FieldsEdited
<1>10. /\ InOrder(s) /\ s.state = k.state /\ s.running = k.running /\ s.current = k.current
       /\ s.cpuTask = k.cpuTask /\ s.preempt = k.preempt /\ s.list = k.list /\ s.next = next
       /\ s.fatal = k.fatal /\ s.missed = k.missed
  BY <1>9 DEF Edits
<1>11. s.next[t] = k.preempt[t] /\ \A u \in Threads \ {t} : s.next[u] = k.next[u]
  BY <1>1, <1>4, <1>7, <1>10
<1>12. Fits(pos[t], TRUE, k.preempt[t], k.state[t])
  BY <1>1 DEF Inv, CodeFits
<1>13. /\ k.preempt[t] # Ready /\ Fits(pos[t], FALSE, k.preempt[t], k.preempt[t])
       /\ k.preempt[t] = k.state[t] \/ <<k.state[t], k.preempt[t]>> \in Legal
  BY <1>1, <1>12, StateValues DEF Fits, Legal
<1>14. \A u \in On(s.list) \ {t} : u \in On(k.list) /\ s.state[u] = k.state[u]
  BY <1>10
<1>15. t \in On(s.list) => pos[t] = "kernel" /\ s.next[t] = Blocked
  BY <1>1, <1>10, <1>11 DEF Inv, ListFits
<1>16. Leaves(s, t, pos[t])
  <2>1. Goes(s, t, pos[t])
    BY <1>1, <1>3, <1>9, <1>11, <1>13 DEF Goes, Inv, Control
  <2> QED BY <1>1, <1>9, <1>10, <1>11, <1>13, <1>14, <1>15, <2>1 DEF Leaves, MayEnter
<1>17. k' = Update(s, t) /\ t = on[0]
  BY <1>2, <1>5, <1>6 DEF Complete, t
<1> QED BY <1>1, <1>3, <1>10, <1>11, <1>16, <1>17 DEF Elapsed

LEMMA ElapsedKeeps ==
  ASSUME NumCpus = 1, Inv, NEW t, NEW s, Elapsed(t, s) PROVE Inv'
BY CompletesKeeps DEF Elapsed

\* The processor is told, or not, that there is an interrupt.
LEMMA NotifiedKeeps ==
  ASSUME NumCpus = 1, Inv, NEW left \in SUBSET Cpus, k' = [k EXCEPT !.notified = left],
         phase' = [phase EXCEPT ![0] = "sched"], phase[0] # "run", turn' = 0,
         UNCHANGED <<on, busy, handling, pos, sleepers>>
  PROVE  Inv' /\ Peaceful
<1>1. /\ InOrder(k) /\ k \in KernelStates /\ k.list \in Seq(UserThreads) /\ NoRepeat(k.list)
      /\ k.next \in [Threads -> States] /\ k.preempt \in [Threads -> States]
      /\ k.active \in SUBSET Cpus
  BY DEF Inv, InOrder, KernelStates
<1>2. PICK r : r = k'
  OBVIOUS
<1>3. r = Edited(k, k.next, k.preempt, k.active, left, k.list)
  BY ONLY <1>1, <1>2, k' = [k EXCEPT !.notified = left] DEF KernelStates, Edited
<1>4. Edits(k, r, k.next, k.preempt, k.list) /\ r.active = k.active
  BY <1>1, <1>3, FieldsEdited
<1>5. /\ InOrder(k') /\ k'.state = k.state /\ k'.running = k.running /\ k'.current = k.current
      /\ k'.cpuTask = k.cpuTask /\ k'.next = k.next /\ k'.preempt = k.preempt
      /\ k'.list = k.list /\ k'.active = k.active /\ k'.fatal = k.fatal /\ k'.missed = k.missed
  BY <1>2, <1>4 DEF Edits
<1>6. phase' \in [Cpus -> Phases] /\ phase'[0] = "sched"
  BY OneProcessor DEF Inv, Control, Phases
<1>7. Control'
  BY <1>6, OneProcessor DEF Inv, Control
<1>8. Execution' /\ CodeFits' /\ ListFits'
  BY <1>5 DEF Inv, Execution, CodeFits, ListFits, OneExecutes, Settled, Previous
<1>9. Interruption'
  BY <1>5 DEF Inv, Interruption
<1> QED BY <1>5, <1>7, <1>8, <1>9 DEF Inv, Peaceful

LEMMA InterruptedStep ==
  ASSUME NumCpus = 1, Inv, Interrupted(0) PROVE Inv' /\ Peaceful
<1>1. PICK left : left = k.notified \ {0}
  OBVIOUS
<1>2. left \in SUBSET Cpus
  BY <1>1 DEF Inv, InOrder, KernelStates
<1>3. k' = [k EXCEPT !.notified = left] /\ phase' = [phase EXCEPT ![0] = "sched"]
      /\ phase[0] # "run" /\ turn' = 0 /\ UNCHANGED <<on, busy, handling, pos, sleepers>>
  BY <1>1 DEF Interrupted
<1> QED BY <1>2, <1>3, NotifiedKeeps

LEMMA BusDoneStep ==
  ASSUME NumCpus = 1, Inv, BusDone(0) PROVE Inv' /\ Peaceful
<1>1. PICK left \in {k.notified, k.notified \ {0}} : k' = [k EXCEPT !.notified = left]
  BY DEF BusDone
<1>2. left \in SUBSET Cpus
  BY DEF Inv, InOrder, KernelStates
<1>3. phase' = [phase EXCEPT ![0] = "sched"] /\ phase[0] # "run" /\ turn' = 0
      /\ UNCHANGED <<on, busy, handling, pos, sleepers>>
  BY DEF BusDone
<1> QED BY <1>1, <1>2, <1>3, NotifiedKeeps

\* send_irq: the interruption thread is READY, unless it is masked or has not come
\* to rest yet, and nobody else moves.
LEMMA SendIrqRaises ==
  ASSUME NumCpus = 1, Inv, NEW r, r = SendIrq(k, 0)
  PROVE  /\ InOrder(r) /\ r.preempt = k.preempt /\ r.list = k.list /\ r.running = k.running
         /\ r.current = k.current /\ r.cpuTask = k.cpuTask /\ r.fatal = k.fatal /\ r.missed = k.missed
         /\ r.active = k.active \cup {0} /\ r.next[Irq] = r.state[Irq]
         /\ \/ r.state[Irq] = k.state[Irq]
            \/ k.state[Irq] = Blocked /\ r.state[Irq] = Ready
         /\ \A u \in Threads \ {Irq} : r.state[u] = k.state[u] /\ r.next[u] = k.next[u]
<1>1. /\ InOrder(k) /\ k \in KernelStates
      /\ k.state \in [Threads -> States] /\ k.next \in [Threads -> States]
      /\ k.preempt \in [Threads -> States] /\ k.list \in Seq(UserThreads) /\ NoRepeat(k.list)
      /\ k.active \cup {0} \in SUBSET Cpus /\ k.notified \in SUBSET Cpus
  BY OneProcessor DEF Inv, InOrder, KernelStates
<1>2. Irq \in Threads /\ k.next[Irq] = k.state[Irq]
  BY OneProcessor DEF Inv, Interruption
<1>3. PICK q : q = [k EXCEPT !.active = @ \cup {0}]
  OBVIOUS
<1>4. q = Edited(k, k.next, k.preempt, k.active \cup {0}, k.notified, k.list)
  BY ONLY <1>1, <1>3 DEF KernelStates, Edited
<1>5. Edits(k, q, k.next, k.preempt, k.list) /\ q.active = k.active \cup {0}
  BY <1>1, <1>4, FieldsEdited
<1>6. /\ InOrder(q) /\ q \in KernelStates /\ q.state = k.state /\ q.next = k.next
      /\ q.preempt = k.preempt /\ q.list = k.list /\ q.running = k.running
      /\ q.current = k.current /\ q.cpuTask = k.cpuTask /\ q.active = k.active \cup {0}
      /\ q.fatal = k.fatal /\ q.missed = k.missed
  BY <1>5 DEF Edits, InOrder
<1>7. CASE 0 \in handling
  <2>1. r = q
    BY <1>3, <1>7 DEF SendIrq
  <2> QED BY <1>2, <1>6, <2>1
<1>8. CASE 0 \notin handling
  <2>1. PICK m : m = SetNext(q, Irq, Blocked, Ready)
    OBVIOUS
  <2>2. PICK e : e = Enter(m, Irq)
    OBVIOUS
  <2> DEFINE x == IF k.state[Irq] = Blocked THEN Ready ELSE k.state[Irq]
  <2>3. Blocked \in States /\ Ready \in States /\ <<Blocked, Ready>> \in Legal
    BY StateValues DEF States, Legal
  <2>4. /\ InOrder(m) /\ m = [q EXCEPT !.next = m.next]
        /\ m.next = [q.next EXCEPT ![Irq] =
                       IF q.state[Irq] = Blocked /\ <<Blocked, Ready>> \in Legal THEN Ready ELSE @]
    BY <1>2, <1>6, <2>1, <2>3, SetNextSets
  <2>5. m.next[Irq] = x /\ m.next = [k.next EXCEPT ![Irq] = x]
    BY <1>1, <1>2, <1>6, <2>3, <2>4
  <2>6. /\ m.state = k.state /\ m.preempt = k.preempt /\ m.list = k.list /\ m.fatal = k.fatal /\ m.missed = k.missed
        /\ m.active = k.active \cup {0}
        /\ m.running = k.running /\ m.current = k.current /\ m.cpuTask = k.cpuTask
    <3>1. q \in KernelStates /\ m = [q EXCEPT !.next = m.next]
      BY <1>6, <2>4
    <3>2. /\ m.state = q.state /\ m.preempt = q.preempt /\ m.list = q.list
          /\ m.fatal = q.fatal /\ m.missed = q.missed /\ m.active = q.active
          /\ m.running = q.running /\ m.current = q.current /\ m.cpuTask = q.cpuTask
      BY ONLY <3>1 DEF KernelStates
    <3> QED BY <1>6, <3>2
  <2>7. MayEnter(m, Irq, x)
    BY <2>3, <2>6 DEF MayEnter
  <2>8. \/ x = k.state[Irq]
        \/ x = Ready /\ k.state[Irq] = Blocked
    OBVIOUS
  <2>9. x # Zombie \/ x = m.state[Irq]
    BY <2>6, StateValues
  <2> HIDE DEF x
  <2>10. Enters(m, e, Irq, x)
    BY <1>2, <2>2, <2>4, <2>5, <2>7, EnterKeeps
  <2>11. /\ InOrder(e) /\ e.state = [k.state EXCEPT ![Irq] = x]
         /\ e.next = [m.next EXCEPT ![Irq] = x]
         /\ e.preempt = k.preempt /\ e.list = k.list /\ e.running = k.running
         /\ e.current = k.current /\ e.cpuTask = k.cpuTask
         /\ e.active = k.active \cup {0} /\ e.fatal = k.fatal /\ e.missed = k.missed
    BY <2>6, <2>9, <2>10 DEF Enters
  <2>12. /\ e \in KernelStates /\ e.next \in [Threads -> States]
         /\ e.preempt \in [Threads -> States] /\ e.list \in Seq(UserThreads) /\ NoRepeat(e.list)
         /\ e.active \in SUBSET Cpus /\ e.notified \cup {0} \in SUBSET Cpus
    BY <2>11, OneProcessor DEF InOrder, KernelStates
  <2>13. r = Edited(e, e.next, e.preempt, e.active, e.notified \cup {0}, e.list)
    <3>1. r = [e EXCEPT !.notified = @ \cup {0}]
      BY <1>3, <1>8, <2>1, <2>2 DEF SendIrq, Irq
    <3> QED BY ONLY <2>12, <3>1 DEF KernelStates, Edited
  <2>14. Edits(e, r, e.next, e.preempt, e.list) /\ r.active = e.active
    BY <2>11, <2>12, <2>13, FieldsEdited
  <2>15. /\ InOrder(r) /\ r.state = [k.state EXCEPT ![Irq] = x] /\ r.next = e.next
         /\ r.preempt = k.preempt /\ r.list = k.list /\ r.running = k.running
         /\ r.current = k.current /\ r.cpuTask = k.cpuTask /\ r.active = k.active \cup {0}
         /\ r.fatal = k.fatal /\ r.missed = k.missed
    BY <2>11, <2>14 DEF Edits
  <2>16. /\ r.state[Irq] = x /\ r.next[Irq] = x
         /\ \A u \in Threads \ {Irq} : r.state[u] = k.state[u] /\ r.next[u] = k.next[u]
    BY <1>1, <1>2, <2>5, <2>11, <2>15
  <2> QED BY <2>8, <2>15, <2>16
<1> QED BY <1>7, <1>8

LEMMA HardIrqStep ==
  ASSUME NumCpus = 1, Inv, HardIrq(0) PROVE Inv' /\ Peaceful
<1>1. UNCHANGED <<phase, on, turn, busy, handling, pos, sleepers>> /\ ~k.fatal
  BY DEF HardIrq
<1>2. k.list \in Seq(UserThreads)
  BY DEF Inv, InOrder, KernelStates
<1>3. Irq \in Threads /\ Irq \notin UserThreads
  BY OneProcessor
<1>4. PICK r : r = k'
  OBVIOUS
<1>5. r = SendIrq(k, 0)
  BY <1>4 DEF HardIrq
<1>6. /\ InOrder(k') /\ k'.preempt = k.preempt /\ k'.list = k.list /\ k'.running = k.running
       /\ k'.current = k.current /\ k'.cpuTask = k.cpuTask /\ k'.active = k.active \cup {0}
       /\ k'.fatal = k.fatal /\ k'.missed = k.missed
  BY <1>4, <1>5, SendIrqRaises
<1>7. /\ k'.next[Irq] = k'.state[Irq]
       /\ \/ k'.state[Irq] = k.state[Irq]
          \/ k.state[Irq] = Blocked /\ k'.state[Irq] = Ready
       /\ \A u \in Threads \ {Irq} : k'.state[u] = k.state[u] /\ k'.next[u] = k.next[u]
  BY <1>4, <1>5, SendIrqRaises
<1>8. \A u \in Threads : k'.state[u] \in Executing <=> k.state[u] \in Executing
  BY <1>3, <1>7, StateValues
<1>9. Control'
  BY <1>1, <1>6, <1>8 DEF Inv, Control
<1>10. Execution'
  <2>1. Previous(k') = Previous(k)
    BY <1>6 DEF Previous
  <2>2. Settled(k')
    BY <1>7, <1>8 DEF Inv, Execution, Settled
  <2>3. Previous(k) \in UserThreads => k'.state[Previous(k)] = k.state[Previous(k)]
    BY <1>3, <1>7 DEF UserThreads
  <2> QED BY <1>1, <1>8, <2>1, <2>2, <2>3 DEF Inv, Execution, OneExecutes
<1>11. Interruption'
  BY <1>1, <1>6, <1>7, StateValues DEF Inv, Interruption
<1>12. CodeFits'
  <2>1. \A u \in UserThreads : u \in Threads \ {Irq}
    BY <1>3 DEF UserThreads
  <2> QED BY <1>1, <1>6, <1>7, <2>1 DEF Inv, CodeFits
<1>13. ListFits'
  <2>1. \A u \in On(k.list) : u \in Threads \ {Irq}
    BY <1>2, <1>3, OnInThreads DEF UserThreads
  <2> QED BY <1>1, <1>6, <1>7, <2>1 DEF Inv, ListFits
<1>14. Peaceful
  <2>1. \A u \in UserThreads : u \in Threads \ {Irq}
    BY <1>3 DEF UserThreads
  <2> QED BY <1>1, <1>6, <1>7, <2>1 DEF Peaceful
<1> QED BY <1>6, <1>9, <1>10, <1>11, <1>12, <1>13, <1>14 DEF Inv

LEMMA DispatchStep ==
  ASSUME NumCpus = 1, Inv, Dispatch(0) PROVE Inv' /\ Peaceful
<1>1. /\ k' = Reschedule(k, 0) /\ phase[0] = "sched"
      /\ busy' = busy /\ handling' = handling /\ pos' = pos /\ sleepers' = sleepers
      /\ ~k.fatal
  BY DEF Dispatch, HasTurn
<1>2. /\ InOrder(k) /\ OneExecutes(k) /\ Settled(k)
      /\ k.state \in [Threads -> States] /\ k.list \in Seq(UserThreads)
  BY DEF Inv, Execution, InOrder, KernelStates
<1>3. PreviousReady(k)
  <2>1. Previous(k) \in Threads \cup {None}
    BY DEF Previous, Inv, InOrder, KernelStates
  <2> QED BY <2>1, OneProcessor, StateValues
          DEF PreviousReady, Inv, Execution, Interruption, UserThreads
<1>4. k.state[Irq] \in {Blocked, Ready, Waiting}
  BY <1>1, StateValues DEF Inv, Interruption
<1>5. UsersGoOn(k)
  BY <1>4, OneProcessor, StateValues DEF UsersGoOn, Inv, CodeFits
<1>6. PICK r : r = k'
  OBVIOUS
<1>7. Reschedules(k, r)
  BY <1>1, <1>2, <1>3, <1>5, <1>6, RescheduleKeeps
<1>8. /\ InOrder(k') /\ k'.preempt = k.preempt /\ k'.list = k.list /\ k'.active = k.active
      /\ k'.fatal = k.fatal /\ k'.missed = k.missed
  BY <1>6, <1>7 DEF Reschedules
<1>9. CASE r.current = Idle
  <2>1. /\ k'.state = k.state /\ k'.next = k.next
        /\ \A t \in Threads : k.state[t] \notin Executing
    BY <1>6, <1>7, <1>9, OneProcessor DEF Reschedules
  <2>2. /\ phase' = [phase EXCEPT ![0] = "idle"] /\ on' = [on EXCEPT ![0] = None]
        /\ turn' = None
    BY <1>6, <1>9 DEF Dispatch
  <2>3. phase' \in [Cpus -> Phases] /\ phase'[0] = "idle" /\ on' \in [Cpus -> Threads \cup {None}]
    BY <2>2, OneProcessor DEF Inv, Control, Phases
  <2>4. Control'
    BY <1>1, <2>2, <2>3, OneProcessor DEF Inv, Control
  <2>5. Previous(k') = None
    BY <1>6, <1>9, OneProcessor DEF Previous
  <2>6. Execution'
    BY <2>1, <2>5, OneProcessor DEF Inv, Execution, OneExecutes, Settled, UserThreads
  <2>7. Interruption'
    BY <1>1, <1>4, <1>8, <2>1, StateValues DEF Inv, Interruption
  <2>8. CodeFits' /\ ListFits'
    BY <1>1, <1>8, <2>1 DEF Inv, CodeFits, ListFits
  <2>9. Peaceful
    BY <1>1, <1>8, <2>1 DEF Peaceful
  <2> QED BY <1>8, <2>4, <2>6, <2>7, <2>8, <2>9 DEF Inv
<1>10. CASE r.current # Idle
  <2>1. r.current \in Tasks /\ r.cpuTask[0] = r.current
    BY <1>7, <1>10 DEF Reschedules
  <2>2. PICK th \in Threads :
          /\ r.running[r.current] = th /\ k.state[th] \in Listed \cup Executing
          /\ r.state[th] = Resumed(k, th)
          /\ r.next[th] = IF k.state[th] = SuperUser THEN k.next[th] ELSE Resumed(k, th)
          /\ \A t \in Threads \ {th} : /\ r.state[t] = PausedFrom(k.state[t])
                                       /\ r.next[t] = r.state[t]
    BY <1>7, <1>10 DEF Reschedules
  <2>3. /\ phase' = [phase EXCEPT ![0] = "run"] /\ on' = [on EXCEPT ![0] = th] /\ turn' = 0
    BY <1>6, <1>10, <2>2 DEF Dispatch
  <2>4. /\ phase' \in [Cpus -> Phases] /\ phase'[0] = "run"
        /\ on' \in [Cpus -> Threads \cup {None}] /\ on'[0] = th
    BY <2>3, OneProcessor DEF Inv, Control, Phases
  <2>5. r.state[th] \in Executing
    BY <1>5, <2>2, StateValues DEF Resumed, UsersGoOn
  <2>6. \A t \in Threads \ {th} : r.state[t] \notin Executing
    BY <2>2, StateValues DEF PausedFrom
  <2>7. Previous(r) = th
    BY <2>1, <2>2 DEF Previous
  <2>8. Control'
    BY <1>1, <1>6, <2>1, <2>3, <2>4, <2>5, OneProcessor DEF Inv, Control
  <2>9. Execution'
    <3>1. Settled(r)
      BY <2>2, <2>5 DEF Settled
    <3>2. r.state[Previous(r)] # Ready
      BY <2>5, <2>7, StateValues
    <3>3. OneExecutes(r)
      BY <2>6, <2>7 DEF OneExecutes
    <3> QED BY <1>6, <2>4, <2>6, <3>1, <3>2, <3>3 DEF Execution
  <2>10. Interruption'
    <3>1. CASE Irq = th
      <4>1. k.state[Irq] = IF 0 \in handling THEN Waiting ELSE Ready
        BY <1>4, <2>2, <3>1, StateValues DEF Inv, Interruption
      <4>2. /\ r.state[Irq] = IF 0 \in handling THEN User ELSE SuperUser
            /\ r.next[Irq] = r.state[Irq]
        BY <2>2, <3>1, <4>1, StateValues DEF Resumed
      <4>3. 0 \in k.active
        BY <4>1, StateValues DEF Inv, Interruption
      <4> QED BY <1>1, <1>6, <1>8, <2>4, <4>2, <4>3, StateValues DEF Interruption
    <3>2. CASE Irq # th
      <4>1. r.state[Irq] = k.state[Irq] /\ r.next[Irq] = k.state[Irq]
        BY <1>4, <2>2, <3>2, OneProcessor, StateValues DEF PausedFrom
      <4> QED BY <1>1, <1>4, <1>6, <1>8, <4>1, StateValues DEF Inv, Interruption
    <3> QED BY <3>1, <3>2
  <2>11. CodeFits'
    <3>1. ASSUME NEW u \in UserThreads
          PROVE  /\ Fits(pos[u], u \in busy, k.preempt[u], r.state[u])
                 /\ r.state[u] = User => r.next[u] = User \/ (u \in busy /\ r.next[u] = SuperUser)
      <4>1. /\ Fits(pos[u], u \in busy, k.preempt[u], k.state[u]) /\ u \in Threads
            /\ k.state[u] = User => k.next[u] = User \/ (u \in busy /\ k.next[u] = SuperUser)
        BY DEF Inv, CodeFits, UserThreads
      <4>2. CASE u = th
        <5>1. Fits(pos[u], u \in busy, k.preempt[u], r.state[u])
          BY <2>2, <4>1, <4>2, StateValues DEF Resumed, Fits
        <5>2. r.state[u] = User => r.next[u] = User
          BY <2>2, <4>1, <4>2, StateValues DEF Resumed
        <5> QED BY <5>1, <5>2
      <4>3. CASE u # th
        <5>1. Fits(pos[u], u \in busy, k.preempt[u], r.state[u])
          BY <2>2, <4>1, <4>3, StateValues DEF PausedFrom, Fits
        <5>2. r.state[u] # User
          BY <2>6, <4>1, <4>3, StateValues
        <5> QED BY <5>1, <5>2
      <4> QED BY <4>2, <4>3
    <3> QED BY <1>1, <1>6, <1>8, <3>1 DEF CodeFits
  <2>12. ListFits'
    <3>1. ASSUME NEW u \in On(k.list), k.state[u] = Blocked PROVE r.state[u] = Blocked
      <4>1. u \in Threads /\ u # th
        BY <1>2, <2>2, <3>1, OnInThreads, StateValues DEF UserThreads
      <4> QED BY <2>2, <3>1, <4>1, StateValues DEF PausedFrom
    <3> QED BY <1>1, <1>6, <1>8, <3>1 DEF Inv, ListFits
  <2>13. Peaceful
    <3>1. ASSUME NEW u \in UserThreads PROVE r.state[u] = Blocked <=> k.state[u] = Blocked
      <4>1. CASE u = th
        BY <2>2, <2>5, <4>1, StateValues
      <4>2. CASE u # th
        BY <2>2, <4>2, StateValues DEF PausedFrom, UserThreads
      <4> QED BY <4>1, <4>2
    <3> QED BY <1>1, <1>6, <1>8, <3>1 DEF Peaceful
  <2> QED BY <1>8, <2>8, <2>9, <2>10, <2>11, <2>12, <2>13 DEF Inv
<1> QED BY <1>9, <1>10

\* An order of a finite set is a list of it without repetitions.
LEMMA OrdersAreLists ==
  ASSUME NEW S, IsFiniteSet(S), NEW list \in Orders(S)
  PROVE  list \in Seq(S) /\ On(list) = S /\ NoRepeat(list)
<1> DEFINE n == Cardinality(S)
<1>1. n \in Nat /\ list \in [1..n -> S] /\ On(list) = S
  BY FS_CardinalityType DEF Orders
<1> HIDE DEF n
<1>2. list \in Seq(S) /\ Len(list) = n
  BY <1>1
<1>3. IsFiniteSet(1..n) /\ Cardinality(1..n) = n
  BY <1>1, FS_Interval
<1>4. list \in Surjection(1..n, S)
  BY <1>1, <1>2 DEF Surjection, On
<1>5. list \in Injection(1..n, S)
  BY <1>3, <1>4, FS_SurjSameCardinalityImpliesInj DEF n
<1>6. NoRepeat(list)
  BY <1>2, <1>5 DEF Injection, IsInjective, NoRepeat
<1> QED BY <1>1, <1>2, <1>6

\* At the end of the boot everything is in order.
LEMMA InitInv ==
  ASSUME NumCpus = 1, Init PROVE Inv
<1>1. PICK order \in Orders({TaskOf[t] : t \in UserThreads}),
           threads \in [Tasks -> UNION {Orders(ThreadsOf(task)) : task \in Tasks}],
           last \in Cpus :
        /\ \A task \in Tasks : On(threads[task]) = ThreadsOf(task)
        /\ LET start == [t \in Threads |-> IF t \in IrqThreads THEN Blocked ELSE Waiting]
               isIrq == [task \in Tasks |-> \E c \in Cpus : task = IrqTask(c)]
           IN  k = [state |-> start, next |-> start, preempt |-> start,
                    kmode |-> [t \in Threads |-> t \in IrqThreads],
                    ready |-> order,
                    threadReady |-> [task \in Tasks |-> IF isIrq[task] THEN <<>> ELSE threads[task]],
                    taskState |-> [task \in Tasks |-> IF isIrq[task] THEN Blocked ELSE Waiting],
                    taskCpu |-> [task \in Tasks |-> None],
                    running |-> [task \in Tasks |-> IF isIrq[task] THEN threads[task][1] ELSE None],
                    current |-> IrqTask(last),
                    cpuTask |-> [c \in Cpus |-> IrqTask(c)],
                    active |-> {}, notified |-> {}, list |-> <<>>, missed |-> {}, fatal |-> FALSE]
  BY DEF Init
<1> DEFINE irqTask == TaskOf[Irq]
<1>2. /\ Cpus = {0} /\ last = 0 /\ irqTask \in Tasks /\ TaskOf \in [Threads -> Tasks]
      /\ ThreadsOf(irqTask) = {Irq} /\ IrqTask(0) = irqTask
      /\ \A task \in Tasks : (\E c \in Cpus : task = IrqTask(c)) <=> task = irqTask
  BY OneProcessor, IrqAssumption, TasksAssumption DEF IrqTask, Irq
<1> HIDE DEF irqTask
<1>3. ASSUME NEW task \in Tasks
      PROVE  /\ threads[task] \in Seq(ThreadsOf(task)) /\ NoRepeat(threads[task])
             /\ On(threads[task]) = ThreadsOf(task)
  <2>1. On(threads[task]) = ThreadsOf(task)
    BY <1>1
  <2>2. PICK other \in Tasks : threads[task] \in Orders(ThreadsOf(other))
    OBVIOUS
  <2>3. IsFiniteSet(ThreadsOf(other))
    BY FS_Subset, TasksAssumption DEF ThreadsOf
  <2>4. /\ threads[task] \in Seq(ThreadsOf(other)) /\ NoRepeat(threads[task])
        /\ On(threads[task]) = ThreadsOf(other)
    BY <2>2, <2>3, OrdersAreLists
  <2> QED BY <2>1, <2>4
<1> DEFINE users == {TaskOf[t] : t \in UserThreads}
<1>4. users = Tasks \ {irqTask}
  <2>1. ASSUME NEW t \in UserThreads PROVE TaskOf[t] \in Tasks /\ TaskOf[t] # irqTask
    <3>1. t \in Threads /\ t # Irq
      BY OneProcessor DEF UserThreads
    <3> QED BY <1>2, <3>1 DEF ThreadsOf
  <2>2. ASSUME NEW task \in Tasks, task # irqTask PROVE \E t \in UserThreads : TaskOf[t] = task
    <3>1. PICK t \in Threads : TaskOf[t] = task
      BY TasksAssumption DEF ThreadsOf
    <3>2. t # Irq
      BY <1>2, <2>2, <3>1 DEF irqTask
    <3> QED BY <3>1, <3>2, OneProcessor
  <2> QED BY <2>1, <2>2
<1>5. order \in Seq(Tasks) /\ On(order) = Tasks \ {irqTask} /\ NoRepeat(order)
  <2>1. IsFiniteSet(users)
    BY <1>4, FS_Subset, TasksAssumption
  <2>2. order \in Seq(users) /\ On(order) = users /\ NoRepeat(order)
    BY <2>1, OrdersAreLists
  <2> QED BY <1>4, <2>2
<1> HIDE DEF users
<1>6. threads[irqTask] \in Seq({Irq}) /\ threads[irqTask][1] = Irq
  <2>1. threads[irqTask] \in Seq({Irq}) /\ On(threads[irqTask]) = {Irq}
    BY <1>2, <1>3
  <2>2. PICK i \in 1..Len(threads[irqTask]) : threads[irqTask][i] = Irq
    BY <2>1 DEF On
  <2> QED BY <2>1, <2>2
<1>7. /\ k.state = [t \in Threads |-> IF t = Irq THEN Blocked ELSE Waiting]
      /\ k.next = k.state /\ k.preempt = k.state
      /\ k.kmode = [t \in Threads |-> t = Irq] /\ k.ready = order
      /\ k.threadReady = [task \in Tasks |-> IF task = irqTask THEN <<>> ELSE threads[task]]
      /\ k.taskState = [task \in Tasks |-> IF task = irqTask THEN Blocked ELSE Waiting]
      /\ k.running = [task \in Tasks |-> IF task = irqTask THEN Irq ELSE None]
      /\ k.current = irqTask /\ k.cpuTask = [c \in Cpus |-> irqTask]
      /\ k.active = {} /\ k.notified = {} /\ k.list = <<>> /\ k.missed = {} /\ k.fatal = FALSE
      /\ k.taskCpu = [task \in Tasks |-> None]
      /\ DOMAIN k = {"state", "next", "preempt", "kmode", "ready", "threadReady", "taskState",
                     "taskCpu", "running", "current", "cpuTask", "active", "notified", "list",
                     "missed", "fatal"}
  BY <1>1, <1>2, <1>6, OneProcessor
<1>8. \A task \in Tasks : Seq(ThreadsOf(task)) \subseteq Seq(Threads)
  BY DEF ThreadsOf
<1>9. /\ k.state \in [Threads -> States] /\ k.next \in [Threads -> States]
      /\ k.preempt \in [Threads -> States] /\ k.kmode \in [Threads -> BOOLEAN]
  BY <1>7, StateValues DEF States
<1>10. k.threadReady \in [Tasks -> Seq(Threads)]
  <2>1. ASSUME NEW task \in Tasks PROVE threads[task] \in Seq(Threads)
    BY <1>3, <1>8
  <2> QED BY <1>7, <2>1
<1>11. /\ k.ready \in Seq(Tasks)
       /\ k.taskState \in [Tasks -> States] /\ k.taskCpu \in [Tasks -> Cpus \cup {None}]
       /\ k.running \in [Tasks -> Threads \cup {None}]
       /\ k.current \in Tasks \cup {Idle, None}
       /\ k.cpuTask \in [Cpus -> Tasks \cup {Idle, None}]
       /\ k.active \in SUBSET Cpus /\ k.notified \in SUBSET Cpus
       /\ k.missed \in SUBSET UserThreads /\ k.fatal \in BOOLEAN
  <2>1. k.ready \in Seq(Tasks)
    BY <1>5, <1>7
  <2>2. k.taskState \in [Tasks -> States] /\ k.taskCpu \in [Tasks -> Cpus \cup {None}]
    BY <1>7, StateValues DEF States
  <2>3. /\ k.running \in [Tasks -> Threads \cup {None}] /\ k.current \in Tasks \cup {Idle, None}
        /\ k.cpuTask \in [Cpus -> Tasks \cup {Idle, None}]
    BY <1>2, <1>7, OneProcessor
  <2>4. /\ k.active \in SUBSET Cpus /\ k.notified \in SUBSET Cpus
        /\ k.missed \in SUBSET UserThreads /\ k.fatal \in BOOLEAN
    BY <1>7
  <2> QED BY <2>1, <2>2, <2>3, <2>4
<1>12. k.list \in Seq(UserThreads)
  BY <1>7
<1>13. k \in KernelStates
  <2> DEFINE r == [state |-> k.state, next |-> k.next, preempt |-> k.preempt, kmode |-> k.kmode,
                   ready |-> k.ready, threadReady |-> k.threadReady, taskState |-> k.taskState,
                   taskCpu |-> k.taskCpu, running |-> k.running, current |-> k.current,
                   cpuTask |-> k.cpuTask, active |-> k.active, notified |-> k.notified,
                   list |-> k.list, missed |-> k.missed, fatal |-> k.fatal]
  <2>1. k = r
    BY ONLY <1>1
  <2>2. r \in KernelStates
    BY ONLY <1>9, <1>10, <1>11, <1>12 DEF KernelStates
  <2> QED BY <2>1, <2>2
<1>14. ASSUME NEW t \in Threads PROVE ThreadInOrder(k, t)
  <2>1. CASE t = Irq
    <3>1. k.state[t] = Blocked /\ k.kmode[t]
      BY <1>7, <2>1
    <3> QED BY <3>1, StateValues DEF ThreadInOrder
  <2>2. CASE t # Irq
    <3>1. k.state[t] = Waiting /\ ~k.kmode[t]
      BY <1>7, <2>2
    <3> QED BY <3>1, StateValues DEF ThreadInOrder
  <2> QED BY <2>1, <2>2
<1>15. ASSUME NEW task \in Tasks PROVE TaskInOrder(k, task)
  <2>1. CASE task = irqTask
    <3>1. /\ k.threadReady[task] = <<>> /\ k.taskState[task] = Blocked /\ k.state[Irq] = Blocked
          /\ k.running[task] = Irq /\ ThreadsOf(task) = {Irq} /\ task \notin On(k.ready)
      BY <1>2, <1>5, <1>7, <2>1, OneProcessor
    <3> QED BY <3>1, EmptyList, StateValues DEF TaskInOrder
  <2>2. CASE task # irqTask
    <3>1. \A t \in ThreadsOf(task) : t \in Threads /\ t # Irq
      BY <2>2 DEF ThreadsOf, irqTask
    <3>2. \A t \in ThreadsOf(task) : k.state[t] = Waiting
      BY <1>7, <3>1
    <3>3. /\ k.threadReady[task] = threads[task] /\ k.taskState[task] = Waiting
          /\ k.running[task] = None /\ task \in On(k.ready)
      BY <1>5, <1>7, <2>2
    <3>4. ThreadsOf(task) # {}
      BY TasksAssumption
    <3>5. /\ NoRepeat(k.threadReady[task])
          /\ On(k.threadReady[task]) = {t \in ThreadsOf(task) : k.state[t] \in Listed}
      BY <1>3, <3>2, <3>3, StateValues
    <3>6. /\ \E t \in ThreadsOf(task) : k.taskState[task] = k.state[t]
          /\ \A t \in ThreadsOf(task) : k.state[t] <= k.taskState[task]
          /\ k.taskState[task] \in Listed
      BY <3>2, <3>3, <3>4, StateValues
    <3> QED BY <3>3, <3>5, <3>6 DEF TaskInOrder
  <2> QED BY <2>1, <2>2
<1>16. InOrder(k)
  BY <1>5, <1>7, <1>13, <1>14, <1>15, EmptyList DEF InOrder
<1>17. /\ phase = [c \in Cpus |-> "sched"] /\ on = [c \in Cpus |-> IrqThread[c]]
       /\ turn = None /\ busy = {} /\ handling = {}
       /\ pos = [t \in UserThreads |-> "user"] /\ sleepers = {}
  BY DEF Init
<1>18. Control
  BY <1>2, <1>17, IrqAssumption DEF Control, Phases
<1>19. \A t \in Threads : k.state[t] \notin Executing
  BY <1>7, StateValues
<1>20. Execution
  <2>1. Previous(k) = Irq
    BY <1>2, <1>7 DEF Previous
  <2> QED BY <1>7, <1>19, <2>1, OneProcessor DEF Execution, OneExecutes, Settled
<1>21. Interruption
  BY <1>7, <1>17, OneProcessor, StateValues DEF Interruption
<1>22. CodeFits
  <2>1. ASSUME NEW t \in UserThreads PROVE k.state[t] = Waiting /\ pos[t] = "user" /\ t \notin busy
    BY <1>7, <1>17, OneProcessor DEF UserThreads
  <2> QED BY <2>1, StateValues DEF CodeFits, Fits
<1>23. ListFits
  BY <1>7, EmptyList DEF ListFits
<1> QED BY <1>16, <1>18, <1>20, <1>21, <1>22, <1>23 DEF Inv

\* Every step of the processor and of the hardware keeps the invariant.
LEMMA StepInv ==
  ASSUME NumCpus = 1, Inv, [Next]_vars PROVE Inv'
<1>1. CASE Next
  <2>1. Loop(0) \/ Elapse(0) \/ HardIrq(0)
    BY <1>1, OneProcessor DEF Next
  <2>2. CASE \/ EnterKernel(0) \/ Leave(0) \/ Block(0) \/ Sleep(0) \/ Exit(0)
             \/ Handler(0) \/ HandlerEnd(0)
    <3>1. CodeRan(on[0])
      BY <2>2, EnterKernelStep, LeaveStep, BlockStep, SleepStep, ExitStep, HandlerStep,
         HandlerEndStep
    <3> QED BY <3>1, SegmentKeeps
  <2>3. CASE Elapse(0)
    BY <2>3, ElapseStep, ElapsedKeeps
  <2> QED BY <2>1, <2>2, <2>3, DispatchStep, ContinueStep, InterruptedStep, BusDoneStep,
             HardIrqStep
          DEF Loop, Run
<1>2. CASE UNCHANGED vars
  BY <1>2 DEF vars, Inv, Control, Execution, Interruption, CodeFits, ListFits, Previous,
              OneExecutes, Settled
<1> QED BY <1>1, <1>2

LEMMA Invariance == ASSUME NumCpus = 1 PROVE SafeSpec => []Inv
<1>1. Init => Inv
  BY InitInv
<1>2. Inv /\ [Next]_vars => Inv'
  BY StepInv
<1> QED BY <1>1, <1>2, PTL DEF SafeSpec

----------------------------------------------------------------------------
\* Who can be woken, whether or not kernel code takes time.

\* Whoever is BLOCKED, or will be when his time is over, is on a list, asleep on the
\* clock or missed.  Only one who was preempted before BLOCKED ends the simulation.
Wakeable ==
  /\ \A t \in UserThreads :
       k.state[t] = Blocked => t \in On(k.list) \cup sleepers \cup k.missed
  /\ \A t \in busy :
       k.preempt[t] = Blocked => k.fatal \/ t \in On(k.list) \cup sleepers \cup k.missed
  /\ k.fatal => \E t \in busy : k.state[t] = Ready /\ k.preempt[t] = Blocked

\* The thread enters its state; t is the only one whose wait ends.
LEMMA CompletesWakeable ==
  ASSUME NumCpus = 1, Inv, NEW t \in Threads, t = on[0], NEW s, NEW p, Leaves(s, t, p),
         k' = Update(s, t), busy' = busy \ {t},
         \A u \in UserThreads \ {t} :
           s.state[u] = Blocked => u \in On(s.list) \cup sleepers' \cup s.missed,
         \A u \in busy \ {t} :
           k.preempt[u] = Blocked => s.fatal \/ u \in On(s.list) \cup sleepers' \cup s.missed,
         t \in UserThreads /\ s.next[t] = Blocked =>
           t \in On(s.list) \cup sleepers' \cup s.missed,
         s.fatal => \E u \in busy \ {t} : s.state[u] = Ready /\ k.preempt[u] = Blocked
  PROVE  Wakeable'
<1>1. InOrder(s) /\ s.cpuTask[0] # Idle /\ MayEnter(s, t, s.next[t])
  BY DEF Leaves
<1> DEFINE y == s.next[t]
<1>2. Enters(s, k', t, y)
  BY <1>1, UpdateEnters
<1>3. s.state \in [Threads -> States]
  BY <1>1 DEF InOrder, KernelStates
<1>4. /\ k'.state[t] = y /\ \A u \in Threads \ {t} : k'.state[u] = s.state[u]
      /\ k'.preempt = s.preempt /\ k'.list = s.list
      /\ k'.fatal = s.fatal /\ k'.missed = s.missed
  BY <1>2, <1>3 DEF Enters
<1>5. UserThreads \subseteq Threads /\ busy \subseteq Threads
  BY DEF UserThreads, Inv, Control
<1>6. \A u \in UserThreads :
        k'.state[u] = Blocked => u \in On(k'.list) \cup sleepers' \cup k'.missed
  BY <1>4, <1>5
<1>7. \A u \in busy \ {t} : k'.preempt[u] = k.preempt[u] /\ k'.state[u] = s.state[u]
  BY <1>4, <1>5 DEF Leaves
<1> QED BY <1>4, <1>6, <1>7 DEF Wakeable

\* The code of a thread keeps everybody who is BLOCKED where he can be woken.
LEMMA SegmentWakeable ==
  ASSUME NumCpus = 1, Inv, Wakeable, ~k.fatal, NEW t, CodeRan(t) PROVE Wakeable'
<1>1. PICK s, p, W : CodeLeft(t, s, p, W)
  BY DEF CodeRan
<1>2. /\ t \in Threads /\ t = on[0] /\ k.state[t] \in Executing /\ t \notin busy
      /\ Leaves(s, t, p) /\ Woke(s, t, W) /\ Segment(0, s)
  BY <1>1 DEF CodeRan, CodeLeft
<1>3. InOrder(s) /\ busy \subseteq UserThreads /\ UserThreads \subseteq Threads
  BY <1>2 DEF Leaves, UserThreads, Inv, Control
<1>4. sleepers \ sleepers' \subseteq W \cup {t}
  BY <1>1 DEF CodeLeft
<1>5. ASSUME NEW u \in UserThreads \ {t}, s.state[u] = Blocked
      PROVE  u \in On(s.list) \cup sleepers' \cup s.missed
  <2>1. k.state[u] = Blocked
    BY <1>2, <1>5, StateValues DEF Leaves, UserThreads
  <2>2. u \in On(k.list) \cup sleepers \cup k.missed
    BY <2>1 DEF Wakeable
  <2> QED BY <1>2, <1>4, <1>5, <2>2 DEF Woke
<1>6. ASSUME NEW u \in busy, k.preempt[u] = Blocked
      PROVE  s.fatal \/ u \in On(s.list) \cup sleepers' \cup s.missed
  <2>1. u \in On(k.list) \cup sleepers \cup k.missed /\ u # t
    BY <1>2, <1>6 DEF Wakeable
  <2>2. k.state[u] # Blocked
    <3>1. Fits(pos[u], u \in busy, k.preempt[u], k.state[u])
      BY <1>3 DEF Inv, CodeFits
    <3> QED BY <1>6, <3>1, StateValues DEF Fits
  <2> QED BY <1>2, <1>4, <2>1, <2>2 DEF Woke
<1>7. ASSUME s.fatal
      PROVE  \E u \in busy : s.state[u] = Ready /\ k.preempt[u] = Blocked /\ s.preempt[u] = Blocked
  <2>1. PICK u \in On(k.list) : k.state[u] # Blocked
    BY <1>2, <1>7 DEF Woke
  <2>2. u \in busy /\ k.preempt[u] = Blocked
    BY <2>1 DEF Inv, ListFits
  <2>3. u \in UserThreads /\ u # t /\ u \in Threads
    BY <1>2, <1>3, <2>2
  <2>4. k.state[u] = Ready
    <3>1. Fits(pos[u], u \in busy, k.preempt[u], k.state[u])
      BY <2>3 DEF Inv, CodeFits
    <3>2. k.state[u] \notin Executing
      BY <1>2, <2>3 DEF Inv, Execution
    <3> QED BY <2>2, <3>1, <3>2, StateValues DEF Fits
  <2>5. s.state[u] = Ready /\ s.preempt[u] = k.preempt[u]
    BY <1>2, <2>3, <2>4, StateValues DEF Leaves
  <2> QED BY <2>2, <2>5
<1>8. t \in UserThreads /\ s.next[t] = Blocked => t \in On(s.list) \cup sleepers' \cup s.missed
  BY <1>1 DEF CodeLeft
<1>9. CASE Annotated(s, t)
  <2>1. /\ t \in UserThreads /\ busy' = busy \cup {t}
        /\ k' = [s EXCEPT !.preempt[t] = s.next[t]]
    BY <1>9 DEF Annotated
  <2>2. s.state[t] \in Executing
    BY <1>1, <2>1 DEF CodeLeft
  <2>3. s \in KernelStates /\ s.preempt \in [Threads -> States]
    BY <1>3 DEF InOrder, KernelStates
  <2>4. /\ k'.state = s.state /\ k'.list = s.list
        /\ k'.fatal = s.fatal /\ k'.missed = s.missed
        /\ k'.preempt = [s.preempt EXCEPT ![t] = s.next[t]]
    BY ONLY <2>1, <2>3 DEF KernelStates
  <2>5. /\ k'.preempt[t] = s.next[t]
        /\ \A u \in Threads \ {t} : k'.preempt[u] = s.preempt[u] /\ s.preempt[u] = k.preempt[u]
    BY <1>2, <2>3, <2>4 DEF Leaves
  <2>6. \A u \in UserThreads :
          k'.state[u] = Blocked => u \in On(k'.list) \cup sleepers' \cup k'.missed
    BY <1>5, <2>2, <2>4, StateValues
  <2>7. ASSUME NEW u \in busy', k'.preempt[u] = Blocked
        PROVE  k'.fatal \/ u \in On(k'.list) \cup sleepers' \cup k'.missed
    <3>1. CASE u = t
      BY <1>8, <2>1, <2>4, <2>5, <2>7, <3>1
    <3>2. CASE u # t
      BY <1>3, <1>6, <2>1, <2>4, <2>5, <2>7, <3>2
    <3> QED BY <3>1, <3>2
  <2>8. k'.fatal => \E u \in busy' : k'.state[u] = Ready /\ k'.preempt[u] = Blocked
    <3>1. ASSUME NEW u \in busy PROVE u \in busy' /\ k'.preempt[u] = k.preempt[u]
      BY <1>2, <1>3, <2>1, <2>5
    <3> QED BY <1>7, <2>4, <3>1
  <2> QED BY <2>6, <2>7, <2>8 DEF Wakeable
<1>10. CASE NotAnnotated(s, t)
  <2>1. PICK r : ToEnter(s, r, t) /\ k' = Update(r, t)
    BY <1>10 DEF NotAnnotated
  <2>2. Leaves(r, t, p)
    BY <1>2, <2>1 DEF Leaves, Goes, MayEnter, ToEnter
  <2>3. /\ busy' = busy \ {t} /\ r.fatal = s.fatal /\ r.missed = s.missed
        /\ r.state = s.state /\ r.next = s.next /\ r.list = s.list
    BY <1>10, <2>1 DEF NotAnnotated, ToEnter
  <2>4. r.fatal => \E u \in busy \ {t} : r.state[u] = Ready /\ k.preempt[u] = Blocked
    BY <1>2, <1>7, <2>3
  <2> QED BY <1>2, <1>5, <1>6, <1>8, <2>1, <2>2, <2>3, <2>4, CompletesWakeable
<1> QED BY <1>2, <1>3, <1>9, <1>10, SegmentSplits

LEMMA ElapsedWakeable ==
  ASSUME NumCpus = 1, Inv, Wakeable, NEW t, NEW s, Elapsed(t, s) PROVE Wakeable'
<1>1. /\ t \in Threads /\ t = on[0] /\ t \in busy /\ Leaves(s, t, pos[t])
      /\ k' = Update(s, t) /\ busy' = busy \ {t} /\ sleepers' = sleepers
      /\ s.state = k.state /\ s.list = k.list /\ ~s.fatal /\ ~k.fatal /\ s.missed = k.missed
      /\ s.next[t] = k.preempt[t]
  BY DEF Elapsed
<1>2. \A u \in UserThreads : s.state[u] = Blocked => u \in On(s.list) \cup sleepers' \cup s.missed
  BY <1>1 DEF Wakeable
<1>3. \A u \in busy : k.preempt[u] = Blocked => u \in On(s.list) \cup sleepers' \cup s.missed
  BY <1>1 DEF Wakeable
<1> QED BY <1>1, <1>2, <1>3, CompletesWakeable

LEMMA StepWakeable ==
  ASSUME NumCpus = 1, Inv, Wakeable, [Next]_vars PROVE Wakeable'
<1>1. CASE Next
  <2>1. Loop(0) \/ Elapse(0) \/ HardIrq(0)
    BY <1>1, OneProcessor DEF Next
  <2>2. CASE \/ EnterKernel(0) \/ Leave(0) \/ Block(0) \/ Sleep(0) \/ Exit(0)
             \/ Handler(0) \/ HandlerEnd(0)
    <3>1. CodeRan(on[0])
      BY <2>2, EnterKernelStep, LeaveStep, BlockStep, SleepStep, ExitStep, HandlerStep,
         HandlerEndStep
    <3>2. ~k.fatal
      BY <2>2 DEF EnterKernel, Leave, Block, Sleep, Exit, Handler, HandlerEnd, InKernel, Running
    <3> QED BY <3>1, <3>2, SegmentWakeable
  <2>3. CASE Elapse(0)
    BY <2>3, ElapseStep, ElapsedWakeable
  <2>4. CASE Dispatch(0) \/ Continue(0) \/ Interrupted(0) \/ BusDone(0) \/ HardIrq(0)
    <3>1. Peaceful
      BY <2>4, DispatchStep, ContinueStep, InterruptedStep, BusDoneStep, HardIrqStep
    <3> QED BY <3>1 DEF Peaceful, Wakeable
  <2> QED BY <2>1, <2>2, <2>3, <2>4 DEF Loop, Run
<1>2. CASE UNCHANGED vars
  BY <1>2 DEF vars, Wakeable
<1> QED BY <1>1, <1>2

LEMMA InitWakeable ==
  ASSUME NumCpus = 1, Init PROVE Wakeable
<1>1. k.fatal = FALSE /\ busy = {}
  BY DEF Init
<1>2. \A t \in UserThreads : k.state[t] # Blocked
  <2>1. pos = [t \in UserThreads |-> "user"]
    BY DEF Init
  <2>2. CodeFits
    BY InitInv DEF Inv
  <2> QED BY <1>1, <2>1, <2>2, StateValues DEF CodeFits, Fits
<1> QED BY <1>1, <1>2 DEF Wakeable

LEMMA WakeableInvariance == ASSUME NumCpus = 1 PROVE SafeSpec => []Wakeable
<1>1. Init => Wakeable
  BY InitWakeable
<1>2. Inv /\ Wakeable /\ [Next]_vars => Wakeable'
  BY StepWakeable
<1> QED BY <1>1, <1>2, Invariance, PTL DEF SafeSpec

----------------------------------------------------------------------------
\* When kernel code takes no time.

\* The thread enters its state; t is the only one whose wait ends.
LEMMA CompletesCalm ==
  ASSUME NumCpus = 1, Inv, Calm, NEW t \in Threads, NEW s, NEW p, Leaves(s, t, p),
         k' = Update(s, t), busy' = busy \ {t}, s.fatal = k.fatal,
         \A u \in UserThreads \ {t} :
           s.state[u] = Blocked => u \in On(s.list) \cup sleepers',
         t \in UserThreads /\ s.next[t] = Blocked => t \in On(s.list) \cup sleepers'
  PROVE  Calm'
<1>1. InOrder(s) /\ s.cpuTask[0] # Idle /\ MayEnter(s, t, s.next[t])
  BY DEF Leaves
<1> DEFINE y == s.next[t]
<1>2. Enters(s, k', t, y)
  BY <1>1, UpdateEnters
<1>3. /\ s.state \in [Threads -> States] /\ s.list \in Seq(UserThreads)
  BY <1>1 DEF InOrder, KernelStates
<1>4. /\ k'.state[t] = y /\ \A u \in Threads \ {t} : k'.state[u] = s.state[u]
      /\ k'.preempt = s.preempt /\ k'.list = s.list /\ k'.fatal = k.fatal
  BY <1>2, <1>3 DEF Enters
<1>5. UserThreads \subseteq Threads /\ On(s.list) \subseteq Threads /\ busy \subseteq Threads
  BY <1>3, OnInThreads DEF UserThreads, Inv, Control
<1>6. \A u \in On(k'.list) : k'.state[u] = Blocked
  BY <1>4, <1>5 DEF Leaves, Calm
<1>7. \A u \in UserThreads : k'.state[u] = Blocked => u \in On(k'.list) \cup sleepers'
  BY <1>4, <1>5
<1>8. \A u \in busy' : k'.preempt[u] \in {SuperUser, Zombie}
  BY <1>4, <1>5 DEF Leaves, Calm
<1> QED BY <1>4, <1>6, <1>7, <1>8 DEF Calm

\* The code of a thread keeps everybody who is BLOCKED where he can be woken.
LEMMA SegmentCalm ==
  ASSUME NumCpus = 1, KernelTime = FALSE, Inv, Calm, NEW t, CodeRan(t) PROVE Calm'
<1>1. PICK s, p, W : CodeLeft(t, s, p, W)
  BY DEF CodeRan
<1>2. /\ t \in Threads /\ t = on[0] /\ k.state[t] \in Executing /\ t \notin busy
      /\ Leaves(s, t, p) /\ Woke(s, t, W) /\ Segment(0, s)
  BY <1>1 DEF CodeRan, CodeLeft
<1>3. InOrder(s) /\ s.fatal = k.fatal
  BY <1>2 DEF Leaves, Woke, Calm
<1>4. ASSUME NEW u \in UserThreads \ {t}, s.state[u] = Blocked
      PROVE  u \in On(s.list) \cup sleepers'
  <2>1. k.state[u] = Blocked
    BY <1>2, <1>4, StateValues DEF Leaves, UserThreads
  <2>2. u \in On(k.list) \cup sleepers
    BY <2>1 DEF Calm
  <2>3. sleepers \ sleepers' \subseteq W \cup {t}
    BY <1>1 DEF CodeLeft
  <2> QED BY <1>2, <1>4, <2>2, <2>3 DEF Woke
<1>5. CASE Annotated(s, t)
  <2>1. /\ t \in UserThreads /\ k.state[t] = User /\ busy' = busy \cup {t}
        /\ k' = [s EXCEPT !.preempt[t] = s.next[t]]
    BY <1>2, <1>5, StateValues DEF Annotated
  <2>2. s.next[t] \in {SuperUser, Zombie} /\ s.state[t] \in Executing
    BY <1>1, <2>1 DEF CodeLeft
  <2>3. s \in KernelStates /\ s.preempt \in [Threads -> States]
    BY <1>3 DEF InOrder, KernelStates
  <2>4. /\ k'.state = s.state /\ k'.list = s.list /\ k'.fatal = s.fatal
        /\ k'.preempt = [s.preempt EXCEPT ![t] = s.next[t]]
    BY ONLY <2>1, <2>3 DEF KernelStates
  <2>5. k'.preempt[t] = s.next[t] /\ \A u \in Threads \ {t} : k'.preempt[u] = s.preempt[u]
    BY <1>2, <2>3, <2>4
  <2>6. t \notin On(s.list) /\ k'.state[t] # Blocked
    BY <1>2, <2>2, <2>4, StateValues DEF Leaves
  <2>7. \A u \in On(k'.list) : k'.state[u] = Blocked
    BY <1>2, <2>4, <2>6 DEF Leaves, Calm
  <2>8. \A u \in UserThreads : k'.state[u] = Blocked => u \in On(k'.list) \cup sleepers'
    BY <1>4, <2>4, <2>6
  <2>9. \A u \in busy' : k'.preempt[u] \in {SuperUser, Zombie}
    <3>1. busy \subseteq Threads
      BY DEF Inv, Control, UserThreads
    <3> QED BY <1>2, <2>1, <2>2, <2>5, <3>1 DEF Leaves, Calm
  <2> QED BY <1>3, <2>4, <2>7, <2>8, <2>9 DEF Calm
<1>6. CASE NotAnnotated(s, t)
  <2>1. PICK r : ToEnter(s, r, t) /\ k' = Update(r, t)
    BY <1>6 DEF NotAnnotated
  <2>2. Leaves(r, t, p)
    BY <1>2, <2>1 DEF Leaves, Goes, MayEnter, ToEnter
  <2>3. busy' = busy \ {t} /\ r.fatal = k.fatal
    BY <1>3, <1>6, <2>1 DEF NotAnnotated, ToEnter
  <2>4. \A u \in UserThreads \ {t} : r.state[u] = Blocked => u \in On(r.list) \cup sleepers'
    BY <1>4, <2>1 DEF ToEnter
  <2>5. t \in UserThreads /\ r.next[t] = Blocked => t \in On(r.list) \cup sleepers'
    BY <1>1, <2>1 DEF ToEnter, CodeLeft
  <2> QED BY <1>2, <2>1, <2>2, <2>3, <2>4, <2>5, CompletesCalm
<1> QED BY <1>2, <1>3, <1>5, <1>6, SegmentSplits

LEMMA ElapsedCalm ==
  ASSUME NumCpus = 1, Inv, Calm, NEW t, NEW s, Elapsed(t, s) PROVE Calm'
<1>1. /\ t \in Threads /\ Leaves(s, t, pos[t]) /\ k' = Update(s, t) /\ busy' = busy \ {t}
      /\ s.fatal = k.fatal /\ sleepers' = sleepers
  BY DEF Elapsed
<1>2. \A u \in UserThreads \ {t} : s.state[u] = Blocked => u \in On(s.list) \cup sleepers'
  BY DEF Elapsed, Calm
<1>3. s.next[t] # Blocked
  BY StateValues DEF Elapsed, Calm
<1> QED BY <1>1, <1>2, <1>3, CompletesCalm

LEMMA StepCalm ==
  ASSUME NumCpus = 1, KernelTime = FALSE, Inv, Calm, [Next]_vars PROVE Calm'
<1>1. CASE Next
  <2>1. Loop(0) \/ Elapse(0) \/ HardIrq(0)
    BY <1>1, OneProcessor DEF Next
  <2>2. CASE \/ EnterKernel(0) \/ Leave(0) \/ Block(0) \/ Sleep(0) \/ Exit(0)
             \/ Handler(0) \/ HandlerEnd(0)
    <3>1. CodeRan(on[0])
      BY <2>2, EnterKernelStep, LeaveStep, BlockStep, SleepStep, ExitStep, HandlerStep,
         HandlerEndStep
    <3> QED BY <3>1, SegmentCalm
  <2>3. CASE Elapse(0)
    BY <2>3, ElapseStep, ElapsedCalm
  <2>4. CASE Dispatch(0) \/ Continue(0) \/ Interrupted(0) \/ BusDone(0) \/ HardIrq(0)
    <3>1. Peaceful
      BY <2>4, DispatchStep, ContinueStep, InterruptedStep, BusDoneStep, HardIrqStep
    <3>2. On(k.list) \subseteq UserThreads
      BY OnInThreads DEF Inv, InOrder, KernelStates
    <3> QED BY <3>1, <3>2 DEF Peaceful, Calm
  <2> QED BY <2>1, <2>2, <2>3, <2>4 DEF Loop, Run
<1>2. CASE UNCHANGED vars
  BY <1>2 DEF vars, Calm
<1> QED BY <1>1, <1>2

LEMMA InitCalm ==
  ASSUME NumCpus = 1, Init PROVE Calm
<1>1. k.fatal = FALSE /\ k.list = <<>> /\ busy = {} /\ sleepers = {}
  BY DEF Init
<1>2. \A t \in UserThreads : k.state[t] # Blocked
  <2>1. pos = [t \in UserThreads |-> "user"]
    BY DEF Init
  <2>2. CodeFits
    BY InitInv DEF Inv
  <2> QED BY <1>1, <2>1, <2>2, StateValues DEF CodeFits, Fits
<1> QED BY <1>1, <1>2, EmptyList DEF Calm

----------------------------------------------------------------------------
\* What holds in every run of one processor.

\* Every variable is in its domain: no list holds a thread or a task twice, and the
\* processor that has control is not waiting.
THEOREM TypeCorrect == ASSUME NumCpus = 1 PROVE SafeSpec => []TypeOK
<1>1. Inv => TypeOK
  <2>1. ASSUME Inv PROVE busy \subseteq Threads
    BY <2>1 DEF Inv, Control, UserThreads
  <2> QED BY <2>1 DEF Inv, InOrder, TaskInOrder, Control, TypeOK
<1> QED BY <1>1, Invariance, PTL

\* check_system_status never fails: whatever wakes, blocks, is preempted or ends, the
\* ready lists hold exactly who is ready, and a task is in its highest thread's state.
THEOREM StatusChecks == ASSUME NumCpus = 1 PROVE SafeSpec => []SystemStatus
<1>1. Inv => SystemStatus
  <2>1. SUFFICES ASSUME Inv, NEW task \in Tasks
                 PROVE  LET states == {k.state[t] : t \in ThreadsOf(task)}
                        IN  /\ On(k.threadReady[task]) = {t \in ThreadsOf(task) : k.state[t] \in Listed}
                            /\ task \in On(k.ready) <=> k.taskState[task] \in Listed
                            /\ k.taskState[task] \in states
                            /\ \A x \in states : x <= k.taskState[task]
    BY DEF SystemStatus
  <2>2. TaskInOrder(k, task)
    BY <2>1 DEF Inv, InOrder
  <2> QED BY <2>2 DEF TaskInOrder
<1> QED BY <1>1, Invariance, PTL

\* A thread in USER or SUPER_USER has the processor: whoever loses it, or is interrupted
\* in wait_time, is back in a ready list.
THEOREM ExecutingHasProcessor == ASSUME NumCpus = 1 PROVE SafeSpec => []NobodyStranded
<1>1. Inv => NobodyStranded
  BY OneProcessor DEF Inv, Execution, NobodyStranded
<1> QED BY <1>1, Invariance, PTL

\* The state a thread runs in is the one its code needs for its next set_next_state,
\* wherever it was preempted and however often.
THEOREM ModeIsKept == ASSUME NumCpus = 1 PROVE SafeSpec => []RunsInItsMode
<1>1. Inv => RunsInItsMode
  <2>1. SUFFICES ASSUME Inv, Running(0), on[0] \in UserThreads
                 PROVE  k.state[on[0]] = IF pos[on[0]] = "kernel" THEN SuperUser ELSE User
    BY OneProcessor DEF RunsInItsMode
  <2> QED BY <2>1, RunningRuns DEF Runs
<1> QED BY <1>1, Invariance, PTL

LEMMA CalmInvariance ==
  ASSUME NumCpus = 1, KernelTime = FALSE PROVE SafeSpec => []Calm
<1>1. Init => Calm
  BY InitCalm
<1>2. Inv /\ Calm /\ [Next]_vars => Calm'
  BY StepCalm
<1> QED BY <1>1, <1>2, Invariance, PTL DEF SafeSpec

\* Whoever is BLOCKED is on a list or asleep on the clock, unless his sleep ended while
\* he had kernel time left before BLOCKED: no order of blocking, preemption and waking
\* takes a thread off a list and leaves him BLOCKED.
THEOREM BlockedCanBeWoken ==
  ASSUME NumCpus = 1 PROVE SafeSpec => []NobodyBlockedForGood
<1>1. Wakeable => NobodyBlockedForGood
  BY DEF Wakeable, NobodyBlockedForGood
<1> QED BY <1>1, WakeableInvariance, PTL

\* unblock() refuses only a thread that was preempted between its push on the list and
\* BLOCKED.
THEOREM UnblockRefusesOnlyPreempted ==
  ASSUME NumCpus = 1 PROVE SafeSpec => []UnblockIsLegal
<1>1. Wakeable => UnblockIsLegal
  BY DEF Wakeable, UnblockIsLegal
<1> QED BY <1>1, WakeableInvariance, PTL

\* When kernel code takes no time, unblock() finds only BLOCKED threads on a list, and
\* whoever is BLOCKED is on a list or asleep on the clock: nobody is missed for good.
THEOREM NothingLostWithoutKernelTime ==
  ASSUME NumCpus = 1, KernelTime = FALSE
  PROVE  SafeSpec => [](/\ ~k.fatal
                        /\ \A t \in UserThreads :
                             k.state[t] = Blocked => t \in On(k.list) \cup sleepers)
<1>1. Calm => /\ ~k.fatal
              /\ \A t \in UserThreads : k.state[t] = Blocked => t \in On(k.list) \cup sleepers
  BY DEF Calm
<1> QED BY <1>1, CalmInvariance, PTL

----------------------------------------------------------------------------
(* UcosFlags. *)
Records == [thread : Callers, wait : UNION {Waits[t] : t \in Callers}, live : BOOLEAN]

Of(t) == {i \in DOMAIN waitList : waitList[i].thread = t}

\* The part of the type invariant the others rest on.
Types ==
  /\ waitList \in Seq(Records)
  /\ pc \in [Callers -> {"user", "asleep", "awoken"}]
  /\ call \in [Callers -> {NoWait} \cup UNION {Waits[t] : t \in Callers}]
  /\ \A t \in Callers : pc[t] # "user" => call[t] \in Waits[t]

\* A sleeper's record is on the list.
SleepersListed ==
  alive => \A t \in Callers : pc[t] = "asleep" =>
             \E i \in Of(t) : waitList[i].live /\ waitList[i].wait = call[t]

\* Who was only ever woken by posts has left nothing behind.
NothingLeftBehind ==
  \A t \in Callers \ disturbed :
    \A i \in Of(t) : /\ pc[t] = "asleep" /\ waitList[i].live /\ waitList[i].wait = call[t]
                     /\ Of(t) = {i}

FlagsInv == Types /\ SleepersListed /\ NothingLeftBehind /\ NoSleeperOnReady /\ WokenIsReady

----------------------------------------------------------------------------
\* A wait of the program is neither of the two that uc_FlagUnblock does not know.
LEMMA WaitsAreKnown ==
  ASSUME NEW t \in Callers, NEW w \in Waits[t]
  PROVE  w \notin {NoWait, Unknown} /\ w \in UNION {Waits[u] : u \in Callers}
<1>1. w.kind \in Kinds
  BY WaitsAssumption
<1>2. NoWait.kind = "none" /\ Unknown.kind = "unknown"
  BY DEF NoWait, Unknown
<1> QED BY <1>1, <1>2 DEF Kinds

\* What the erasing of the positions in H leaves: every other record, once.
LEMMA ErasedKeeps ==
  ASSUME NEW H \in SUBSET DOMAIN waitList, waitList \in Seq(Records), waitList' \in Erased(H)
  PROVE  /\ waitList' \in Seq(Records)
         /\ \A i \in DOMAIN waitList \ H : \E j \in DOMAIN waitList' : waitList'[j] = waitList[i]
         /\ \E f \in [DOMAIN waitList' -> DOMAIN waitList \ H] :
              /\ \A i \in DOMAIN waitList' : waitList'[i] = waitList[f[i]]
              /\ \A i, j \in DOMAIN waitList' : f[i] = f[j] => i = j
<1> DEFINE S == DOMAIN waitList \ H
<1>1. PICK f \in Increasing(S) : waitList' = [i \in DOMAIN f |-> waitList[f[i]]]
  BY DEF Erased
<1>2. /\ f \in [1..Cardinality(S) -> S] /\ S \subseteq Range(f)
      /\ \A i, j \in DOMAIN f : i < j => f[i] < f[j]
  BY <1>1 DEF Increasing
<1>3. S \subseteq 1..Len(waitList) /\ Len(waitList) \in Nat
  OBVIOUS
<1>4. Cardinality(S) \in Nat
  <2>1. IsFiniteSet(1..Len(waitList))
    BY <1>3, FS_Interval
  <2> QED BY <1>3, <2>1, FS_Subset, FS_CardinalityType
<1> HIDE DEF S
<1>5. \A i \in S : waitList[i] \in Records
  BY DEF S
<1>6. DOMAIN waitList' = 1..Cardinality(S) /\ DOMAIN f = 1..Cardinality(S)
  BY <1>1, <1>2
<1>7. waitList' \in Seq(Records)
  BY <1>1, <1>2, <1>4, <1>5, <1>6
<1>8. \A i \in S : \E j \in DOMAIN waitList' : waitList'[j] = waitList[i]
  <2> SUFFICES ASSUME NEW i \in S PROVE \E j \in DOMAIN waitList' : waitList'[j] = waitList[i]
    OBVIOUS
  <2>1. PICK j \in DOMAIN f : f[j] = i
    BY <1>2 DEF Range
  <2> QED BY <1>1, <1>6, <2>1
<1>9. \A i, j \in DOMAIN waitList' : f[i] = f[j] => i = j
  <2> SUFFICES ASSUME NEW i \in DOMAIN waitList', NEW j \in DOMAIN waitList', f[i] = f[j]
               PROVE  i = j
    OBVIOUS
  <2>1. i \in Int /\ j \in Int /\ f[i] \in Int /\ f[j] \in Int
    <3>1. i \in 1..Cardinality(S) /\ j \in 1..Cardinality(S)
      BY <1>6
    <3>2. f[i] \in S /\ f[j] \in S
      BY <1>2, <3>1
    <3>3. 1..Cardinality(S) \subseteq Int /\ S \subseteq Int
      BY <1>3, <1>4
    <3> QED BY ONLY <3>1, <3>2, <3>3
  <2>2. ~(i < j) /\ ~(j < i)
    BY <1>2, <1>6, <2>1
  <2> QED BY <2>1, <2>2
<1>10. f \in [DOMAIN waitList' -> S] /\ \A i \in DOMAIN waitList' : waitList'[i] = waitList[f[i]]
  BY <1>1, <1>2, <1>6
<1> QED BY <1>7, <1>8, <1>9, <1>10 DEF S

\* After a consumption the sleepers it satisfies are the overlooked ones.
LEMMA ConsumeKeeps ==
  ASSUME NoSleeperOnReady, NEW F, Consume(F), UNCHANGED alive,
         \A u \in Callers : pc'[u] = "asleep" => pc[u] = "asleep" /\ call'[u] = call[u]
  PROVE  NoSleeperOnReady'
<1> SUFFICES ASSUME NEW u \in Callers, alive, pc'[u] = "asleep", Holds(call'[u], flags')
             PROVE  u \in overlooked'
  BY DEF NoSleeperOnReady
<1>1. pc[u] = "asleep" /\ call'[u] = call[u] /\ flags' = F
  BY DEF Consume
<1>2. Holds(call[u], F)
  BY <1>1
<1>3. Holds(call[u], flags) => u \in overlooked
  BY <1>1 DEF NoSleeperOnReady
<1> QED BY <1>1, <1>2, <1>3 DEF Consume

\* Nothing changes for those who pend when the list and the threads stay.
LEMMA SameList ==
  ASSUME FlagsInv, UNCHANGED <<alive, waitList, pc, call, ready, disturbed>>
  PROVE  Types' /\ SleepersListed' /\ NothingLeftBehind' /\ WokenIsReady'
<1>1. \A t : Of(t)' = Of(t)
  BY DEF Of
<1>2. Types'
  BY DEF FlagsInv, Types
<1>3. SleepersListed' /\ NothingLeftBehind'
  BY <1>1 DEF FlagsInv, SleepersListed, NothingLeftBehind
<1>4. WokenIsReady'
  BY DEF FlagsInv, WokenIsReady, Meets
<1> QED BY <1>2, <1>3, <1>4

\* uc_FlagBlock: the caller's record is the last one on the list.
LEMMA PendKeeps ==
  ASSUME FlagsInv, NEW t \in Callers, NEW w \in Waits[t], Pend(t, w)
  PROVE  FlagsInv'
<1> DEFINE r == [thread |-> t, wait |-> w, live |-> TRUE]
           n == Len(waitList) + 1
<1>1. /\ alive /\ pc[t] = "user" /\ ~Holds(w, flags)
      /\ waitList' = Append(waitList, r)
      /\ pc' = [pc EXCEPT ![t] = "asleep"] /\ call' = [call EXCEPT ![t] = w]
      /\ UNCHANGED <<alive, flags, ready, expired, disturbed, overlooked>>
  BY DEF Pend
<1>2. /\ waitList \in Seq(Records)
      /\ pc \in [Callers -> {"user", "asleep", "awoken"}]
      /\ call \in [Callers -> {NoWait} \cup UNION {Waits[u] : u \in Callers}]
  BY DEF FlagsInv, Types
<1>3. w \in UNION {Waits[u] : u \in Callers}
  BY WaitsAreKnown
<1>4. r \in Records /\ r.thread = t /\ r.live /\ r.wait = w
  BY <1>3 DEF Records
<1> HIDE DEF r
<1>5. /\ waitList' \in Seq(Records) /\ DOMAIN waitList' = DOMAIN waitList \cup {n}
      /\ n \notin DOMAIN waitList
      /\ \A i \in DOMAIN waitList : waitList'[i] = waitList[i]
      /\ waitList'[n] = r
  BY <1>1, <1>2, <1>4
<1>6. /\ \A u \in Callers : u # t => pc'[u] = pc[u] /\ call'[u] = call[u]
      /\ pc'[t] = "asleep" /\ call'[t] = w
  BY <1>1, <1>2
<1>7. Types'
  <2>1. pc' \in [Callers -> {"user", "asleep", "awoken"}]
    BY <1>1, <1>2
  <2>2. call' \in [Callers -> {NoWait} \cup UNION {Waits[u] : u \in Callers}]
    BY <1>1, <1>2, <1>3
  <2>3. \A u \in Callers : pc'[u] # "user" => call'[u] \in Waits[u]
    BY <1>6 DEF FlagsInv, Types
  <2> QED BY <1>5, <2>1, <2>2, <2>3 DEF Types
<1>8. \A u : Of(u)' = IF u = t THEN Of(u) \cup {n} ELSE Of(u)
  BY <1>4, <1>5 DEF Of
<1>9. SleepersListed'
  <2> SUFFICES ASSUME NEW u \in Callers, pc'[u] = "asleep"
               PROVE  \E i \in Of(u)' : waitList'[i].live /\ waitList'[i].wait = call'[u]
    BY DEF SleepersListed
  <2>1. CASE u = t
    BY <1>4, <1>5, <1>6, <1>8, <2>1
  <2>2. CASE u # t
    <3>1. PICK i \in Of(u) : waitList[i].live /\ waitList[i].wait = call[u]
      BY <1>1, <1>6, <2>2 DEF FlagsInv, SleepersListed
    <3>2. i \in Of(u)' /\ waitList'[i] = waitList[i]
      BY <1>5, <1>8, <3>1 DEF Of
    <3> QED BY <1>6, <2>2, <3>1, <3>2
  <2> QED BY <2>1, <2>2
<1>10. NothingLeftBehind'
  <2> SUFFICES ASSUME NEW u \in Callers \ disturbed', NEW i \in Of(u)'
               PROVE  /\ pc'[u] = "asleep" /\ waitList'[i].live /\ waitList'[i].wait = call'[u]
                      /\ Of(u)' = {i}
    BY DEF NothingLeftBehind
  <2>1. CASE u = t
    <3>1. Of(t) = {}
      BY <1>1, <2>1 DEF FlagsInv, NothingLeftBehind
    <3> QED BY <1>4, <1>5, <1>6, <1>8, <2>1, <3>1
  <2>2. CASE u # t
    <3>1. Of(u)' = Of(u) /\ i \in Of(u) /\ waitList'[i] = waitList[i]
      BY <1>5, <1>8, <2>2 DEF Of
    <3> QED BY <1>1, <1>6, <2>2, <3>1 DEF FlagsInv, NothingLeftBehind
  <2> QED BY <2>1, <2>2
<1>11. NoSleeperOnReady'
  <2> SUFFICES ASSUME NEW u \in Callers, pc'[u] = "asleep", Holds(call'[u], flags)
               PROVE  u \in overlooked
    BY <1>1 DEF NoSleeperOnReady
  <2>1. u # t
    BY <1>1, <1>6
  <2>2. pc[u] = "asleep" /\ call'[u] = call[u]
    BY <1>6, <2>1
  <2> QED BY <1>1, <2>2 DEF FlagsInv, NoSleeperOnReady
<1>12. WokenIsReady'
  <2> SUFFICES ASSUME NEW u \in Callers \ disturbed, pc'[u] = "awoken"
               PROVE  Meets(call'[u], ready[u])
    BY <1>1 DEF WokenIsReady, Meets
  <2> QED BY <1>6 DEF FlagsInv, WokenIsReady
<1> QED BY <1>7, <1>9, <1>10, <1>11, <1>12 DEF FlagsInv

\* The end of OSFlagPend: what is left of the caller's record is dead.
LEMMA PendReturnsKeeps ==
  ASSUME FlagsInv, NEW t \in Callers, PendReturns(t)
  PROVE  FlagsInv'
<1>1. /\ pc[t] = "awoken"
      /\ pc' = [pc EXCEPT ![t] = "user"] /\ call' = [call EXCEPT ![t] = NoWait]
      /\ waitList' = [i \in DOMAIN waitList |->
                        IF waitList[i].thread = t THEN [waitList[i] EXCEPT !.live = FALSE] ELSE waitList[i]]
      /\ UNCHANGED <<alive, ready, expired, disturbed>>
  BY DEF PendReturns
<1>2. /\ waitList \in Seq(Records)
      /\ pc \in [Callers -> {"user", "asleep", "awoken"}]
      /\ call \in [Callers -> {NoWait} \cup UNION {Waits[u] : u \in Callers}]
  BY DEF FlagsInv, Types
<1>3. /\ \A u \in Callers : u # t => pc'[u] = pc[u] /\ call'[u] = call[u]
      /\ pc'[t] = "user"
  BY <1>1, <1>2
<1>4. /\ DOMAIN waitList' = DOMAIN waitList
      /\ \A i \in DOMAIN waitList : waitList'[i].thread = waitList[i].thread
      /\ \A i \in DOMAIN waitList : waitList[i].thread # t => waitList'[i] = waitList[i]
      /\ waitList' \in Seq(Records)
  <2>1. \A i \in DOMAIN waitList : waitList[i] \in Records
    BY <1>2
  <2>2. \A r \in Records : /\ [r EXCEPT !.live = FALSE] \in Records
                           /\ [r EXCEPT !.live = FALSE].thread = r.thread
    BY DEF Records
  <2>3. DOMAIN waitList' = 1..Len(waitList) /\ Len(waitList) \in Nat /\ DOMAIN waitList = 1..Len(waitList)
    BY <1>1, <1>2
  <2>4. \A i \in DOMAIN waitList : waitList'[i] \in Records /\ waitList'[i].thread = waitList[i].thread
    BY <1>1, <2>1, <2>2
  <2>5. waitList' \in Seq(Records)
    BY <1>1, <2>3, <2>4
  <2> QED BY <1>1, <2>3, <2>4, <2>5
<1>5. \A u : Of(u)' = Of(u)
  BY <1>4 DEF Of
<1>6. Types'
  <2>1. pc' \in [Callers -> {"user", "asleep", "awoken"}]
    BY <1>1, <1>2
  <2>2. call' \in [Callers -> {NoWait} \cup UNION {Waits[u] : u \in Callers}]
    BY <1>1, <1>2
  <2>3. \A u \in Callers : pc'[u] # "user" => call'[u] \in Waits[u]
    BY <1>3 DEF FlagsInv, Types
  <2> QED BY <1>4, <2>1, <2>2, <2>3 DEF Types
<1>7. SleepersListed'
  <2> SUFFICES ASSUME alive, NEW u \in Callers, pc'[u] = "asleep"
               PROVE  \E i \in Of(u)' : waitList'[i].live /\ waitList'[i].wait = call'[u]
    BY <1>1 DEF SleepersListed
  <2>1. u # t /\ pc[u] = "asleep" /\ call'[u] = call[u]
    BY <1>3
  <2>2. PICK i \in Of(u) : waitList[i].live /\ waitList[i].wait = call[u]
    BY <2>1 DEF FlagsInv, SleepersListed
  <2>3. waitList'[i] = waitList[i]
    BY <1>4, <2>1, <2>2 DEF Of
  <2> QED BY <1>5, <2>1, <2>2, <2>3
<1>8. NothingLeftBehind'
  <2> SUFFICES ASSUME NEW u \in Callers \ disturbed, NEW i \in Of(u)
               PROVE  /\ pc'[u] = "asleep" /\ waitList'[i].live /\ waitList'[i].wait = call'[u]
                      /\ Of(u) = {i}
    BY <1>1, <1>5 DEF NothingLeftBehind
  <2>1. /\ pc[u] = "asleep" /\ waitList[i].live /\ waitList[i].wait = call[u] /\ Of(u) = {i}
    BY DEF FlagsInv, NothingLeftBehind
  <2>2. u # t /\ waitList'[i] = waitList[i]
    BY <1>1, <1>4, <2>1 DEF Of
  <2> QED BY <1>3, <2>1, <2>2
<1>9. NoSleeperOnReady'
  <2>1. \A u \in Callers : pc'[u] = "asleep" => pc[u] = "asleep" /\ call'[u] = call[u]
    BY <1>3
  <2>2. CASE Answers(t) = "OS_NO_ERR" /\ alive
    BY <1>1, <2>1, <2>2, ConsumeKeeps DEF PendReturns, FlagsInv
  <2>3. CASE ~(Answers(t) = "OS_NO_ERR" /\ alive)
    BY <1>1, <2>1, <2>3 DEF PendReturns, FlagsInv, NoSleeperOnReady
  <2> QED BY <2>2, <2>3
<1>10. WokenIsReady'
  <2> SUFFICES ASSUME NEW u \in Callers \ disturbed, pc'[u] = "awoken"
               PROVE  Meets(call'[u], ready[u])
    BY <1>1 DEF WokenIsReady, Meets
  <2> QED BY <1>3 DEF FlagsInv, WokenIsReady
<1> QED BY <1>6, <1>7, <1>8, <1>9, <1>10 DEF FlagsInv

\* A timeout or a signal takes a thread out of its pend, and that is on record.
LEMMA DisturbKeeps ==
  ASSUME FlagsInv, NEW t \in Callers, pc[t] = "asleep", pc' = [pc EXCEPT ![t] = "awoken"],
         disturbed' = disturbed \cup {t}, overlooked' = overlooked \ {t},
         UNCHANGED <<alive, flags, waitList, call, ready>>
  PROVE  FlagsInv'
<1>1. \A u : Of(u)' = Of(u)
  BY DEF Of
<1>2. pc \in [Callers -> {"user", "asleep", "awoken"}]
  BY DEF FlagsInv, Types
<1>3. /\ \A u \in Callers : u # t => pc'[u] = pc[u]
      /\ pc'[t] = "awoken"
  BY <1>2
<1>4. Types'
  <2>1. pc' \in [Callers -> {"user", "asleep", "awoken"}]
    BY <1>2
  <2> QED BY <1>3, <2>1 DEF FlagsInv, Types
<1>5. SleepersListed'
  BY <1>1, <1>3 DEF FlagsInv, SleepersListed
<1>6. NothingLeftBehind'
  BY <1>1, <1>3 DEF FlagsInv, NothingLeftBehind
<1>7. NoSleeperOnReady'
  BY <1>3 DEF FlagsInv, NoSleeperOnReady, Holds, Meets, Matching
<1>8. WokenIsReady'
  BY <1>3 DEF FlagsInv, WokenIsReady, Meets
<1> QED BY <1>4, <1>5, <1>6, <1>7, <1>8 DEF FlagsInv

\* OSFlagPost: whatever the left-behind memory reads as, every sleeper whose
\* wait is satisfied has a record that says so.
LEMMA PostKeeps == ASSUME FlagsInv, Post PROVE FlagsInv'
<1>1. /\ alive /\ UNCHANGED <<alive, call, expired, disturbed>> /\ overlooked' = {}
      /\ FlagUnblock(flags')
  BY DEF Post
<1> DEFINE F == flags'
<1>2. PICK kept \in SUBSET Dead : \E reused \in SUBSET (Dead \ kept) :
        LET reads == [i \in DOMAIN waitList |-> Reading(i, kept, reused)]
            H == Hits(reads, F)
            Told(t) == {i \in H : waitList[i].thread = t}
        IN  /\ waitList' \in Erased(H)
            /\ ready' = [t \in Callers |-> IF Told(t) = {} THEN ready[t]
                                           ELSE Matching(reads[Max(Told(t))], F)]
            /\ pc' = [t \in Callers |-> IF Told(t) # {} /\ pc[t] = "asleep"
                                        THEN "awoken" ELSE pc[t]]
  BY <1>1 DEF FlagUnblock
<1>2a. PICK reused \in SUBSET (Dead \ kept) :
        LET reads == [i \in DOMAIN waitList |-> Reading(i, kept, reused)]
            H == Hits(reads, F)
            Told(t) == {i \in H : waitList[i].thread = t}
        IN  /\ waitList' \in Erased(H)
            /\ ready' = [t \in Callers |-> IF Told(t) = {} THEN ready[t]
                                           ELSE Matching(reads[Max(Told(t))], F)]
            /\ pc' = [t \in Callers |-> IF Told(t) # {} /\ pc[t] = "asleep"
                                        THEN "awoken" ELSE pc[t]]
  BY <1>2
<1> DEFINE reads == [i \in DOMAIN waitList |-> Reading(i, kept, reused)]
           H == Hits(reads, F)
           Told(t) == {i \in H : waitList[i].thread = t}
<1>3. /\ waitList' \in Erased(H)
      /\ \A t \in Callers : ready'[t] = IF Told(t) = {} THEN ready[t]
                                        ELSE Matching(reads[Max(Told(t))], F)
      /\ pc' = [t \in Callers |-> IF Told(t) # {} /\ pc[t] = "asleep"
                                  THEN "awoken" ELSE pc[t]]
  <2>1. /\ waitList' \in Erased(H)
        /\ ready' = [t \in Callers |-> IF Told(t) = {} THEN ready[t]
                                       ELSE Matching(reads[Max(Told(t))], F)]
        /\ pc' = [t \in Callers |-> IF Told(t) # {} /\ pc[t] = "asleep"
                                    THEN "awoken" ELSE pc[t]]
    BY <1>2a
  <2> HIDE DEF Told, H, reads, F
  <2> QED BY <2>1
<1>4. /\ H \in SUBSET DOMAIN waitList
      /\ \A i \in DOMAIN waitList : i \in H <=> reads[i] \notin {NoWait, Unknown} /\ Holds(reads[i], F)
  BY DEF Hits
<1>5. \A i \in DOMAIN waitList : waitList[i].live => reads[i] = waitList[i].wait
  BY DEF Reading, Dead
<1>6. \A t : Told(t) \subseteq Of(t) /\ Told(t) = Of(t) \cap H
  BY <1>4 DEF Of
<1> HIDE DEF H, reads, F
<1>7. /\ waitList \in Seq(Records)
      /\ pc \in [Callers -> {"user", "asleep", "awoken"}]
      /\ \A t \in Callers : pc[t] # "user" => call[t] \in Waits[t]
  BY DEF FlagsInv, Types
<1>8. /\ waitList' \in Seq(Records)
      /\ \A i \in DOMAIN waitList \ H : \E j \in DOMAIN waitList' : waitList'[j] = waitList[i]
      /\ \E f \in [DOMAIN waitList' -> DOMAIN waitList \ H] :
           /\ \A i \in DOMAIN waitList' : waitList'[i] = waitList[f[i]]
           /\ \A i, j \in DOMAIN waitList' : f[i] = f[j] => i = j
  BY <1>3, <1>4, <1>7, ErasedKeeps
<1>9. PICK f \in [DOMAIN waitList' -> DOMAIN waitList \ H] :
        /\ \A i \in DOMAIN waitList' : waitList'[i] = waitList[f[i]]
        /\ \A i, j \in DOMAIN waitList' : f[i] = f[j] => i = j
  BY <1>8
\* A sleeper's record that reads as his wait is hit exactly when the wait holds.
<1>10. ASSUME NEW t \in Callers, NEW i \in Of(t), waitList[i].live, waitList[i].wait = call[t],
              pc[t] = "asleep"
       PROVE  i \in H <=> Holds(call[t], F)
  <2>1. i \in DOMAIN waitList /\ reads[i] = call[t]
    BY <1>5, <1>10 DEF Of
  <2>2. call[t] \notin {NoWait, Unknown}
    BY <1>7, <1>10, WaitsAreKnown
  <2> QED BY <1>4, <2>1, <2>2
<1> HIDE DEF Told
<1>11. Types'
  <2>1. pc' \in [Callers -> {"user", "asleep", "awoken"}]
    BY <1>3, <1>7
  <2>2. \A t \in Callers : pc'[t] # "user" => pc[t] # "user"
    BY <1>3
  <2> QED BY <1>1, <1>8, <2>1, <2>2 DEF FlagsInv, Types
<1>12. \A t \in Callers : pc'[t] = "asleep" => pc[t] = "asleep" /\ Told(t) = {}
  BY <1>3
<1>13. ASSUME NEW t \in Callers, pc'[t] = "asleep"
       PROVE  /\ ~Holds(call[t], F)
              /\ \E j \in Of(t)' : waitList'[j].live /\ waitList'[j].wait = call[t]
  <2>1. pc[t] = "asleep" /\ Told(t) = {}
    BY <1>12, <1>13
  <2>2. PICK i \in Of(t) : waitList[i].live /\ waitList[i].wait = call[t]
    BY <1>1, <2>1 DEF FlagsInv, SleepersListed
  <2>3. i \notin H
    BY <1>6, <2>1, <2>2
  <2>4. PICK j \in DOMAIN waitList' : waitList'[j] = waitList[i]
    BY <1>8, <2>2, <2>3 DEF Of
  <2>5. j \in Of(t)'
    BY <2>2, <2>4 DEF Of
  <2> QED BY <1>10, <2>1, <2>2, <2>3, <2>4, <2>5
<1>14. SleepersListed' /\ NoSleeperOnReady'
  <2>1. \A t \in Callers : pc'[t] = "asleep" => ~Holds(call'[t], flags')
    BY <1>1, <1>13 DEF F
  <2> QED BY <1>1, <1>13, <2>1 DEF SleepersListed, NoSleeperOnReady
<1>15. ASSUME NEW t \in Callers \ disturbed, NEW j \in Of(t)'
       PROVE  /\ pc'[t] = "asleep" /\ waitList'[j].live /\ waitList'[j].wait = call[t]
              /\ Of(t)' = {j}
  <2>1. j \in DOMAIN waitList' /\ f[j] \in DOMAIN waitList \ H /\ waitList'[j] = waitList[f[j]]
    BY <1>9 DEF Of
  <2>2. f[j] \in Of(t)
    BY <2>1 DEF Of
  <2>3. /\ pc[t] = "asleep" /\ waitList[f[j]].live /\ waitList[f[j]].wait = call[t]
        /\ Of(t) = {f[j]}
    BY <2>2 DEF FlagsInv, NothingLeftBehind
  <2>4. Told(t) = {}
    BY <1>6, <2>1, <2>3
  <2>5. pc'[t] = "asleep"
    BY <1>3, <2>3, <2>4
  <2>6. ASSUME NEW m \in Of(t)' PROVE m = j
    <3>1. m \in DOMAIN waitList' /\ f[m] \in DOMAIN waitList \ H /\ waitList'[m] = waitList[f[m]]
      BY <1>9 DEF Of
    <3>2. f[m] \in Of(t)
      BY <3>1 DEF Of
    <3> QED BY <1>9, <2>1, <2>3, <3>1, <3>2
  <2> QED BY <2>1, <2>3, <2>5, <2>6
<1>16. NothingLeftBehind'
  BY <1>1, <1>15 DEF NothingLeftBehind
<1>17. WokenIsReady'
  <2> SUFFICES ASSUME NEW t \in Callers \ disturbed, pc'[t] = "awoken"
               PROVE  Meets(call[t], ready'[t])
    BY <1>1 DEF WokenIsReady, Meets
  <2>1. CASE Told(t) = {}
    <3>1. pc[t] = "awoken" /\ ready'[t] = ready[t]
      BY <1>3, <2>1
    <3> QED BY <3>1 DEF FlagsInv, WokenIsReady
  <2>2. CASE Told(t) # {}
    <3>1. PICK i \in Told(t) : TRUE
      BY <2>2
    <3>2. i \in Of(t) /\ i \in H
      BY <1>6, <3>1
    <3>3. pc[t] = "asleep" /\ waitList[i].live /\ waitList[i].wait = call[t] /\ Of(t) = {i}
      BY <3>2 DEF FlagsInv, NothingLeftBehind
    <3>4. Told(t) = {i}
      BY <1>6, <3>1, <3>3
    <3>5. Max({i}) = i
      <4>1. i \in Nat
        BY <1>7, <3>2 DEF Of
      <4> QED BY <4>1 DEF Max
    <3>6. reads[i] = call[t]
      BY <1>5, <3>2, <3>3 DEF Of
    <3>7. ready'[t] = Matching(call[t], F)
      BY <1>3, <2>2, <3>4, <3>5, <3>6
    <3>8. Holds(call[t], F)
      BY <1>10, <3>2, <3>3
    <3> QED BY <3>7, <3>8 DEF Holds
  <2> QED BY <2>1, <2>2
<1> QED BY <1>11, <1>14, <1>16, <1>17 DEF FlagsInv

----------------------------------------------------------------------------
\* The invariant holds of a new group.
LEMMA FlagsInitInv == FlagsInit => FlagsInv
<1> SUFFICES ASSUME FlagsInit PROVE FlagsInv
  OBVIOUS
<1> USE DEF FlagsInit
<1>1. \A t : Of(t) = {}
  BY DEF Of
<1>2. Types
  BY DEF Types
<1>3. SleepersListed /\ NothingLeftBehind /\ NoSleeperOnReady /\ WokenIsReady
  BY <1>1 DEF SleepersListed, NothingLeftBehind, NoSleeperOnReady, WokenIsReady
<1> QED BY <1>2, <1>3 DEF FlagsInv

\* Every step keeps the invariant.
LEMMA FlagsStepInv == FlagsInv /\ [FlagsNext]_flagVars => FlagsInv'
<1> SUFFICES ASSUME FlagsInv, [FlagsNext]_flagVars PROVE FlagsInv'
  OBVIOUS
<1>0. CASE UNCHANGED flagVars
  <2>1. Types' /\ SleepersListed' /\ NothingLeftBehind' /\ WokenIsReady'
    BY <1>0, SameList DEF flagVars
  <2>2. NoSleeperOnReady'
    BY <1>0 DEF flagVars, FlagsInv, NoSleeperOnReady, Holds, Meets, Matching
  <2> QED BY <2>1, <2>2 DEF FlagsInv
<1>1. CASE Post
  BY <1>1, PostKeeps
<1>2. CASE Del
  <2>1. Types' /\ NothingLeftBehind' /\ SleepersListed' /\ NoSleeperOnReady'
    BY <1>2 DEF Del, threadVars, FlagsInv, Types, NothingLeftBehind, SleepersListed,
                NoSleeperOnReady, Of
  <2>2. WokenIsReady'
    BY <1>2 DEF Del, threadVars, FlagsInv, WokenIsReady, Meets
  <2> QED BY <2>1, <2>2 DEF FlagsInv
<1>3. ASSUME NEW t \in Callers, PendReturns(t) PROVE FlagsInv'
  BY <1>3, PendReturnsKeeps
<1>4. ASSUME NEW t \in Callers, WaitEnds(t) \/ Signal(t) PROVE FlagsInv'
  BY <1>4, DisturbKeeps DEF WaitEnds, Signal
<1>5. ASSUME NEW t \in Callers, OtherSleepEnds(t) PROVE FlagsInv'
  <2>1. UNCHANGED <<alive, flags, waitList, pc, call, ready, disturbed, overlooked>>
    BY <1>5 DEF OtherSleepEnds
  <2>2. Types' /\ SleepersListed' /\ NothingLeftBehind' /\ WokenIsReady'
    BY <2>1, SameList
  <2>3. NoSleeperOnReady'
    BY <2>1 DEF FlagsInv, NoSleeperOnReady, Holds, Meets, Matching
  <2> QED BY <2>2, <2>3 DEF FlagsInv
<1>6. ASSUME NEW t \in Callers, NEW w \in Waits[t], Accept(t, w) PROVE FlagsInv'
  <2>1. /\ UNCHANGED <<alive, waitList, pc, call, ready, disturbed>>
        /\ Consume(TakenNow(w, flags))
    BY <1>6 DEF Accept, threadVars
  <2>2. Types' /\ SleepersListed' /\ NothingLeftBehind' /\ WokenIsReady'
    BY <2>1, SameList
  <2>3. NoSleeperOnReady'
    BY <2>1, ConsumeKeeps DEF FlagsInv
  <2> QED BY <2>2, <2>3 DEF FlagsInv
<1>7. ASSUME NEW t \in Callers, NEW w \in Waits[t], Pend(t, w) PROVE FlagsInv'
  BY <1>7, PendKeeps
<1> QED BY <1>0, <1>1, <1>2, <1>3, <1>4, <1>5, <1>6, <1>7 DEF FlagsNext

\* The inductive invariant holds of every behaviour.
THEOREM FlagsInvariance == FlagsSpec => []FlagsInv
BY FlagsInitInv, FlagsStepInv, PTL DEF FlagsSpec

\* Nobody sleeps in OSFlagPend over flags that are as he wants them, unless
\* another thread's consumption made them so, for any threads, bits and waits
\* and whatever records interrupted pends have left on the list.
THEOREM NobodySleepsOnReady == FlagsSpec => []NoSleeperOnReady
<1>1. FlagsInv => NoSleeperOnReady
  BY DEF FlagsInv
<1> QED BY <1>1, FlagsInvariance, PTL

\* A thread that only posts ever woke finds in MicroCOS_flags_ready the bits
\* its own wait is for.
THEOREM WokenFindsItsFlags == FlagsSpec => []WokenIsReady
<1>1. FlagsInv => WokenIsReady
  BY DEF FlagsInv
<1> QED BY <1>1, FlagsInvariance, PTL

----------------------------------------------------------------------------
\* The greatest element of a set of positions is one of it.
LEMMA MaxIsIn == ASSUME NEW n \in Nat, NEW S \in SUBSET (1..n), S # {} PROVE Max(S) \in S
<1> DEFINE T == {n - x : x \in S}
<1>1. T \in SUBSET Nat /\ T # {}
  <2>1. \A x \in S : n - x \in Nat
    OBVIOUS
  <2>2. PICK x \in S : TRUE
    OBVIOUS
  <2>3. n - x \in T
    BY <2>2
  <2> QED BY <2>1, <2>3
<1>2. PICK y \in T : \A z \in T : ~ (<<z, y>> \in OpToRel(<, Nat))
  BY <1>1, NatLessThanWellFounded, WFMin
<1>3. PICK x \in S : y = n - x
  OBVIOUS
<1>4. \A z \in S : x >= z
  <2> SUFFICES ASSUME NEW z \in S PROVE x >= z
    OBVIOUS
  <2>1. ~ (n - z < y)
    BY <1>1, <1>2 DEF OpToRel
  <2> QED BY <1>3, <2>1
<1> QED BY <1>4 DEF Max

\* A wait of the program is for bits of the group, and takes such bits.
LEMMA WaitsWantBits ==
  ASSUME NEW t \in Callers, NEW w \in Waits[t], NEW F \in SUBSET Bits
  PROVE  /\ w.want \subseteq Bits /\ Matching(w, F) \subseteq Bits
         /\ TakenNow(w, F) \subseteq Bits /\ TakenLater(w, F) \subseteq Bits
<1>1. w \in [kind : Kinds, want : SUBSET Bits, consume : BOOLEAN, timed : BOOLEAN]
  BY WaitsAssumption
<1>2. w.want \in SUBSET Bits /\ w.consume \in BOOLEAN
  BY <1>1
<1>3. Matching(w, F) \subseteq Bits
  BY <1>2 DEF Matching
<1>4. TakenNow(w, F) \subseteq Bits
  BY <1>2, <1>3 DEF TakenNow
<1>5. TakenLater(w, F) \subseteq Bits
  BY <1>2 DEF TakenLater
<1> QED BY <1>2, <1>3, <1>4, <1>5

\* A record says what its own thread waits for.
ListTyped == \A i \in DOMAIN waitList : /\ waitList[i].thread \in Callers /\ waitList[i].live \in BOOLEAN
                                        /\ waitList[i].wait \in Waits[waitList[i].thread]

CallsTyped == \A t \in Callers : IF pc[t] = "user" THEN call[t] = NoWait ELSE call[t] \in Waits[t]

LEMMA PostTyped == ASSUME FlagsInv, FlagsTypeOK, Post PROVE FlagsTypeOK'
<1>1. /\ alive /\ UNCHANGED <<alive, call, expired, disturbed>> /\ overlooked' = {}
      /\ FlagUnblock(flags')
  BY DEF Post
<1>2. flags' \in SUBSET Bits
  BY DEF Post, FlagsTypeOK
<1> DEFINE F == flags'
<1>3. F \in SUBSET Bits
  BY <1>2
<1>4. PICK kept \in SUBSET Dead : \E reused \in SUBSET (Dead \ kept) :
        LET reads == [i \in DOMAIN waitList |-> Reading(i, kept, reused)]
            H == Hits(reads, F)
            Told(t) == {i \in H : waitList[i].thread = t}
        IN  /\ waitList' \in Erased(H)
            /\ ready' = [t \in Callers |-> IF Told(t) = {} THEN ready[t]
                                           ELSE Matching(reads[Max(Told(t))], F)]
            /\ pc' = [t \in Callers |-> IF Told(t) # {} /\ pc[t] = "asleep"
                                        THEN "awoken" ELSE pc[t]]
  BY <1>1 DEF FlagUnblock
<1>5. PICK reused \in SUBSET (Dead \ kept) :
        LET reads == [i \in DOMAIN waitList |-> Reading(i, kept, reused)]
            H == Hits(reads, F)
            Told(t) == {i \in H : waitList[i].thread = t}
        IN  /\ waitList' \in Erased(H)
            /\ ready' = [t \in Callers |-> IF Told(t) = {} THEN ready[t]
                                           ELSE Matching(reads[Max(Told(t))], F)]
            /\ pc' = [t \in Callers |-> IF Told(t) # {} /\ pc[t] = "asleep"
                                        THEN "awoken" ELSE pc[t]]
  BY <1>4
<1> DEFINE reads == [i \in DOMAIN waitList |-> Reading(i, kept, reused)]
           H == Hits(reads, F)
           Told(t) == {i \in H : waitList[i].thread = t}
<1>6. /\ waitList' \in Erased(H)
      /\ ready' = [t \in Callers |-> IF Told(t) = {} THEN ready[t]
                                     ELSE Matching(reads[Max(Told(t))], F)]
      /\ pc' = [t \in Callers |-> IF Told(t) # {} /\ pc[t] = "asleep"
                                  THEN "awoken" ELSE pc[t]]
  BY <1>5
<1> HIDE DEF F
<1>7. ASSUME NEW t \in Callers, NEW i \in Told(t)
      PROVE  i \in DOMAIN waitList /\ Matching(reads[i], F) \subseteq Bits
  <2>1. i \in DOMAIN waitList /\ waitList[i].thread = t /\ reads[i] \notin {NoWait, Unknown}
    BY DEF Hits
  <2>2. reads[i] = Reading(i, kept, reused)
    BY <2>1
  <2>3. reads[i] \in {waitList[i].wait, call[t], Unknown}
    BY <2>1, <2>2 DEF Reading
  <2> HIDE DEF reads
  <2>4. waitList[i].wait \in Waits[t] /\ (call[t] = NoWait \/ call[t] \in Waits[t])
    BY <2>1 DEF FlagsTypeOK
  <2>5. reads[i] \in Waits[t]
    BY <2>1, <2>3, <2>4
  <2> QED BY <1>3, <2>1, <2>5, WaitsWantBits
<1>8. /\ waitList \in Seq(Records) /\ H \in SUBSET DOMAIN waitList
  BY DEF FlagsInv, Types, Hits
<1> HIDE DEF reads, H
<1>9. ASSUME NEW t \in Callers, Told(t) # {} PROVE Max(Told(t)) \in Told(t)
  <2>1. Told(t) \in SUBSET (1..Len(waitList)) /\ Len(waitList) \in Nat
    BY <1>8
  <2> HIDE DEF Told
  <2> QED BY <1>9, <2>1, MaxIsIn
<1> HIDE DEF Told
<1>10. ready' \in [Callers -> SUBSET Bits]
  <2> SUFFICES ASSUME NEW t \in Callers
               PROVE  (IF Told(t) = {} THEN ready[t] ELSE Matching(reads[Max(Told(t))], F))
                        \in SUBSET Bits
    BY <1>6
  <2>1. CASE Told(t) = {}
    BY <2>1 DEF FlagsTypeOK
  <2>2. CASE Told(t) # {}
    <3>1. PICK i : i = Max(Told(t))
      OBVIOUS
    <3>2. i \in Told(t)
      BY <1>9, <2>2, <3>1
    <3> QED BY <1>7, <2>2, <3>1, <3>2
  <2> QED BY <2>1, <2>2
<1>11. pc' \in [Callers -> {"user", "asleep", "awoken"}] /\ CallsTyped'
  <2>1. pc \in [Callers -> {"user", "asleep", "awoken"}]
    BY DEF FlagsTypeOK
  <2>2. \A t \in Callers : pc'[t] = "user" <=> pc[t] = "user"
    BY <1>6, <2>1
  <2>3. pc' \in [Callers -> {"user", "asleep", "awoken"}]
    BY <1>6, <2>1
  <2> QED BY <1>1, <2>2, <2>3 DEF FlagsTypeOK, CallsTyped
<1>12. ListTyped'
  <2>1. PICK f \in [DOMAIN waitList' -> DOMAIN waitList \ H] : \A i \in DOMAIN waitList' : waitList'[i] = waitList[f[i]]
    BY <1>6, <1>8, ErasedKeeps
  <2> SUFFICES ASSUME NEW i \in DOMAIN waitList'
               PROVE  /\ waitList'[i].thread \in Callers /\ waitList'[i].live \in BOOLEAN
                      /\ waitList'[i].wait \in Waits[waitList'[i].thread]
    BY DEF ListTyped
  <2>2. f[i] \in DOMAIN waitList /\ waitList'[i] = waitList[f[i]]
    BY <2>1
  <2> QED BY <2>2 DEF FlagsTypeOK
<1>13. alive' \in BOOLEAN /\ expired' \subseteq Callers /\ disturbed' \subseteq Callers
       /\ overlooked' \subseteq Callers
  BY <1>1 DEF FlagsTypeOK
<1> QED BY <1>2, <1>10, <1>11, <1>12, <1>13 DEF FlagsTypeOK, ListTyped, CallsTyped

LEMMA PendTyped ==
  ASSUME FlagsInv, FlagsTypeOK, NEW t \in Callers, NEW w \in Waits[t], Pend(t, w) PROVE FlagsTypeOK'
<1>1. /\ waitList' = Append(waitList, [thread |-> t, wait |-> w, live |-> TRUE])
      /\ pc' = [pc EXCEPT ![t] = "asleep"] /\ call' = [call EXCEPT ![t] = w]
      /\ UNCHANGED <<alive, flags, ready, expired, disturbed, overlooked>>
  BY DEF Pend
<1>2. waitList \in Seq(Records) /\ [thread |-> t, wait |-> w, live |-> TRUE] \in Records
      /\ call \in [Callers -> {NoWait} \cup UNION {Waits[u] : u \in Callers}]
  BY WaitsAreKnown DEF FlagsInv, Types, Records
<1>3. ListTyped'
  <2> SUFFICES ASSUME NEW i \in DOMAIN waitList'
               PROVE  /\ waitList'[i].thread \in Callers /\ waitList'[i].live \in BOOLEAN
                      /\ waitList'[i].wait \in Waits[waitList'[i].thread]
    BY DEF ListTyped
  <2>1. \/ i \in DOMAIN waitList /\ waitList'[i] = waitList[i]
        \/ waitList'[i] = [thread |-> t, wait |-> w, live |-> TRUE]
    BY <1>1, <1>2
  <2>2. CASE i \in DOMAIN waitList /\ waitList'[i] = waitList[i]
    BY <2>2 DEF FlagsTypeOK
  <2>3. CASE waitList'[i] = [thread |-> t, wait |-> w, live |-> TRUE]
    BY ONLY <2>3, t \in Callers, w \in Waits[t]
  <2> QED BY <2>1, <2>2, <2>3
<1>4. pc' \in [Callers -> {"user", "asleep", "awoken"}] /\ CallsTyped'
  <2>1. pc \in [Callers -> {"user", "asleep", "awoken"}]
    BY DEF FlagsTypeOK
  <2>2. pc'[t] = "asleep" /\ \A u \in Callers \ {t} : pc'[u] = pc[u]
    BY <1>1, <2>1
  <2>3. call'[t] = w /\ \A u \in Callers \ {t} : call'[u] = call[u]
    BY <1>1, <1>2
  <2>4. CallsTyped'
    BY <2>2, <2>3 DEF FlagsTypeOK, CallsTyped
  <2> QED BY <1>1, <2>1, <2>4
<1> QED BY <1>1, <1>3, <1>4 DEF FlagsTypeOK, ListTyped, CallsTyped

LEMMA PendReturnsTyped ==
  ASSUME FlagsInv, FlagsTypeOK, NEW t \in Callers, PendReturns(t) PROVE FlagsTypeOK'
<1>1. /\ pc[t] = "awoken" /\ pc' = [pc EXCEPT ![t] = "user"]
      /\ call' = [call EXCEPT ![t] = NoWait]
      /\ waitList' = [i \in DOMAIN waitList |->
                       IF waitList[i].thread = t THEN [waitList[i] EXCEPT !.live = FALSE] ELSE waitList[i]]
      /\ UNCHANGED <<alive, ready, expired, disturbed>>
  BY DEF PendReturns
<1>2. waitList \in Seq(Records)
      /\ call \in [Callers -> {NoWait} \cup UNION {Waits[u] : u \in Callers}]
      /\ call[t] \in Waits[t]
  BY <1>1 DEF FlagsInv, Types
<1>3. ListTyped'
  <2> SUFFICES ASSUME NEW i \in DOMAIN waitList'
               PROVE  /\ waitList'[i].thread \in Callers /\ waitList'[i].live \in BOOLEAN
                      /\ waitList'[i].wait \in Waits[waitList'[i].thread]
    BY DEF ListTyped
  <2>1. i \in DOMAIN waitList /\ waitList[i] \in Records
    BY <1>1, <1>2
  <2>2. /\ waitList'[i].thread = waitList[i].thread /\ waitList'[i].wait = waitList[i].wait
        /\ waitList'[i].live \in {FALSE, waitList[i].live}
    BY <1>1, <2>1 DEF Records
  <2> QED BY <2>1, <2>2 DEF FlagsTypeOK
<1>4. pc' \in [Callers -> {"user", "asleep", "awoken"}] /\ CallsTyped'
  <2>1. pc \in [Callers -> {"user", "asleep", "awoken"}]
    BY DEF FlagsTypeOK
  <2>2. pc'[t] = "user" /\ \A u \in Callers \ {t} : pc'[u] = pc[u]
    BY <1>1, <2>1
  <2>3. call'[t] = NoWait /\ \A u \in Callers \ {t} : call'[u] = call[u]
    BY <1>1, <1>2
  <2>4. CallsTyped'
    BY <2>2, <2>3 DEF FlagsTypeOK, CallsTyped
  <2> QED BY <1>1, <2>1, <2>4
<1>5. flags' \subseteq Bits /\ overlooked' \subseteq Callers
  <2>1. CASE Answers(t) = "OS_NO_ERR" /\ alive
    <3>1. Consume(TakenLater(call[t], flags))
      BY <2>1 DEF PendReturns
    <3>2. flags \in SUBSET Bits
      BY DEF FlagsTypeOK
    <3> QED BY <1>2, <3>1, <3>2, WaitsWantBits DEF Consume
  <2>2. CASE ~(Answers(t) = "OS_NO_ERR" /\ alive)
    BY <2>2 DEF PendReturns, FlagsTypeOK
  <2> QED BY <2>1, <2>2
<1> QED BY <1>1, <1>3, <1>4, <1>5 DEF FlagsTypeOK, ListTyped, CallsTyped

LEMMA TypeStep == FlagsInv /\ FlagsTypeOK /\ [FlagsNext]_flagVars => FlagsTypeOK'
<1> SUFFICES ASSUME FlagsInv, FlagsTypeOK, [FlagsNext]_flagVars PROVE FlagsTypeOK'
  OBVIOUS
<1>1. CASE Post
  BY <1>1, PostTyped
<1>2. CASE Del
  <2>1. waitList' = <<>> /\ alive' = FALSE /\ UNCHANGED <<flags, threadVars, overlooked>>
    BY <1>2 DEF Del
  <2>2. DOMAIN waitList' = {}
    BY <2>1
  <2> QED BY <2>1, <2>2 DEF threadVars, FlagsTypeOK
<1>3. ASSUME NEW t \in Callers, PendReturns(t) PROVE FlagsTypeOK'
  BY <1>3, PendReturnsTyped
<1>4. ASSUME NEW t \in Callers, WaitEnds(t) \/ Signal(t) PROVE FlagsTypeOK'
  <2>1. /\ pc[t] = "asleep" /\ pc' = [pc EXCEPT ![t] = "awoken"]
        /\ disturbed' = disturbed \cup {t} /\ overlooked' = overlooked \ {t}
        /\ expired' \in {expired, expired \cup {t}}
        /\ UNCHANGED <<alive, flags, waitList, call, ready>>
    BY <1>4 DEF WaitEnds, Signal
  <2>2. pc' \in [Callers -> {"user", "asleep", "awoken"}]
    BY <2>1 DEF FlagsTypeOK
  <2>3. \A u \in Callers : pc'[u] = "user" <=> pc[u] = "user"
    BY <2>1 DEF FlagsTypeOK
  <2> QED BY <2>1, <2>2, <2>3 DEF FlagsTypeOK
<1>5. ASSUME NEW t \in Callers, OtherSleepEnds(t) PROVE FlagsTypeOK'
  BY <1>5 DEF OtherSleepEnds, FlagsTypeOK
<1>6. ASSUME NEW t \in Callers, NEW w \in Waits[t], Accept(t, w) PROVE FlagsTypeOK'
  <2>1. /\ UNCHANGED <<alive, waitList, pc, call, ready, expired, disturbed>>
        /\ Consume(TakenNow(w, flags))
    BY <1>6 DEF Accept, threadVars
  <2>2. flags \in SUBSET Bits
    BY DEF FlagsTypeOK
  <2>3. flags' \subseteq Bits /\ overlooked' \subseteq Callers
    BY <2>1, <2>2, WaitsWantBits DEF Consume
  <2> QED BY <2>1, <2>3 DEF FlagsTypeOK
<1>7. ASSUME NEW t \in Callers, NEW w \in Waits[t], Pend(t, w) PROVE FlagsTypeOK'
  BY <1>7, PendTyped
<1>8. CASE UNCHANGED flagVars
  BY <1>8 DEF flagVars, FlagsTypeOK
<1> QED BY <1>1, <1>2, <1>3, <1>4, <1>5, <1>6, <1>7, <1>8 DEF FlagsNext

\* Every variable keeps its type: in particular a record on the list is of a wait
\* of its own thread, and MicroCOS_flags_ready are bits of the group.
THEOREM FlagsTypeCorrect == FlagsSpec => []FlagsTypeOK
<1>1. FlagsInit => FlagsTypeOK
  BY DEF FlagsInit, FlagsTypeOK
<1> QED BY <1>1, TypeStep, FlagsInvariance, PTL DEF FlagsSpec
=============================================================================
