------------------------------- MODULE MQueue -------------------------------
(***************************************************************************)
(* One message queue of SCoPE's POSIX layer (rtos/api/posix/uc_mqueue.cpp) *)
(* and the threads of the processes that opened it.                        *)
(*                                                                         *)
(* Messages are kept by priority, equals in the order they came.  Who      *)
(* finds nothing to receive, or no room, blocks on one of two lists; every *)
(* send wakes all receivers and every receive all senders, which then try  *)
(* again.  Whether a call waits at all is read from the process's          *)
(* descriptor at every turn, so that mq_setattr and mq_open reach the      *)
(* calls already waiting.  mq_close takes the queue off Mqueue_List for    *)
(* every process.                                                          *)
(*                                                                         *)
(* Refused calls (EBADF, EMSGSIZE, EINVAL, ENOENT, EEXIST) change nothing  *)
(* and have no action; the process to notify is kept and never used.       *)
(* Steps, wake-ups, deadlines and clock entries are as in Semaphore.       *)
(***************************************************************************)
EXTENDS WaitList, FiniteSets

CONSTANTS Threads, Processes,
          ProcessOf,      \* the process of each thread
          Prios,
          MaxMsg,         \* mq_maxmsg
          Accesses,       \* what the mq_open calls of the run ask for
          TimedCallers,   \* the threads that make timed calls
          Disturbances,   \* which of "signal", "cancel", "setattr", "open",
                          \* "close" happen
          MaxEntries,     \* bound on a thread's entries in the clock's list
          Receive, NoCall

ASSUME ThreadsAssumption == IsFiniteSet(Threads) /\ ProcessOf \in [Threads -> Processes]
ASSUME PriosAssumption == Prios \subseteq Nat
ASSUME MaxMsgAssumption == MaxMsg \in Nat \ {0}
ASSUME AccessesAssumption == Accesses \subseteq SUBSET {"read", "write"}
ASSUME DisturbancesAssumption ==
  /\ TimedCallers \subseteq Threads
  /\ Disturbances \subseteq {"signal", "cancel", "setattr", "open", "close"}
ASSUME BoundsAssumption == MaxEntries \in Nat

\* A call is a receive or the priority of a message to send.
Calls == Prios \cup {Receive}
ASSUME CallsAssumption == NoCall \notin Calls /\ Receive \notin Prios

\* A message is told apart by its priority and the process it came from.
Messages == [priority : Prios, from : Processes]

VARIABLES
  messages,    \* mq_mess_list
  curmsgs,     \* attr.mq_curmsgs
  listed,      \* the queue is in Mqueue_List
  opened,      \* the processes in mqd_opened
  access,      \* read and write of each process's uc_mqd_params
  nonblock,    \* the processes whose params have unblock set
  receivers,   \* blocked_threads
  senders,     \* wr_blocked_threads
  pc,          \* where each thread is, see Points
  call,        \* the call each waiting thread is in
  cancelled,   \* threads whose cancelstate is CANCELED or FINISHED
  expired,     \* threads with m_timeout_expired set
  entries      \* each thread's entries in CLOCK_REALTIME's list_c

descVars == <<listed, opened, access, nonblock>>
clockVars == <<expired, entries>>
vars == <<messages, curmsgs, descVars, receivers, senders, pc, call, cancelled, clockVars>>

\* "blocked", "woken", "timed", "timedWoken", "user", "cleanup" and "done": as
\* in Semaphore.
Points == {"user", "blocked", "woken", "timed", "timedWoken", "cleanup", "done"}
Waiting == {"blocked", "woken", "timed", "timedWoken"}

\* The queue has been created by one process; the others open it later.
Init == /\ messages = <<>> /\ curmsgs = 0
        /\ listed = TRUE
        /\ \E p \in Processes, a \in Accesses :
              /\ opened = {p}
              /\ access = [r \in Processes |-> IF r = p THEN a ELSE {}]
        /\ nonblock = {}
        /\ receivers = <<>> /\ senders = <<>>
        /\ pc = [t \in Threads |-> "user"]
        /\ call = [t \in Threads |-> NoCall]
        /\ cancelled = {}
        /\ expired = {}
        /\ entries = [t \in Threads |-> 0]

InUser(t) == pc[t] = "user" /\ t \notin cancelled
MayCall(t) == InUser(t) \/ pc[t] = "cleanup"

\* find_mqd and find_mqd_params, the entry of every call on a descriptor.
HasDescriptor(t) == listed /\ ProcessOf[t] \in opened

----------------------------------------------------------------------------
\* The tests of the loops in timedsend and timedreceive.

CanGo(c) == IF c = Receive THEN messages # <<>> ELSE Len(messages) < MaxMsg

\* Seeded fault: messages of the same priority are passed.
PlacePassingEquals(q, p) == Cardinality({i \in DOMAIN q : \A j \in 1..i : q[j].priority > p})

\* How many messages stay before one of priority p: up to the first lower one.
Place(q, p) == Cardinality({i \in DOMAIN q : \A j \in 1..i : q[j].priority >= p})

Insert(q, m) == LET n == Place(q, m.priority)
                IN  SubSeq(q, 1, n) \o <<m>> \o SubSeq(q, n + 1, Len(q))

WokenAt(p) == CASE p = "blocked" -> "woken"
                [] p = "timed" -> "timedWoken"
                [] OTHER -> p

Woken(S) == [t \in Threads |-> IF t \in S THEN WokenAt(pc[t]) ELSE pc[t]]

\* The call returns, after waking the threads of S.
Return(t, S) == /\ pc' = [Woken(S) EXCEPT ![t] = "user"]
                /\ call' = [call EXCEPT ![t] = NoCall]

\* Seeded fault: only the first receiver is woken, and may be gone.
PutWakesFirst(t, p) ==
  /\ messages' = Insert(messages, [priority |-> p, from |-> ProcessOf[t]])
  /\ curmsgs' = curmsgs + 1
  /\ receivers' = IF receivers = <<>> THEN <<>> ELSE Tail(receivers)
  /\ Return(t, On(receivers) \ On(receivers'))
  /\ UNCHANGED senders

\* The message goes in, and every receiver is woken.
Put(t, p) == /\ messages' = Insert(messages, [priority |-> p, from |-> ProcessOf[t]])
             /\ curmsgs' = curmsgs + 1
             /\ receivers' = <<>>
             /\ Return(t, On(receivers))
             /\ UNCHANGED senders

\* The first message is taken, and every sender is woken.
Fetch(t) == /\ messages' = Tail(messages)
            /\ curmsgs' = curmsgs - 1
            /\ senders' = <<>>
            /\ Return(t, On(senders))
            /\ UNCHANGED receivers

Serve(t, c) == /\ CanGo(c)
               /\ IF c = Receive THEN Fetch(t) ELSE Put(t, c)

Waits(t, c) == ~CanGo(c) /\ ProcessOf[t] \notin nonblock

\* EAGAIN, also for a thread that waited and finds the descriptor changed.
Refuse(t, c) == /\ ~CanGo(c) /\ ProcessOf[t] \in nonblock
                /\ Return(t, {})
                /\ UNCHANGED <<messages, curmsgs, receivers, senders>>

Block(t, c) == /\ Waits(t, c)
               /\ receivers' = IF c = Receive THEN Append(receivers, t) ELSE receivers
               /\ senders' = IF c = Receive THEN senders ELSE Append(senders, t)
               /\ pc' = [pc EXCEPT ![t] = "blocked"]
               /\ call' = [call EXCEPT ![t] = c]
               /\ UNCHANGED <<messages, curmsgs>>

\* With a deadline the thread sleeps on the clock and is on neither list.
Sleep(t, c) == /\ Waits(t, c)
               /\ entries[t] < MaxEntries
               /\ entries' = [entries EXCEPT ![t] = @ + 1]
               /\ pc' = [pc EXCEPT ![t] = "timed"]
               /\ call' = [call EXCEPT ![t] = c]
               /\ UNCHANGED <<messages, curmsgs, receivers, senders>>

Turn(t, c) == /\ Serve(t, c) \/ Refuse(t, c) \/ Block(t, c)
              /\ UNCHANGED <<descVars, cancelled, clockVars>>

TimedTurn(t, c) == /\ \/ (Serve(t, c) \/ Refuse(t, c)) /\ UNCHANGED entries
                      \/ Sleep(t, c)
                   /\ UNCHANGED <<descVars, cancelled, expired>>

----------------------------------------------------------------------------
Permitted(t, c) == (IF c = Receive THEN "read" ELSE "write") \in access[ProcessOf[t]]

\* mq_send and mq_receive.
Start(t) == /\ InUser(t) /\ HasDescriptor(t)
            /\ \E c \in Calls : Permitted(t, c) /\ Turn(t, c)

\* Seeded fault: a woken thread leaves the loop whatever it finds.
AgainGivesUp(t) == /\ pc[t] = "woken" /\ t \notin cancelled
                   /\ \/ Serve(t, call[t])
                      \/ /\ ~CanGo(call[t])
                         /\ Return(t, {})
                         /\ UNCHANGED <<messages, curmsgs, receivers, senders>>
                   /\ UNCHANGED <<descVars, cancelled, clockVars>>

\* Back from block(): the loop tests again, descriptor included.
Again(t) == /\ pc[t] = "woken" /\ t \notin cancelled
            /\ Turn(t, call[t])

StartTimed(t) == /\ t \in TimedCallers
                 /\ InUser(t) /\ HasDescriptor(t)
                 /\ \E c \in Calls : Permitted(t, c) /\ TimedTurn(t, c)

\* ETIMEDOUT, if the thread's timeout flag was ever set, even if it could go on.
TimedOut(t) == /\ pc[t] = "timedWoken" /\ t \notin cancelled /\ t \in expired
               /\ Return(t, {})
               /\ UNCHANGED <<messages, curmsgs, descVars, receivers, senders,
                              cancelled, clockVars>>

TimedAgain(t) == /\ pc[t] = "timedWoken" /\ t \notin cancelled /\ t \notin expired
                 /\ TimedTurn(t, call[t])

----------------------------------------------------------------------------
\* mq_setattr: only O_NONBLOCK is taken over.
Setattr(t) == /\ "setattr" \in Disturbances
              /\ MayCall(t) /\ HasDescriptor(t)
              /\ nonblock' \in {nonblock \cup {ProcessOf[t]}, nonblock \ {ProcessOf[t]}}
              /\ UNCHANGED <<messages, curmsgs, listed, opened, access, receivers,
                             senders, pc, call, cancelled, clockVars>>

\* mq_open of the existing queue: the process's params are made, or written anew.
Open(t) == /\ "open" \in Disturbances
           /\ MayCall(t) /\ listed
           /\ opened' = opened \cup {ProcessOf[t]}
           /\ \E a \in Accesses : access' = [access EXCEPT ![ProcessOf[t]] = a]
           /\ nonblock' \in {nonblock \cup {ProcessOf[t]}, nonblock \ {ProcessOf[t]}}
           /\ UNCHANGED <<messages, curmsgs, listed, receivers, senders, pc, call,
                          cancelled, clockVars>>

\* mq_close: the process's params go, and the queue leaves Mqueue_List whoever
\* else has it open.
Close(t) == /\ "close" \in Disturbances
            /\ MayCall(t) /\ HasDescriptor(t)
            /\ opened' = opened \ {ProcessOf[t]}
            /\ listed' = FALSE
            /\ UNCHANGED <<messages, curmsgs, access, nonblock, receivers, senders,
                           pc, call, cancelled, clockVars>>

----------------------------------------------------------------------------
\* UC_thread_class::unblock from outside the queue.
Unblock(u) == /\ receivers' = Without(receivers, u)
              /\ senders' = Without(senders, u)
              /\ pc' = Woken({u})
              /\ UNCHANGED <<messages, curmsgs, descVars, call>>

SignalDelivered(u) == /\ "signal" \in Disturbances
                      /\ pc[u] \in {"blocked", "timed"}
                      /\ Unblock(u)
                      /\ UNCHANGED <<cancelled, clockVars>>

\* add_clock_time, for an entry of a sleep that may be long over.
EntryDue(u) == /\ entries[u] > 0
               /\ entries' = [entries EXCEPT ![u] = @ - 1]
               /\ expired' = expired \cup {u}
               /\ Unblock(u)
               /\ UNCHANGED cancelled

Cancel(t, u) == /\ "cancel" \in Disturbances
                /\ MayCall(t)
                /\ pc[u] # "done" /\ u \notin cancelled
                /\ cancelled' = cancelled \cup {u}
                /\ Unblock(u)
                /\ UNCHANGED clockVars

\* testcancel on the way out of a yield, pthread_exit, or the thread's return.
BeginExit(t) == /\ \/ pc[t] = "user"
                   \/ pc[t] \in {"woken", "timedWoken"} /\ t \in cancelled
                /\ pc' = [pc EXCEPT ![t] = "cleanup"]
                /\ call' = [call EXCEPT ![t] = NoCall]
                /\ cancelled' = cancelled \cup {t}
                /\ UNCHANGED <<messages, curmsgs, descVars, receivers, senders, clockVars>>

Exit(t) == /\ pc[t] = "cleanup"
           /\ pc' = [pc EXCEPT ![t] = "done"]
           /\ entries' = [entries EXCEPT ![t] = 0]
           /\ UNCHANGED <<messages, curmsgs, descVars, receivers, senders, call,
                          cancelled, expired>>

----------------------------------------------------------------------------
ThreadStep(t) == \/ Start(t) \/ Again(t)
                 \/ StartTimed(t) \/ TimedOut(t) \/ TimedAgain(t)
                 \/ Setattr(t) \/ Open(t) \/ Close(t) \/ BeginExit(t) \/ Exit(t)

Next == \E t \in Threads : \/ ThreadStep(t)
                           \/ SignalDelivered(t) \/ EntryDue(t)
                           \/ \E u \in Threads : Cancel(t, u)

\* A thread the kernel made READY runs its next segment.
RunWoken(t) == \/ Again(t) \/ TimedOut(t) \/ TimedAgain(t)
               \/ pc[t] \in {"woken", "timedWoken"} /\ BeginExit(t)

Spec == /\ Init /\ [][Next]_vars
        /\ \A t \in Threads : WF_vars(RunWoken(t)) /\ WF_vars(EntryDue(t))

----------------------------------------------------------------------------
TypeOK == /\ messages \in Seq(Messages)
          /\ curmsgs \in Nat
          /\ listed \in BOOLEAN
          /\ opened \in SUBSET Processes
          /\ access \in [Processes -> SUBSET {"read", "write"}]
          /\ nonblock \in SUBSET Processes
          /\ receivers \in Seq(Threads) /\ senders \in Seq(Threads)
          /\ pc \in [Threads -> Points]
          /\ call \in [Threads -> Calls \cup {NoCall}]
          /\ \A t \in Threads : pc[t] \in Waiting <=> call[t] # NoCall
          /\ cancelled \in SUBSET Threads
          /\ expired \in SUBSET Threads
          /\ entries \in [Threads -> Nat]

\* However many senders are woken at once, the queue never holds more than
\* mq_maxmsg messages, and mq_curmsgs is their number.
WithinCapacity == curmsgs = Len(messages) /\ curmsgs <= MaxMsg

\* No lost wake-up: nobody sleeps on the receivers' list while there is a
\* message, nor on the senders' list while there is room, whoever was
\* cancelled or interrupted between the wake-up and its turn.
NoSleeperOnWork == /\ messages # <<>> => receivers = <<>>
                   /\ Len(messages) < MaxMsg => senders = <<>>

\* Each list holds exactly the threads blocked in such a call, once each.
ListsMatchPoints ==
  /\ On(receivers) = {t \in Threads : pc[t] = "blocked" /\ call[t] = Receive}
  /\ On(senders) = {t \in Threads : pc[t] = "blocked" /\ call[t] # Receive}
  /\ NoRepeat(receivers) /\ NoRepeat(senders)

\* A thread that slept in mq_send or mq_receive returns with its message sent
\* or received, unless its process's descriptor was made non-blocking.
SleeperReturnsServed ==
  [][\A t \in Threads :
       pc[t] = "woken" /\ pc'[t] = "user" =>
         \/ ProcessOf[t] \in nonblock
         \/ IF call[t] = Receive THEN Len(messages') < Len(messages)
                                 ELSE Len(messages') > Len(messages)]_vars

Queue ==
  INSTANCE PriorityQueue
    WITH Capacity <- MaxMsg,
         held <- [p \in Prios |->
                    LET own == SelectSeq(messages, LAMBDA m : m.priority = p)
                    IN  [i \in DOMAIN own |-> own[i].from]],
         receiving <- {t \in Threads : pc[t] \in Waiting /\ call[t] = Receive},
         sending <- {<<t, call[t]>> : t \in {u \in Threads : pc[u] \in Waiting
                                                            /\ call[u] # Receive}}

\* Messages come out by priority and age, each once, and everybody who waits
\* although he could be served is served or gives up.
ImplementsQueue == Queue!Spec
=============================================================================
