------------------------------- MODULE RWLock -------------------------------
(***************************************************************************)
(* The read-write locks of SCoPE's POSIX layer                             *)
(* (rtos/api/posix/uc_pthread_rwlock.cpp) and the threads that use them.   *)
(*                                                                         *)
(* A lock keeps its holders in order, each with a count, and the flags     *)
(* rdlock and wrlock.  A thread keeps one number for all its locks,        *)
(* m_in_rwlock: negative while it reads, positive while it writes; lock    *)
(* calls of the other kind answer EDEADLK.  A reader gives way to a writer *)
(* and to whoever of its rank or above is on the list.  The last unlock    *)
(* wakes the whole list, and everybody tries again.                        *)
(*                                                                         *)
(* tryrdlock has no action: it tests init the wrong way round and answers  *)
(* EINVAL on every lock that is initialised.  A refused call (EDEADLK,     *)
(* EBUSY, EPERM, EINVAL) changes nothing and has no action either.  Steps, *)
(* wake-ups and clock entries are as in Semaphore.                         *)
(***************************************************************************)
EXTENDS WaitList, FiniteSets

CONSTANTS Locks, Threads,
          Rank,           \* goodness of each thread
          TimedCallers,   \* the threads that make timed calls
          Disturbances,   \* which of "signal", "cancel", "destroy", "late" happen
          MaxCount,       \* bound on a thread's count on one lock
          MaxNumber,      \* bound on the size of m_in_rwlock
          MaxEntries,     \* bound on a thread's entries in the clock's list
          NoCall

ASSUME FiniteAssumption == IsFiniteSet(Threads)
ASSUME RankAssumption == Rank \in [Threads -> Nat]
ASSUME DisturbancesAssumption ==
  TimedCallers \subseteq Threads /\ Disturbances \subseteq {"signal", "cancel", "destroy", "late"}
ASSUME BoundsAssumption == /\ MaxCount \in Nat \ {0}
                           /\ MaxNumber \in Nat \ {0}
                           /\ MaxEntries \in Nat

Modes == {"rd", "wr"}
Calls == [lock : Locks, mode : Modes]
ASSUME NoCallAssumption == NoCall \notin Calls

VARIABLES
  locking,      \* each lock's holders, in order
  count,        \* each holder's counter, and its entries in m_rwlock_holds
  rdlock,       \* the locks with rdlock set
  wrlock,       \* the locks with wrlock set
  exists,       \* the locks in m_rwlock_list
  blocked,      \* each lock's blocked_threads
  inRwlock,     \* each thread's m_in_rwlock
  pc,           \* where each thread is, see Points
  call,         \* the call each waiting thread is in
  continueLoop, \* threads whose timedrdlock has set continue_loop
  cancelled,    \* threads whose cancelstate is CANCELED or FINISHED
  expired,      \* threads with m_timeout_expired set
  entries,      \* each thread's entries in CLOCK_REALTIME's list_c
  nested        \* history: threads that ever locked a lock they held

lockVars == <<locking, count, rdlock, wrlock, inRwlock, nested>>
clockVars == <<expired, entries>>
vars == <<lockVars, exists, blocked, pc, call, continueLoop, cancelled, clockVars>>

\* "blocked": in block(list); "woken": READY again there.  "timed" and
\* "timedWoken": the same in the clock_nanosleep of block(list, time).
\* "spin": in the loop of a timed call without a yield.  "user", "cleanup" and
\* "done": as in PthreadMutex.
Points == {"user", "blocked", "woken", "timed", "timedWoken", "spin", "cleanup",
           "done"}
Waiting == {"blocked", "woken", "timed", "timedWoken"}

Init == /\ locking = [l \in Locks |-> <<>>]
        /\ count = [l \in Locks |-> [t \in Threads |-> 0]]
        /\ rdlock = {} /\ wrlock = {}
        /\ exists = Locks
        /\ blocked = [l \in Locks |-> <<>>]
        /\ inRwlock = [t \in Threads |-> 0]
        /\ pc = [t \in Threads |-> "user"]
        /\ call = [t \in Threads |-> NoCall]
        /\ continueLoop = {}
        /\ cancelled = {}
        /\ expired = {}
        /\ entries = [t \in Threads |-> 0]
        /\ nested = {}

\* A thread that spins never yields: nothing else happens any more.
Running == \A t \in Threads : pc[t] # "spin"
InUser(t) == Running /\ pc[t] = "user" /\ t \notin cancelled
MayCall(t) == InUser(t) \/ (Running /\ pc[t] = "cleanup")

----------------------------------------------------------------------------
\* What a caller finds when its turn comes.

Outranked(t, l) == \E u \in On(blocked[l]) : Rank[t] <= Rank[u]

\* Seeded fault: a reader looks at the list of those who wait only.
RdPassesWriter(t, l) == ~Outranked(t, l)

MayRead(t, l) == l \notin wrlock /\ ~Outranked(t, l)

\* locking[0], if there is one.
First(l) == {locking[l][i] : i \in {1} \cap DOMAIN locking[l]}

MayWrite(t, l) == l \notin rdlock /\ First(l) \subseteq {t}

MayTake(t, c) == IF c.mode = "rd" THEN MayRead(t, c.lock) ELSE MayWrite(t, c.lock)

\* Seeded fault: the first holder is looked at, m_in_rwlock is not.
AdmittedByFirst(t, c) == t \in First(c.lock) => c.mode = "rd" /\ c.lock \notin wrlock

\* The entry of the calls: EDEADLK otherwise.
Admitted(t, c) ==
  /\ IF c.mode = "rd" THEN inRwlock[t] <= 0 ELSE inRwlock[t] >= 0
  /\ t \in First(c.lock) => c.mode = "rd" /\ c.lock \notin wrlock

\* The bounds cut first calls only: a waiting thread's turns are never cut.
InBounds(t, l) == /\ count[l][t] < MaxCount
                  /\ inRwlock[t] \in 1 - MaxNumber..MaxNumber - 1

\* The lock is t's: its element of locking, the flag and m_in_rwlock.
Record(t, c) ==
  /\ locking' = [locking EXCEPT ![c.lock] =
                   IF count[c.lock][t] = 0 THEN Append(@, t) ELSE @]
  /\ count' = [count EXCEPT ![c.lock][t] = @ + 1]
  /\ rdlock' = IF c.mode = "rd" THEN rdlock \cup {c.lock} ELSE rdlock
  /\ wrlock' = IF c.mode = "wr" THEN wrlock \cup {c.lock} ELSE wrlock
  /\ inRwlock' = [inRwlock EXCEPT ![t] = IF c.mode = "rd" THEN @ - 1 ELSE @ + 1]
  /\ nested' = IF count[c.lock][t] > 0 THEN nested \cup {t} ELSE nested

\* The call returns.
Return(t) == /\ pc' = [pc EXCEPT ![t] = "user"]
             /\ call' = [call EXCEPT ![t] = NoCall]
             /\ continueLoop' = continueLoop \ {t}

----------------------------------------------------------------------------
\* One turn of the loops in rdlock and wrlock.
TakeTurn(t, c) == /\ MayTake(t, c)
                  /\ Record(t, c)
                  /\ Return(t)
                  /\ UNCHANGED blocked

BlockTurn(t, c) == /\ ~MayTake(t, c)
                   /\ blocked' = [blocked EXCEPT ![c.lock] = Append(@, t)]
                   /\ pc' = [pc EXCEPT ![t] = "blocked"]
                   /\ call' = [call EXCEPT ![t] = c]
                   /\ UNCHANGED <<lockVars, continueLoop>>

Turn(t, c) == /\ TakeTurn(t, c) \/ BlockTurn(t, c)
              /\ UNCHANGED <<exists, cancelled, clockVars>>

Lock(t) == /\ InUser(t)
           /\ \E c \in Calls : /\ c.lock \in exists /\ InBounds(t, c.lock)
                               /\ Admitted(t, c)
                               /\ Turn(t, c)

\* Seeded fault: the woken thread returns without the lock.
AgainGivesUp(t) == /\ Running /\ pc[t] = "woken" /\ t \notin cancelled
                   /\ Return(t)
                   /\ UNCHANGED <<lockVars, blocked, exists, cancelled, clockVars>>

\* Back from block(): the loop tests again.
LockAgain(t) == /\ Running /\ pc[t] = "woken" /\ t \notin cancelled
                /\ Turn(t, call[t])

\* trywrlock: a writer may lock again what it holds.
TryWrlock(t) ==
  /\ InUser(t) /\ inRwlock[t] >= 0
  /\ \E l \in exists : InBounds(t, l) /\ TakeTurn(t, [lock |-> l, mode |-> "wr"])
  /\ UNCHANGED <<exists, cancelled, clockVars>>

----------------------------------------------------------------------------
\* One turn of the loops in timedrdlock and timedwrlock.  The first sets
\* continue_loop when a waiter of its rank makes it sleep and never resets it,
\* so that a later turn with nobody in the way does not leave the loop.  A
\* deadline already past sleeps like one ahead: its unsigned counter is huge.
BackToLoop(t, c, point) ==
  /\ ~MayTake(t, c)
  /\ pc' = [pc EXCEPT ![t] = point]
  /\ call' = [call EXCEPT ![t] = c]
  /\ continueLoop' = IF c.mode = "rd" /\ c.lock \notin wrlock
                     THEN continueLoop \cup {t} ELSE continueLoop
  /\ UNCHANGED lockVars

SleepTurn(t, c) ==
  /\ BackToLoop(t, c, "timed")
  /\ entries[t] < MaxEntries
  /\ entries' = [entries EXCEPT ![t] = @ + 1]

\* "late": the deadline is the current tick, or malformed.  clock_nanosleep
\* returns without a yield and without the timeout flag, its result is ignored,
\* and so the loop turns for ever; with the flag set by an earlier timeout the
\* call answers ETIMEDOUT.
LateTurn(t, c) ==
  /\ "late" \in Disturbances /\ t \notin expired
  /\ BackToLoop(t, c, "spin")
  /\ UNCHANGED <<blocked, exists, cancelled, clockVars>>

SpinTurn(t, c) == /\ MayTake(t, c) /\ t \in continueLoop
                  /\ pc' = [pc EXCEPT ![t] = "spin"]
                  /\ UNCHANGED <<lockVars, call, continueLoop, entries>>

TimedTurn(t, c) == /\ \/ /\ t \notin continueLoop
                         /\ TakeTurn(t, c)
                         /\ UNCHANGED entries
                      \/ SleepTurn(t, c)
                      \/ SpinTurn(t, c)
                   /\ UNCHANGED <<blocked, exists, cancelled, expired>>

TimedLock(t) ==
  /\ t \in TimedCallers
  /\ InUser(t)
  /\ \E c \in Calls : /\ c.lock \in exists /\ InBounds(t, c.lock)
                      /\ Admitted(t, c)
                      /\ TimedTurn(t, c) \/ LateTurn(t, c)

\* ETIMEDOUT, if the thread's timeout flag was ever set.
TimedOut(t) == /\ Running /\ pc[t] = "timedWoken" /\ t \notin cancelled /\ t \in expired
               /\ Return(t)
               /\ UNCHANGED <<lockVars, exists, blocked, cancelled, clockVars>>

TimedAgain(t) == /\ Running /\ pc[t] = "timedWoken"
                 /\ t \notin cancelled /\ t \notin expired
                 /\ TimedTurn(t, call[t])

----------------------------------------------------------------------------
WokenAt(p) == CASE p = "blocked" -> "woken"
                [] p = "timed" -> "timedWoken"
                [] OTHER -> p

Woken(S) == [u \in Threads |-> IF u \in S THEN WokenAt(pc[u]) ELSE pc[u]]

\* Seeded fault: the last unlock clears the flags and wakes nobody.
EmptiedSilently(S, point, t) ==
  /\ rdlock' = rdlock \ S
  /\ wrlock' = wrlock \ S
  /\ pc' = [pc EXCEPT ![t] = point]
  /\ UNCHANGED blocked

\* The locks of S have no holder left: flags down, everybody on the list woken.
Emptied(S, point, t) ==
  /\ rdlock' = rdlock \ S
  /\ wrlock' = wrlock \ S
  /\ blocked' = [l \in Locks |-> IF l \in S THEN <<>> ELSE blocked[l]]
  /\ pc' = [Woken(UNION {On(blocked[l]) : l \in S}) EXCEPT ![t] = point]

\* An inner unlock counts down and leaves m_in_rwlock as it is.
UnlockInner(t, l) ==
  /\ count[l][t] > 1
  /\ count' = [count EXCEPT ![l][t] = @ - 1]
  /\ UNCHANGED <<locking, rdlock, wrlock, inRwlock, blocked, pc>>

UnlockLast(t, l) ==
  /\ count[l][t] = 1
  /\ count' = [count EXCEPT ![l][t] = 0]
  /\ locking' = [locking EXCEPT ![l] = Without(@, t)]
  /\ Emptied({x \in {l} : locking'[x] = <<>>}, pc[t], t)
  /\ inRwlock' = [inRwlock EXCEPT ![t] = IF @ > 0 THEN @ - 1 ELSE @ + 1]

Unlock(t) == /\ MayCall(t)
             /\ \E l \in exists : UnlockInner(t, l) \/ UnlockLast(t, l)
             /\ UNCHANGED <<exists, call, continueLoop, cancelled, clockVars, nested>>

\* pthread_rwlock_destroy: EBUSY while held.  The object itself stays: threads
\* already inside a call go on with it.
Destroy(t) == /\ "destroy" \in Disturbances
              /\ MayCall(t)
              /\ \E l \in exists \ (rdlock \cup wrlock) : exists' = exists \ {l}
              /\ UNCHANGED <<lockVars, blocked, pc, call, continueLoop, cancelled, clockVars>>

----------------------------------------------------------------------------
\* UC_thread_class::unblock from outside the lock.
Unblock(u) == /\ Running
              /\ blocked' = [l \in Locks |-> Without(blocked[l], u)]
              /\ pc' = Woken({u})
              /\ UNCHANGED <<lockVars, exists, call, continueLoop>>

SignalDelivered(u) == /\ "signal" \in Disturbances
                      /\ pc[u] \in {"blocked", "timed"}
                      /\ Unblock(u)
                      /\ UNCHANGED <<cancelled, clockVars>>

\* Seeded fault: the thread is not told that its time is over.
EntryDueUnmarked(u) == /\ entries[u] > 0
                       /\ entries' = [entries EXCEPT ![u] = @ - 1]
                       /\ Unblock(u)
                       /\ UNCHANGED <<cancelled, expired>>

\* add_clock_time, for an entry of a sleep that may be long over.
EntryDue(u) == /\ entries[u] > 0
               /\ entries' = [entries EXCEPT ![u] = @ - 1]
               /\ expired' = expired \cup {u}
               /\ Unblock(u)
               /\ UNCHANGED cancelled

Cancel(t, u) == /\ "cancel" \in Disturbances
                /\ MayCall(t)
                /\ pc[u] # "done" /\ u \notin cancelled
                /\ cancelled' = cancelled \cup {u}
                /\ Unblock(u)
                /\ UNCHANGED clockVars

\* The start routine returns: destroy_thread takes the thread's clock entries
\* and releases nothing, so that what it holds stays locked for ever.
Finish(t) == /\ InUser(t)
             /\ pc' = [pc EXCEPT ![t] = "done"]
             /\ entries' = [entries EXCEPT ![t] = 0]
             /\ UNCHANGED <<lockVars, exists, blocked, call, continueLoop, cancelled, expired>>

\* testcancel on the way out of a yield, or pthread_exit.
BeginExit(t) == /\ Running
                /\ \/ pc[t] = "user"
                   \/ pc[t] \in {"woken", "timedWoken"} /\ t \in cancelled
                /\ pc' = [pc EXCEPT ![t] = "cleanup"]
                /\ call' = [call EXCEPT ![t] = NoCall]
                /\ continueLoop' = continueLoop \ {t}
                /\ cancelled' = cancelled \cup {t}
                /\ UNCHANGED <<lockVars, exists, blocked, clockVars>>

HeldBy(t) == {l \in Locks : count[l][t] > 0}

\* Seeded fault: each lock is released once, however often it was taken.
ExitReleasesOnce(t) ==
  /\ Running /\ pc[t] = "cleanup"
  /\ count' = [l \in Locks |-> [count[l] EXCEPT ![t] = IF @ > 0 THEN @ - 1 ELSE 0]]
  /\ locking' = [l \in Locks |-> IF count'[l][t] = 0 THEN Without(locking[l], t)
                                 ELSE locking[l]]
  /\ Emptied({l \in HeldBy(t) : locking'[l] = <<>>}, "done", t)
  /\ inRwlock' = [inRwlock EXCEPT ![t] = 0]
  /\ entries' = [entries EXCEPT ![t] = 0]
  /\ UNCHANGED <<exists, call, continueLoop, cancelled, expired, nested>>

\* The rest of pthread_exit, and only that, releases every lock, as often as it
\* was taken, and the thread's clock entries go.
Exit(t) == /\ Running /\ pc[t] = "cleanup"
           /\ count' = [l \in Locks |-> [count[l] EXCEPT ![t] = 0]]
           /\ locking' = [l \in Locks |-> Without(locking[l], t)]
           /\ Emptied({l \in HeldBy(t) : locking'[l] = <<>>}, "done", t)
           /\ inRwlock' = [inRwlock EXCEPT ![t] = 0]
           /\ entries' = [entries EXCEPT ![t] = 0]
           /\ UNCHANGED <<exists, call, continueLoop, cancelled, expired, nested>>

----------------------------------------------------------------------------
ThreadStep(t) == \/ Lock(t) \/ LockAgain(t) \/ TryWrlock(t)
                 \/ TimedLock(t) \/ TimedOut(t) \/ TimedAgain(t)
                 \/ Unlock(t) \/ Destroy(t) \/ Finish(t) \/ BeginExit(t) \/ Exit(t)

Next == \E t \in Threads : \/ ThreadStep(t)
                           \/ SignalDelivered(t) \/ EntryDue(t)
                           \/ \E u \in Threads : Cancel(t, u)

SafeSpec == Init /\ [][Next]_vars

\* A thread the kernel made READY runs its next segment.
RunWoken(t) == \/ LockAgain(t) \/ TimedOut(t) \/ TimedAgain(t)
               \/ pc[t] \in {"woken", "timedWoken"} /\ BeginExit(t)

Spec == SafeSpec /\ \A t \in Threads : WF_vars(RunWoken(t)) /\ WF_vars(EntryDue(t))

----------------------------------------------------------------------------
TypeOK == /\ locking \in [Locks -> Seq(Threads)]
          /\ count \in [Locks -> [Threads -> Nat]]
          /\ rdlock \in SUBSET Locks /\ wrlock \in SUBSET Locks
          /\ exists \in SUBSET Locks
          /\ blocked \in [Locks -> Seq(Threads)]
          /\ inRwlock \in [Threads -> Int]
          /\ pc \in [Threads -> Points]
          /\ call \in [Threads -> Calls \cup {NoCall}]
          /\ \A t \in Threads : pc[t] \in Waiting => call[t] # NoCall
          /\ continueLoop \in SUBSET Threads
          /\ cancelled \in SUBSET Threads
          /\ expired \in SUBSET Threads
          /\ entries \in [Threads -> Nat]
          /\ nested \in SUBSET Threads

\* Readers together or one writer alone: the flags say exactly who holds the
\* lock, through recursive locks, interrupted waits, and holders that end by
\* pthread_exit, which releases, or by returning, which does not.
FlagsMatchHolders ==
  \A l \in Locks :
    /\ On(locking[l]) = {t \in Threads : count[l][t] > 0}
    /\ NoRepeat(locking[l])
    /\ locking[l] = <<>> <=> l \notin rdlock \cup wrlock
    /\ l \in wrlock => l \notin rdlock /\ Len(locking[l]) = 1

\* m_in_rwlock tells what a thread holds, of all its locks together; a thread
\* that holds none has 0, unless it ever locked a lock it held: an inner
\* unlock leaves the number behind, and the lock calls of the other kind
\* answer EDEADLK from then on.
NumberMatchesHoldings ==
  \A t \in Threads :
    /\ \A l \in HeldBy(t) : IF l \in wrlock THEN inRwlock[t] > 0 ELSE inRwlock[t] < 0
    /\ HeldBy(t) = {} /\ inRwlock[t] # 0 => t \in nested

\* No lost wake-up: nobody sleeps on the list of a lock without a holder.
NoSleeperOnFreeLock == \A l \in Locks : locking[l] = <<>> => blocked[l] = <<>>

\* A list holds exactly the threads blocked for its lock, once each.
ListsMatchPoints ==
  \A l \in Locks :
    /\ On(blocked[l]) = {t \in Threads : pc[t] = "blocked" /\ call[t].lock = l}
    /\ NoRepeat(blocked[l])

\* Only a reader that locks again what it holds, and met a waiter of its rank,
\* waits for itself: a writer, or a first lock, never does.
WaitsForOthers ==
  \A t \in Threads :
    pc[t] \in Waiting /\ count[call[t].lock][t] > 0
      => call[t].mode = "rd" /\ call[t].lock \in rdlock

\* A thread that slept in rdlock or wrlock returns as a holder, in the mode it
\* asked for.
SleeperReturnsAsHolder ==
  [][\A t \in Threads :
       pc[t] = "woken" /\ pc'[t] = "user" =>
         /\ count'[call[t].lock][t] > 0
         /\ call[t].lock \in IF call[t].mode = "rd" THEN rdlock' ELSE wrlock']_vars

\* A timed call that turns for ever without a yield asks for a lock it cannot
\* have, with a deadline that does not make it sleep; a reader whom the clock
\* alone wakes never turns so over a lock it could take.
SpinsOnTakenLock ==
  "signal" \notin Disturbances =>
    \A t \in Threads : pc[t] = "spin" => ~MayTake(t, call[t])

Service ==
  INSTANCE RWService
    WITH readers <- [l \in Locks |-> IF l \in rdlock THEN On(locking[l]) ELSE {}],
         writers <- [l \in Locks |-> IF l \in wrlock THEN On(locking[l]) ELSE {}],
         asking <- [l \in Locks |->
                      {t \in Threads : pc[t] \in Waiting /\ call[t].lock = l}]

\* Every grant is one the service allows, and as long as nobody spins, a free
\* lock that is asked for is granted or given up on.
ImplementsService == Service!SafeSpec /\ ([]Running => Service!Liveness)
=============================================================================
