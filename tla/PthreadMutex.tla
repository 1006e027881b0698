---------------------------- MODULE PthreadMutex ----------------------------
(***************************************************************************)
(* One mutex and one condition variable of SCoPE's POSIX layer             *)
(* (rtos/api/posix/uc_pthread_mutex_class.cpp, uc_pthread.cpp), shared by  *)
(* the threads of a process, with asynchronous cancellation, which is the  *)
(* default (uc_pthread_attr_init).                                         *)
(*                                                                         *)
(* Kernel code between two stp_yield() calls runs alone, so an API call is *)
(* cut only where it yields: in UC_thread_class::block, which pushes the   *)
(* thread on the object's list first.  A step of this module is one such   *)
(* segment.  The scheduler is abstracted to "any thread that is not        *)
(* blocked may run its next segment"; Kernel.tla models it.                *)
(***************************************************************************)
EXTENDS WaitList

CONSTANTS Threads,     \* the threads that use the mutex
          NoThread,    \* NULL in m_owner
          MaxLocks     \* bound on num_locks: guards only TLC's state space

ASSUME NoThreadAssumption == NoThread \notin Threads
ASSUME MaxLocksAssumption == MaxLocks \in Nat

MutexTypes == {"NORMAL", "ERRORCHECK", "RECURSIVE"}

VARIABLES mtype,        \* mutexattr->type; DEFAULT takes NORMAL's branches
          owner,        \* m_owner
          numLocks,     \* num_locks
          blocked,      \* blocked_threads of the mutex
          waiters,      \* blocked_threads of the condition variable
          pc,           \* where each thread is, see Points
          cancelled,    \* threads whose cancelstate is CANCELED or FINISHED
          held          \* history: successful locks minus successful unlocks
                        \* of each thread, as its return values tell it

vars == <<mtype, owner, numLocks, blocked, waiters, pc, cancelled, held>>

(***************************************************************************)
(* "user": in application code.  "lockBlocked": in block() called from     *)
(* sc_lock.  "lock": woken there, about to go round lock()'s loop.         *)
(* "condBlocked": in block() called from cond_wait.  "condWoken": woken    *)
(* there.  "cleanup": in pthread_exit, running cancellation handlers.      *)
(* "done": the thread no longer exists.                                    *)
(***************************************************************************)
Points == {"user", "lockBlocked", "lock", "condBlocked", "condWoken",
           "cleanup", "done"}

Init == /\ mtype \in MutexTypes
        /\ owner = NoThread
        /\ numLocks = 0
        /\ blocked = <<>>
        /\ waiters = <<>>
        /\ pc = [t \in Threads |-> "user"]
        /\ cancelled = {}
        /\ held = [t \in Threads |-> 0]

\* The API wrappers yield before the body, and stp_yield ends a cancelled
\* thread on return: only a thread not cancelled starts a call.
InUser(t) == pc[t] = "user" /\ t \notin cancelled

\* Cancellation handlers run the same calls, with cancelstate FINISHED.
MayCall(t) == InUser(t) \/ pc[t] = "cleanup"

----------------------------------------------------------------------------
\* UC_thread_class::unblock of the threads in S, whichever list each is on.
WokenAt(p) == CASE p = "lockBlocked" -> "lock"
                [] p = "condBlocked" -> "condWoken"
                [] OTHER -> p

Woken(S) == [t \in Threads |-> IF t \in S THEN WokenAt(pc[t]) ELSE pc[t]]

----------------------------------------------------------------------------
(***************************************************************************)
(* sc_lock(), one turn of the loop in lock().  It takes a free mutex,      *)
(* deepens a recursive one of its own, refuses an error-checking one of    *)
(* its own (EDEADLK), and blocks in every other case, a default mutex of   *)
(* its own included.                                                       *)
(***************************************************************************)
\* Seeded fault: the mutex is assumed to be free after a wake-up.
TakeUnchecked(t) == /\ owner = NoThread \/ pc[t] = "lock"
                    /\ owner' = t
                    /\ numLocks' = 1
                    /\ held' = [held EXCEPT ![t] = @ + 1]
                    /\ pc' = [pc EXCEPT ![t] = "user"]
                    /\ UNCHANGED blocked

TakeFree(t) == /\ owner = NoThread
               /\ owner' = t
               /\ numLocks' = numLocks + 1
               /\ held' = [held EXCEPT ![t] = @ + 1]
               /\ pc' = [pc EXCEPT ![t] = "user"]
               /\ UNCHANGED <<blocked>>

Deepen(t) == /\ owner = t /\ mtype = "RECURSIVE"
             /\ numLocks < MaxLocks
             /\ numLocks' = numLocks + 1
             /\ held' = [held EXCEPT ![t] = @ + 1]
             /\ pc' = [pc EXCEPT ![t] = "user"]
             /\ UNCHANGED <<owner, blocked>>

RefuseOwn(t) == /\ owner = t /\ mtype = "ERRORCHECK"
                /\ pc' = [pc EXCEPT ![t] = "user"]
                /\ UNCHANGED <<owner, numLocks, blocked, held>>

\* Seeded fault: every type falls through to default.
BlockAnyType(t) == /\ owner # NoThread
                   /\ blocked' = Append(blocked, t)
                   /\ pc' = [pc EXCEPT ![t] = "lockBlocked"]
                   /\ UNCHANGED <<owner, numLocks, held>>

BlockOnMutex(t) == /\ owner # NoThread
                   /\ owner # t \/ mtype = "NORMAL"
                   /\ blocked' = Append(blocked, t)
                   /\ pc' = [pc EXCEPT ![t] = "lockBlocked"]
                   /\ UNCHANGED <<owner, numLocks, held>>

ScLock(t) == TakeFree(t) \/ Deepen(t) \/ RefuseOwn(t) \/ BlockOnMutex(t)

\* pthread_mutex_lock, first turn.
Lock(t) == /\ InUser(t)
           /\ ScLock(t)
           /\ UNCHANGED <<mtype, waiters, cancelled>>

\* Seeded fault: lock() without its loop.
RetryOnce(t) == /\ pc[t] = "lock" /\ t \notin cancelled
                /\ pc' = [pc EXCEPT ![t] = "user"]
                /\ UNCHANGED <<mtype, owner, numLocks, blocked, waiters, cancelled, held>>

\* lock() after a wake-up: sc_lock returned 1, so the loop tries again.
Retry(t) == /\ pc[t] = "lock" /\ t \notin cancelled
            /\ ScLock(t)
            /\ UNCHANGED <<mtype, waiters, cancelled>>

\* pthread_mutex_trylock: EBUSY (no change) unless free or recursive and own.
Trylock(t) == /\ InUser(t)
              /\ TakeFree(t) \/ Deepen(t)
              /\ UNCHANGED <<mtype, waiters, cancelled>>

----------------------------------------------------------------------------
(***************************************************************************)
(* uc_pthread_mutex_class::unblock(): the last unlock by the owner frees   *)
(* the mutex and wakes every thread on its list, an inner one only counts  *)
(* down, and a caller that is not the owner gets EPERM.  point is where    *)
(* the caller goes next.                                                   *)
(***************************************************************************)
Released(t) == owner = t /\ (numLocks = 1 \/ mtype # "RECURSIVE")

\* Seeded fault: only the first thread of the list is woken.
FreeAndWakeFirst(t, point) ==
  /\ Released(t)
  /\ owner' = NoThread
  /\ numLocks' = 0
  /\ blocked' = IF blocked = <<>> THEN <<>> ELSE Tail(blocked)
  /\ held' = [held EXCEPT ![t] = @ - 1]
  /\ pc' = [Woken(On(blocked) \ On(blocked')) EXCEPT ![t] = point]

\* Seeded fault: num_locks is not reset.
FreeKeepsDepth(t, point) ==
  /\ Released(t)
  /\ owner' = NoThread
  /\ blocked' = <<>>
  /\ held' = [held EXCEPT ![t] = @ - 1]
  /\ pc' = [Woken(On(blocked)) EXCEPT ![t] = point]
  /\ UNCHANGED numLocks

FreeAndWake(t, point) == /\ Released(t)
                         /\ owner' = NoThread
                         /\ numLocks' = 0
                         /\ blocked' = <<>>
                         /\ held' = [held EXCEPT ![t] = @ - 1]
                         /\ pc' = [Woken(On(blocked)) EXCEPT ![t] = point]

CountDown(t, point) == /\ owner = t /\ ~Released(t)
                       /\ numLocks' = numLocks - 1
                       /\ held' = [held EXCEPT ![t] = @ - 1]
                       /\ pc' = [pc EXCEPT ![t] = point]
                       /\ UNCHANGED <<owner, blocked>>

NotOwner(t, point) == /\ owner # t
                      /\ pc' = [pc EXCEPT ![t] = point]
                      /\ UNCHANGED <<owner, numLocks, blocked, held>>

ReleaseBy(t, point) == \/ FreeAndWake(t, point)
                       \/ CountDown(t, point)
                       \/ NotOwner(t, point)

\* pthread_mutex_unlock.
Unlock(t) == /\ MayCall(t)
             /\ ReleaseBy(t, pc[t])
             /\ UNCHANGED <<mtype, waiters, cancelled>>

----------------------------------------------------------------------------
\* pthread_cond_wait up to block(): the result of the mutex's unblock() is
\* ignored, so a caller that does not own it waits all the same.
CondWait(t) == /\ InUser(t)
               /\ ReleaseBy(t, "condBlocked")
               /\ waiters' = Append(waiters, t)
               /\ UNCHANGED <<mtype, cancelled>>

\* The rest of pthread_cond_wait: a first turn of the mutex's lock().
Relock(t) == /\ pc[t] = "condWoken" /\ t \notin cancelled
             /\ ScLock(t)
             /\ UNCHANGED <<mtype, waiters, cancelled>>

CondSignal(t) == /\ MayCall(t)
                 /\ waiters # <<>>
                 /\ waiters' = Tail(waiters)
                 /\ pc' = Woken({Head(waiters)})
                 /\ UNCHANGED <<mtype, owner, numLocks, blocked, cancelled, held>>

CondBroadcast(t) == /\ MayCall(t)
                    /\ waiters # <<>>
                    /\ waiters' = <<>>
                    /\ pc' = Woken(On(waiters))
                    /\ UNCHANGED <<mtype, owner, numLocks, blocked, cancelled, held>>

----------------------------------------------------------------------------
\* UC_thread_class::unblock of one thread, off whichever list it is on.
Unblock(u) == /\ blocked' = Without(blocked, u)
              /\ waiters' = Without(waiters, u)
              /\ pc' = Woken({u})

\* pthread_cancel of a live thread, itself included: mark it and wake it.
Cancel(t, u) == /\ MayCall(t)
                /\ pc[u] # "done" /\ u \notin cancelled
                /\ cancelled' = cancelled \cup {u}
                /\ Unblock(u)
                /\ UNCHANGED <<mtype, owner, numLocks, held>>

\* verify_signal_thread for an unmasked signal: it wakes its target too.  The
\* handler then runs inside block()'s stp_yield and touches neither object.
SignalDelivered(u) == /\ pc[u] \in {"lockBlocked", "condBlocked"}
                      /\ Unblock(u)
                      /\ UNCHANGED <<mtype, owner, numLocks, cancelled, held>>

\* The next return from stp_yield (testcancel), a call of pthread_exit or the
\* return of the start function: the thread's cancellation handlers run.
\* The mutex is not released.
BeginExit(t) == /\ \/ pc[t] = "user"
                   \/ pc[t] \in {"lock", "condWoken"} /\ t \in cancelled
                /\ pc' = [pc EXCEPT ![t] = "cleanup"]
                /\ cancelled' = cancelled \cup {t}
                /\ UNCHANGED <<mtype, owner, numLocks, blocked, waiters, held>>

\* destroy_thread, after the handlers.
Exit(t) == /\ pc[t] = "cleanup"
           /\ pc' = [pc EXCEPT ![t] = "done"]
           /\ UNCHANGED <<mtype, owner, numLocks, blocked, waiters, cancelled, held>>

----------------------------------------------------------------------------
ThreadStep(t) == \/ Lock(t) \/ Retry(t) \/ Trylock(t) \/ Unlock(t)
                 \/ CondWait(t) \/ Relock(t) \/ CondSignal(t) \/ CondBroadcast(t)
                 \/ BeginExit(t) \/ Exit(t)

Next == \E t \in Threads : \/ ThreadStep(t)
                           \/ SignalDelivered(t)
                           \/ \E u \in Threads : Cancel(t, u)

SafeSpec == Init /\ [][Next]_vars

\* A thread the kernel made READY runs its next segment: a retry of lock(),
\* the relock of cond_wait or, once cancelled, its exit.
RunWoken(t) == \/ Retry(t)
               \/ Relock(t)
               \/ pc[t] \in {"lock", "condWoken"} /\ BeginExit(t)

Spec == SafeSpec /\ \A t \in Threads : WF_vars(RunWoken(t))
----------------------------------------------------------------------------
\* Every variable stays in its domain (members of uc_pthread_mutex_class and
\* of UC_thread_class).
TypeOK == /\ mtype \in MutexTypes
          /\ owner \in Threads \cup {NoThread}
          /\ numLocks \in Nat
          /\ blocked \in Seq(Threads)
          /\ waiters \in Seq(Threads)
          /\ pc \in [Threads -> Points]
          /\ cancelled \in SUBSET Threads
          /\ held \in [Threads -> Int]

\* Mutual exclusion: what the callers were told agrees with m_owner and
\* num_locks, through nested locks, ignored results and cancellations, so no
\* two threads believe they hold the mutex; only a recursive one nests.
HeldMatchesOwner == /\ owner = NoThread <=> numLocks = 0
                    /\ mtype # "RECURSIVE" => numLocks <= 1
                    /\ \A t \in Threads : held[t] = IF owner = t THEN numLocks ELSE 0

\* A thread is on the list it is blocked on, once, and on no other: unblock()
\* and the waker's loop can always find it (m_blocked_in_list).
QueuesMatchPoints == /\ On(blocked) = {t \in Threads : pc[t] = "lockBlocked"}
                     /\ On(waiters) = {t \in Threads : pc[t] = "condBlocked"}
                     /\ NoRepeat(blocked)
                     /\ NoRepeat(waiters)

\* No lost wake-up: nobody sleeps on a free mutex, whichever way the owner
\* gave it up (unlock, cond_wait) and whoever was cancelled meanwhile.
NoLostWakeup == owner = NoThread => blocked = <<>>

\* Only a default mutex lets its owner wait for itself; only a recursive one
\* lets its owner sleep in cond_wait still holding it.
OwnerDoesNotWait ==
  \A t \in Threads :
    /\ owner = t /\ pc[t] \in {"lockBlocked", "lock"} => mtype = "NORMAL"
    /\ owner = t /\ pc[t] \in {"condBlocked", "condWoken"} => mtype = "RECURSIVE"

\* A thread that slept in lock() or cond_wait() returns to its caller only as
\* the owner: the result of lock() that cond_wait ignores is never EDEADLK.
SleeperReturnsAsOwner ==
  [][\A t \in Threads :
       pc[t] \in {"lock", "condWoken"} /\ pc'[t] = "user" => owner' = t]_vars

\* If the mutex is free again and again, nobody stays asleep on it forever,
\* even when the threads woken before it are cancelled before they retry.
WaitersGetAChance ==
  \A t \in Threads :
    []<>(owner = NoThread) => (pc[t] = "lockBlocked" ~> pc[t] # "lockBlocked")

\* The mutex implements MutexService: the threads inside a lock (or the
\* relock of cond_wait) are those asking.
Service == INSTANCE MutexService
             WITH holder <- owner,
                  asking <- {t \in Threads : pc[t] \in {"lockBlocked", "lock"}}

\* Every step of the mutex is one the service allows, and a free mutex that is
\* asked for is eventually granted or given up on.
ImplementsService == Service!Spec
=============================================================================
