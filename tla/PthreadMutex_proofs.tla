------------------------ MODULE PthreadMutex_proofs ------------------------
(***************************************************************************)
(* Proofs about PthreadMutex for any set of threads and any bound on       *)
(* nested locks.  The invariant Inv is inductive; the properties checked   *)
(* by the runs follow from it.                                             *)
(***************************************************************************)
EXTENDS PthreadMutex, WaitList_proofs

\* The inductive invariant: the safety invariants of PthreadMutex together.
Inv == TypeOK /\ HeldMatchesOwner /\ QueuesMatchPoints /\ NoLostWakeup
         /\ OwnerDoesNotWait

USE NoThreadAssumption, MaxLocksAssumption

----------------------------------------------------------------------------
\* What one turn of sc_lock preserves, from whichever point it is made.
LEMMA ScLockKeeps ==
  ASSUME Inv, NEW t \in Threads, ScLock(t),
         pc[t] \in {"user", "lock", "condWoken"},
         UNCHANGED <<mtype, waiters, cancelled>>
  PROVE  Inv'
<1> USE DEF Inv
<1>a. /\ owner \in Threads \cup {NoThread} /\ numLocks \in Nat
      /\ blocked \in Seq(Threads) /\ pc \in [Threads -> Points]
      /\ held \in [Threads -> Int] /\ NoRepeat(blocked) /\ NoRepeat(waiters)
      /\ On(blocked) = {u \in Threads : pc[u] = "lockBlocked"}
      /\ On(waiters) = {u \in Threads : pc[u] = "condBlocked"}
  BY DEF TypeOK, QueuesMatchPoints
<1>1. CASE TakeFree(t)
  <2> USE <1>1 DEF TakeFree
  <2>1. TypeOK'
    BY DEF TypeOK, Points
  <2>2. HeldMatchesOwner'
    BY <1>a DEF HeldMatchesOwner
  <2>3. QueuesMatchPoints'
    BY <1>a DEF QueuesMatchPoints, On, NoRepeat
  <2>4. NoLostWakeup' /\ OwnerDoesNotWait'
    BY <1>a DEF NoLostWakeup, OwnerDoesNotWait
  <2> QED BY <2>1, <2>2, <2>3, <2>4
<1>2. CASE Deepen(t)
  <2> USE <1>2 DEF Deepen
  <2>1. TypeOK'
    BY DEF TypeOK, Points
  <2>2. HeldMatchesOwner'
    BY <1>a DEF HeldMatchesOwner
  <2>3. QueuesMatchPoints'
    BY <1>a DEF QueuesMatchPoints, On, NoRepeat
  <2>4. NoLostWakeup' /\ OwnerDoesNotWait'
    BY <1>a DEF NoLostWakeup, OwnerDoesNotWait
  <2> QED BY <2>1, <2>2, <2>3, <2>4
<1>3. CASE RefuseOwn(t)
  <2> USE <1>3 DEF RefuseOwn
  <2>1. TypeOK' /\ HeldMatchesOwner'
    BY DEF TypeOK, Points, HeldMatchesOwner
  <2>3. QueuesMatchPoints'
    BY <1>a DEF QueuesMatchPoints, On, NoRepeat
  <2>4. NoLostWakeup' /\ OwnerDoesNotWait'
    BY <1>a DEF NoLostWakeup, OwnerDoesNotWait
  <2> QED BY <2>1, <2>3, <2>4
<1>4. CASE BlockOnMutex(t)
  <2> USE <1>4 DEF BlockOnMutex
  <2>1. /\ blocked' \in Seq(Threads) /\ NoRepeat(blocked')
        /\ On(blocked') = On(blocked) \cup {t}
    BY <1>a, AppendAdds
  <2>2. TypeOK' /\ HeldMatchesOwner'
    BY <2>1 DEF TypeOK, Points, HeldMatchesOwner
  <2>3. QueuesMatchPoints'
    <3>1. On(blocked') = {u \in Threads : pc'[u] = "lockBlocked"}
      BY <1>a, <2>1
    <3>2. On(waiters') = {u \in Threads : pc'[u] = "condBlocked"}
      BY <1>a
    <3> QED BY <3>1, <3>2, <2>1, <1>a DEF QueuesMatchPoints
  <2>4. NoLostWakeup' /\ OwnerDoesNotWait'
    BY <1>a DEF NoLostWakeup, OwnerDoesNotWait, TypeOK, MutexTypes
  <2> QED BY <2>2, <2>3, <2>4
<1> QED BY <1>1, <1>2, <1>3, <1>4 DEF ScLock

\* What the mutex's unblock() preserves, for a caller that goes back where it
\* was (unlock) or, with the list of the condition variable, to sleep.
LEMMA ReleaseKeeps ==
  ASSUME Inv, NEW t \in Threads, NEW point \in {"user", "cleanup", "condBlocked"},
         ReleaseBy(t, point), pc[t] \in {"user", "cleanup"},
         UNCHANGED <<mtype, cancelled>>,
         IF point = "condBlocked" THEN waiters' = Append(waiters, t)
                                  ELSE UNCHANGED waiters
  PROVE  Inv'
<1> USE DEF Inv
<1>a. /\ owner \in Threads \cup {NoThread} /\ numLocks \in Nat
      /\ blocked \in Seq(Threads) /\ pc \in [Threads -> Points]
      /\ waiters \in Seq(Threads) /\ mtype \in MutexTypes
      /\ held \in [Threads -> Int] /\ NoRepeat(blocked) /\ NoRepeat(waiters)
      /\ On(blocked) = {u \in Threads : pc[u] = "lockBlocked"}
      /\ On(waiters) = {u \in Threads : pc[u] = "condBlocked"}
  BY DEF TypeOK, QueuesMatchPoints
<1>b. /\ waiters' \in Seq(Threads) /\ NoRepeat(waiters')
      /\ On(waiters') = On(waiters) \cup (IF point = "condBlocked" THEN {t} ELSE {})
  <2>1. t \notin On(waiters)
    BY <1>a
  <2>2. CASE point = "condBlocked"
    <3>1. /\ Append(waiters, t) \in Seq(Threads) /\ NoRepeat(Append(waiters, t))
          /\ On(Append(waiters, t)) = On(waiters) \cup {t}
      BY ONLY <1>a, <2>1, AppendAdds, t \in Threads
    <3> QED BY <2>2, <3>1
  <2>3. CASE point # "condBlocked"
    BY <1>a, <2>3
  <2> QED BY <2>2, <2>3
<1>1. CASE FreeAndWake(t, point)
  <2> USE <1>1 DEF FreeAndWake
  <2>1. \A u \in Threads :
          pc'[u] = IF u = t THEN point
                   ELSE IF pc[u] = "lockBlocked" THEN "lock" ELSE pc[u]
    BY <1>a DEF Woken, WokenAt
  <2>2. pc' \in [Threads -> Points]
    BY <1>a DEF Woken, WokenAt, Points
  <2>3. TypeOK'
    BY <1>a, <1>b, <2>2, EmptyList DEF TypeOK
  <2>4. HeldMatchesOwner'
    BY <1>a DEF HeldMatchesOwner, Released
  <2>5. QueuesMatchPoints'
    <3>1. On(blocked') = {u \in Threads : pc'[u] = "lockBlocked"}
      BY <2>1, EmptyList
    <3>2. On(waiters') = {u \in Threads : pc'[u] = "condBlocked"}
      <4>1. CASE point = "condBlocked"
        <5>1. ASSUME NEW u \in Threads
              PROVE  u \in On(waiters') <=> pc'[u] = "condBlocked"
          <6>1. CASE u = t
            BY <1>b, <2>1, <4>1, <6>1
          <6>2. CASE u # t
            <7>1. pc'[u] = IF pc[u] = "lockBlocked" THEN "lock" ELSE pc[u]
              BY <2>1, <6>2
            <7>2. u \in On(waiters') <=> u \in On(waiters)
              BY <1>b, <4>1, <6>2
            <7>3. u \in On(waiters) <=> pc[u] = "condBlocked"
              BY <1>a
            <7> QED BY <7>1, <7>2, <7>3
          <6> QED BY <6>1, <6>2
        <5>2. On(waiters') \subseteq Threads
          BY <1>b, OnInThreads
        <5> QED BY <5>1, <5>2
      <4>2. CASE point # "condBlocked"
        BY <1>a, <1>b, <2>1, <4>2
      <4> QED BY <4>1, <4>2
    <3> QED BY <3>1, <3>2, <1>b, EmptyList DEF QueuesMatchPoints
  <2>6. NoLostWakeup' /\ OwnerDoesNotWait'
    BY <1>a DEF NoLostWakeup, OwnerDoesNotWait
  <2> QED BY <2>3, <2>4, <2>5, <2>6
<1>2. CASE CountDown(t, point)
  <2> USE <1>2 DEF CountDown
  <2>1. numLocks > 1 /\ mtype = "RECURSIVE"
    BY <1>a DEF HeldMatchesOwner, Released
  <2>2. TypeOK'
    BY <1>a, <1>b, <2>1 DEF TypeOK, Points
  <2>3. HeldMatchesOwner'
    BY <1>a, <2>1 DEF HeldMatchesOwner
  <2>4. QueuesMatchPoints'
    BY <1>a, <1>b DEF QueuesMatchPoints
  <2>5. NoLostWakeup' /\ OwnerDoesNotWait'
    BY <1>a, <2>1 DEF NoLostWakeup, OwnerDoesNotWait
  <2> QED BY <2>2, <2>3, <2>4, <2>5
<1>3. CASE NotOwner(t, point)
  <2> USE <1>3 DEF NotOwner
  <2>2. TypeOK'
    BY <1>a, <1>b DEF TypeOK, Points
  <2>3. HeldMatchesOwner'
    BY <1>a DEF HeldMatchesOwner
  <2>4. QueuesMatchPoints'
    BY <1>a, <1>b DEF QueuesMatchPoints
  <2>5. NoLostWakeup' /\ OwnerDoesNotWait'
    BY <1>a DEF NoLostWakeup, OwnerDoesNotWait
  <2> QED BY <2>2, <2>3, <2>4, <2>5
<1> QED BY <1>1, <1>2, <1>3 DEF ReleaseBy

\* What UC_thread_class::unblock of one thread preserves.
LEMMA UnblockKeeps ==
  ASSUME Inv, NEW u \in Threads, Unblock(u), NEW c \in SUBSET Threads,
         cancelled' = c, UNCHANGED <<mtype, owner, numLocks, held>>
  PROVE  Inv'
<1> USE DEF Inv, Unblock
<1>a. /\ blocked \in Seq(Threads) /\ waiters \in Seq(Threads)
      /\ pc \in [Threads -> Points]
      /\ NoRepeat(blocked) /\ NoRepeat(waiters)
      /\ On(blocked) = {t \in Threads : pc[t] = "lockBlocked"}
      /\ On(waiters) = {t \in Threads : pc[t] = "condBlocked"}
  BY DEF TypeOK, QueuesMatchPoints
<1>1. /\ blocked' \in Seq(Threads) /\ On(blocked') = On(blocked) \ {u}
      /\ NoRepeat(blocked')
  BY <1>a, WithoutErases
<1>2. /\ waiters' \in Seq(Threads) /\ On(waiters') = On(waiters) \ {u}
      /\ NoRepeat(waiters')
  BY <1>a, WithoutErases
<1>3. \A t \in Threads :
        pc'[t] = IF t # u THEN pc[t]
                 ELSE IF pc[t] = "lockBlocked" THEN "lock"
                 ELSE IF pc[t] = "condBlocked" THEN "condWoken" ELSE pc[t]
  BY <1>a DEF Woken, WokenAt
<1>4. pc' \in [Threads -> Points]
  BY <1>a DEF Woken, WokenAt, Points
<1>5. TypeOK'
  BY <1>1, <1>2, <1>4 DEF TypeOK
<1>6. HeldMatchesOwner'
  BY DEF HeldMatchesOwner
<1>7. QueuesMatchPoints'
  BY <1>a, <1>1, <1>2, <1>3 DEF QueuesMatchPoints
<1>8. NoLostWakeup'
  <2>1. owner = NoThread => On(blocked') = {}
    BY <1>1, EmptyList DEF NoLostWakeup
  <2>2. On(blocked') = {} => blocked' = <<>>
    <3> SUFFICES ASSUME blocked' # <<>> PROVE On(blocked') # {}
      OBVIOUS
    <3>1. 1 \in 1..Len(blocked')
      BY <1>1
    <3> QED BY <3>1 DEF On
  <2> QED BY <2>1, <2>2 DEF NoLostWakeup
<1>9. OwnerDoesNotWait'
  BY <1>3 DEF OwnerDoesNotWait
<1> QED BY <1>5, <1>6, <1>7, <1>8, <1>9

\* A step that only moves a running thread between "user", "cleanup", "done"
\* or out of a wake-up into cleanup.
LEMMA LeaveKeeps ==
  ASSUME Inv, NEW t \in Threads, NEW c \in SUBSET Threads,
         NEW point \in {"cleanup", "done"},
         pc[t] \in {"user", "lock", "condWoken", "cleanup"},
         pc' = [pc EXCEPT ![t] = point], cancelled' = c,
         UNCHANGED <<mtype, owner, numLocks, blocked, waiters, held>>
  PROVE  Inv'
<1> USE DEF Inv
<1>1. TypeOK'
  BY DEF TypeOK, Points
<1>2. HeldMatchesOwner' /\ NoLostWakeup'
  BY DEF HeldMatchesOwner, NoLostWakeup
<1>3. QueuesMatchPoints' /\ OwnerDoesNotWait'
  BY DEF QueuesMatchPoints, OwnerDoesNotWait, TypeOK, On, NoRepeat
<1> QED BY <1>1, <1>2, <1>3

\* What waking waiters of the condition variable preserves.
LEMMA WakeWaitersKeeps ==
  ASSUME Inv, NEW S \in SUBSET On(waiters), pc' = Woken(S),
         waiters' \in Seq(Threads), On(waiters') = On(waiters) \ S,
         NoRepeat(waiters'),
         UNCHANGED <<mtype, owner, numLocks, blocked, cancelled, held>>
  PROVE  Inv'
<1> USE DEF Inv
<1>a. /\ pc \in [Threads -> Points] /\ S \subseteq Threads
      /\ \A t \in S : pc[t] = "condBlocked"
      /\ On(blocked) = {t \in Threads : pc[t] = "lockBlocked"}
      /\ On(waiters) = {t \in Threads : pc[t] = "condBlocked"}
  BY DEF TypeOK, QueuesMatchPoints
<1>1. \A t \in Threads : pc'[t] = IF t \in S THEN "condWoken" ELSE pc[t]
  BY <1>a DEF Woken, WokenAt
<1>2. pc' \in [Threads -> Points]
  BY <1>a DEF Woken, WokenAt, Points
<1>3. TypeOK'
  BY <1>2 DEF TypeOK
<1>4. HeldMatchesOwner' /\ NoLostWakeup' /\ OwnerDoesNotWait'
  BY <1>a, <1>1 DEF HeldMatchesOwner, NoLostWakeup, OwnerDoesNotWait
<1>5. QueuesMatchPoints'
  <2>1. On(blocked') = {t \in Threads : pc'[t] = "lockBlocked"}
    BY <1>a, <1>1
  <2>2. On(waiters') = {t \in Threads : pc'[t] = "condBlocked"}
    BY <1>a, <1>1
  <2> QED BY <2>1, <2>2 DEF QueuesMatchPoints
<1> QED BY <1>3, <1>4, <1>5

----------------------------------------------------------------------------
\* The invariant holds of a new mutex with all threads in user code.
LEMMA InitInv == Init => Inv
<1> SUFFICES ASSUME Init PROVE Inv
  OBVIOUS
<1> USE DEF Init
<1>1. TypeOK
  BY EmptyList DEF TypeOK, Points
<1>2. HeldMatchesOwner /\ NoLostWakeup
  BY DEF HeldMatchesOwner, NoLostWakeup
<1>3. QueuesMatchPoints /\ OwnerDoesNotWait
  BY EmptyList DEF QueuesMatchPoints, OwnerDoesNotWait
<1> QED BY <1>1, <1>2, <1>3 DEF Inv

\* Every step keeps the invariant.
LEMMA StepInv == Inv /\ [Next]_vars => Inv'
<1> SUFFICES ASSUME Inv, [Next]_vars PROVE Inv'
  OBVIOUS
<1>0. CASE UNCHANGED vars
  BY <1>0 DEF vars, Inv, TypeOK, HeldMatchesOwner, QueuesMatchPoints,
              NoLostWakeup, OwnerDoesNotWait
<1>a. /\ cancelled \in SUBSET Threads /\ waiters \in Seq(Threads)
      /\ blocked \in Seq(Threads) /\ NoRepeat(waiters)
  BY DEF Inv, TypeOK, QueuesMatchPoints
<1>1. ASSUME NEW t \in Threads, Lock(t) PROVE Inv'
  BY <1>1, ScLockKeeps DEF Lock, InUser
<1>2. ASSUME NEW t \in Threads, Retry(t) PROVE Inv'
  BY <1>2, ScLockKeeps DEF Retry
<1>3. ASSUME NEW t \in Threads, Trylock(t) PROVE Inv'
  BY <1>3, ScLockKeeps DEF Trylock, InUser, ScLock
<1>4. ASSUME NEW t \in Threads, Unlock(t) PROVE Inv'
  BY <1>4, ReleaseKeeps DEF Unlock, MayCall, InUser
<1>5. ASSUME NEW t \in Threads, CondWait(t) PROVE Inv'
  BY <1>5, ReleaseKeeps DEF CondWait, InUser
<1>6. ASSUME NEW t \in Threads, Relock(t) PROVE Inv'
  BY <1>6, ScLockKeeps DEF Relock
<1>7. ASSUME NEW t \in Threads, CondSignal(t) PROVE Inv'
  <2> DEFINE S == {Head(waiters)}
  <2>1. /\ S \subseteq On(waiters) /\ Tail(waiters) \in Seq(Threads)
        /\ On(Tail(waiters)) = On(waiters) \ S /\ NoRepeat(Tail(waiters))
    <3>1. Head(waiters) = waiters[1] /\ 1 \in 1..Len(waiters)
      BY <1>7, <1>a DEF CondSignal
    <3> QED BY <3>1, <1>7, <1>a, TailRemovesHead DEF CondSignal, On
  <2> HIDE DEF S
  <2>2. pc' = Woken(S)
    BY <1>7 DEF CondSignal, S
  <2> QED BY <1>7, <2>1, <2>2, WakeWaitersKeeps DEF CondSignal
<1>8. ASSUME NEW t \in Threads, CondBroadcast(t) PROVE Inv'
  BY <1>8, WakeWaitersKeeps, EmptyList DEF CondBroadcast
<1>9. ASSUME NEW t \in Threads, BeginExit(t) PROVE Inv'
  BY <1>9, <1>a, LeaveKeeps DEF BeginExit
<1>10. ASSUME NEW t \in Threads, Exit(t) PROVE Inv'
  BY <1>10, <1>a, LeaveKeeps DEF Exit
<1>11. ASSUME NEW u \in Threads, SignalDelivered(u) PROVE Inv'
  BY <1>11, <1>a, UnblockKeeps DEF SignalDelivered
<1>12. ASSUME NEW t \in Threads, NEW u \in Threads, Cancel(t, u) PROVE Inv'
  BY <1>12, <1>a, UnblockKeeps DEF Cancel
<1> QED
  BY <1>0, <1>1, <1>2, <1>3, <1>4, <1>5, <1>6, <1>7, <1>8, <1>9, <1>10,
     <1>11, <1>12 DEF Next, ThreadStep

\* The inductive invariant holds of every behaviour.
THEOREM Invariance == SafeSpec => []Inv
BY InitInv, StepInv, PTL DEF SafeSpec

\* Every variable keeps its domain.
THEOREM TypeCorrect == SafeSpec => []TypeOK
<1>1. Inv => TypeOK
  BY DEF Inv
<1> QED BY <1>1, Invariance, PTL

\* Mutual exclusion for any number of threads, any type of mutex and any
\* interleaving with cancellations, signals and exits: what the callers were
\* told matches the one owner.
THEOREM MutualExclusion == SafeSpec => []HeldMatchesOwner
<1>1. Inv => HeldMatchesOwner
  BY DEF Inv
<1> QED BY <1>1, Invariance, PTL

\* A thread that holds the mutex excludes every other one.
COROLLARY AtMostOneHolder ==
  SafeSpec => [](\A t, u \in Threads : held[t] > 0 /\ held[u] > 0 => t = u)
<1>1. Inv => \A t, u \in Threads : held[t] > 0 /\ held[u] > 0 => t = u
  BY DEF Inv, TypeOK, HeldMatchesOwner
<1> QED BY <1>1, Invariance, PTL

\* Nobody is ever asleep on a free mutex.
THEOREM NoSleeperOnFreeMutex == SafeSpec => []NoLostWakeup
<1>1. Inv => NoLostWakeup
  BY DEF Inv
<1> QED BY <1>1, Invariance, PTL

\* An owner waits for its own mutex only where the code lets it: in lock() of a
\* default mutex, and in cond_wait() of one it holds more than once.
THEOREM OwnersSleepNowhereElse == SafeSpec => []OwnerDoesNotWait
<1>1. Inv => OwnerDoesNotWait
  BY DEF Inv
<1> QED BY <1>1, Invariance, PTL

\* The lists hold exactly the blocked threads, once each.
THEOREM ListsAreExact == SafeSpec => []QueuesMatchPoints
<1>1. Inv => QueuesMatchPoints
  BY DEF Inv
<1> QED BY <1>1, Invariance, PTL

----------------------------------------------------------------------------
\* A thread that slept in lock() or cond_wait() comes back as the owner: it is
\* never the EDEADLK that cond_wait would drop.
LEMMA StepReturns ==
  Inv /\ [Next]_vars =>
    \A t \in Threads :
      pc[t] \in {"lock", "condWoken"} /\ pc'[t] = "user" => owner' = t
<1> SUFFICES ASSUME Inv, [Next]_vars, NEW t \in Threads,
                    pc[t] \in {"lock", "condWoken"}, pc'[t] = "user"
             PROVE  owner' = t
  OBVIOUS
<1>a. pc \in [Threads -> Points] /\ owner \in Threads \cup {NoThread}
  BY DEF Inv, TypeOK
<1>b. \A S : S \subseteq Threads => Woken(S)[t] # "user" /\ t \in DOMAIN Woken(S)
  BY <1>a DEF Woken, WokenAt
<1>1. ASSUME NEW u \in Threads, ScLock(u), pc[u] \in {"user", "lock", "condWoken"}
      PROVE  owner' = t
  <2>1. CASE u # t
    BY <1>1, <2>1, <1>a DEF ScLock, TakeFree, Deepen, RefuseOwn, BlockOnMutex
  <2>2. CASE u = t
    BY <1>1, <2>2, <1>a DEF ScLock, TakeFree, Deepen, RefuseOwn, BlockOnMutex,
                            Inv, OwnerDoesNotWait
  <2> QED BY <2>1, <2>2
<1>2. ASSUME NEW u \in Threads, NEW point, u # t, ReleaseBy(u, point) PROVE FALSE
  <2>1. On(blocked) \subseteq Threads
    BY OnInThreads DEF Inv, TypeOK
  <2>2. pc'[t] = pc[t] \/ pc'[t] = Woken(On(blocked))[t]
    BY <1>2, <1>a, <1>b, <2>1
       DEF ReleaseBy, FreeAndWake, CountDown, NotOwner, Woken
  <2> QED BY <2>1, <2>2, <1>b
<1>3. ASSUME NEW u \in Threads, Unlock(u) \/ CondWait(u) PROVE FALSE
  BY <1>3, <1>2 DEF Unlock, CondWait, MayCall, InUser
<1>4. ASSUME NEW u \in Threads, CondSignal(u) \/ CondBroadcast(u) PROVE FALSE
  <2>1. \E S : S \subseteq Threads /\ pc' = Woken(S)
    <3>1. waiters \in Seq(Threads) /\ On(waiters) \subseteq Threads
      BY OnInThreads DEF Inv, TypeOK
    <3>2. CASE CondSignal(u)
      BY <3>1, <3>2 DEF CondSignal
    <3>3. CASE CondBroadcast(u)
      BY <3>1, <3>3 DEF CondBroadcast
    <3> QED BY <1>4, <3>2, <3>3
  <2> QED BY <2>1, <1>b
<1>5. ASSUME NEW u \in Threads, Unblock(u) PROVE FALSE
  BY <1>5, <1>b DEF Unblock
<1>6. ASSUME NEW u \in Threads, BeginExit(u) \/ Exit(u) PROVE FALSE
  BY <1>6, <1>a DEF BeginExit, Exit
<1> QED
  BY <1>1, <1>3, <1>4, <1>5, <1>6
     DEF Next, ThreadStep, Lock, Retry, Trylock, Relock, ScLock, InUser,
         SignalDelivered, Cancel, vars

\* lock() and cond_wait() return to their caller with the mutex, however
\* often they slept.
THEOREM SleepersReturnAsOwners == SafeSpec => SleeperReturnsAsOwner
BY Invariance, StepReturns, PTL DEF SafeSpec, SleeperReturnsAsOwner

----------------------------------------------------------------------------
\* Every step of the mutex is a step, or a stutter, of the service.
LEMMA StepRefines == Inv /\ Inv' /\ [Next]_vars => [Service!Next]_(Service!svars)
<1> SUFFICES ASSUME Inv, Inv', [Next]_vars PROVE [Service!Next]_(Service!svars)
  OBVIOUS
<1> DEFINE Inside == {"lockBlocked", "lock"}
           asking == {t \in Threads : pc[t] \in Inside}
<1>a. /\ pc \in [Threads -> Points] /\ owner \in Threads \cup {NoThread}
      /\ On(blocked) = {t \in Threads : pc[t] = "lockBlocked"}
      /\ On(waiters) = {t \in Threads : pc[t] = "condBlocked"}
      /\ blocked \in Seq(Threads) /\ waiters \in Seq(Threads)
  BY DEF Inv, TypeOK, QueuesMatchPoints
<1>0. CASE UNCHANGED vars
  BY <1>0 DEF vars, Service!svars
<1>1. ASSUME NEW t \in Threads, ScLock(t), pc[t] \in {"user", "lock", "condWoken"}
      PROVE  [Service!Next]_(Service!svars)
  <2>1. CASE TakeFree(t)
    <3>1. Service!Grant(t)
      BY <1>a, <2>1 DEF TakeFree, Service!Grant
    <3> QED BY <3>1 DEF Service!Next
  <2>2. CASE Deepen(t)
    BY <1>a, <1>1, <2>2 DEF Deepen, Service!svars, Inv, OwnerDoesNotWait
  <2>3. CASE RefuseOwn(t)
    BY <1>a, <1>1, <2>3 DEF RefuseOwn, Service!svars, Inv, OwnerDoesNotWait
  <2>4. CASE BlockOnMutex(t)
    <3>1. Service!Ask(t)
      BY <1>a, <2>4 DEF BlockOnMutex, Service!Ask
    <3> QED BY <3>1 DEF Service!Next
  <2> QED BY <1>1, <2>1, <2>2, <2>3, <2>4 DEF ScLock
<1>2. ASSUME NEW t \in Threads, NEW point \in {"user", "cleanup", "condBlocked"},
             ReleaseBy(t, point), pc[t] \in {"user", "cleanup"}
      PROVE  [Service!Next]_(Service!svars)
  <2>1. CASE FreeAndWake(t, point)
    <3>1. {u \in Threads : pc'[u] \in Inside} = asking
      BY <1>a, <1>2, <2>1 DEF FreeAndWake, Woken, WokenAt
    <3>2. Service!Release(t)
      BY <2>1, <3>1 DEF FreeAndWake, Released, Service!Release
    <3> QED BY <3>2 DEF Service!Next
  <2>2. CASE CountDown(t, point)
    BY <1>a, <1>2, <2>2 DEF CountDown, Service!svars
  <2>3. CASE NotOwner(t, point)
    BY <1>a, <1>2, <2>3 DEF NotOwner, Service!svars
  <2> QED BY <1>2, <2>1, <2>2, <2>3 DEF ReleaseBy
<1>3. ASSUME NEW S, S \subseteq Threads, pc' = Woken(S), UNCHANGED owner
      PROVE  UNCHANGED Service!svars
  BY <1>3, <1>a DEF Woken, WokenAt, Service!svars
<1>4. ASSUME NEW t \in Threads, Unlock(t) \/ CondWait(t)
      PROVE  [Service!Next]_(Service!svars)
  BY <1>4, <1>2 DEF Unlock, CondWait, MayCall, InUser
<1>5. ASSUME NEW t \in Threads, CondSignal(t) \/ CondBroadcast(t)
      PROVE  UNCHANGED Service!svars
  <2>1. On(waiters) \subseteq Threads /\ (waiters # <<>> => Head(waiters) \in Threads)
    BY <1>a, OnInThreads
  <2> QED BY <1>5, <1>3, <2>1 DEF CondSignal, CondBroadcast
<1>6. ASSUME NEW u \in Threads, Unblock(u), UNCHANGED owner
      PROVE  UNCHANGED Service!svars
  BY <1>6, <1>3 DEF Unblock
<1>7. ASSUME NEW t \in Threads, BeginExit(t) PROVE [Service!Next]_(Service!svars)
  <2>1. CASE pc[t] = "lock"
    <3>1. Service!GiveUp(t)
      BY <1>a, <1>7, <2>1 DEF BeginExit, Service!GiveUp
    <3> QED BY <3>1 DEF Service!Next
  <2>2. CASE pc[t] # "lock"
    BY <1>a, <1>7, <2>2 DEF BeginExit, Service!svars
  <2> QED BY <2>1, <2>2
<1>8. ASSUME NEW t \in Threads, Exit(t) PROVE UNCHANGED Service!svars
  BY <1>a, <1>8 DEF Exit, Service!svars
<1> QED
  BY <1>0, <1>1, <1>4, <1>5, <1>6, <1>7, <1>8
     DEF Next, ThreadStep, Lock, Retry, Trylock, Relock, ScLock, InUser,
         SignalDelivered, Cancel

\* The mutex implements the safety part of its service.
THEOREM Refinement == SafeSpec => Service!SafeSpec
<1>1. Init => Service!Init
  BY DEF Init, Service!Init
<1> QED BY <1>1, Invariance, StepRefines, PTL DEF SafeSpec, Service!SafeSpec
=============================================================================
