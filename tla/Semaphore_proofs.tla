-------------------------- MODULE Semaphore_proofs --------------------------
(***************************************************************************)
(* Proofs about Semaphore for any finite set of threads, any initial       *)
(* values, any disturbances and any bounds.                                *)
(***************************************************************************)
EXTENDS Semaphore, WaitList_proofs, FiniteSetTheorems

\* Without timed waits there are neither timed waiters nor clock entries.
NoTimedSleeper == "timed" \notin Disturbances
                    => TimedCharged = {} /\ \A t \in Threads : entries[t] = 0

\* The inductive invariant.  NoTokenIgnored needs TokenAccounting: a waiter
\* blocks on a counter that is not positive, and only the books tell that
\* there is then no token either.
Inv == /\ TypeOK
       /\ ListMatchesPoints
       /\ TokenAccounting
       /\ NeverOvergranted
       /\ NoTimedSleeper
       /\ NoTokenIgnored

USE ThreadsAssumption, BoundsAssumption

----------------------------------------------------------------------------
\* The timed waiters can be counted.
LEMMA TimedChargedFinite ==
  /\ IsFiniteSet(TimedCharged) /\ Cardinality(TimedCharged) \in Nat
  /\ IsFiniteSet(TimedCharged)' /\ Cardinality(TimedCharged)' \in Nat
<1>1. IsFiniteSet(TimedCharged) /\ IsFiniteSet(TimedCharged')
  <2>1. TimedCharged \subseteq Threads /\ TimedCharged' \subseteq Threads
    BY DEF TimedCharged
  <2> QED BY <2>1, FS_Subset
<1> QED BY <1>1, FS_CardinalityType

\* The parts of the invariant that the step lemmas use again and again.
LEMMA Facts ==
  ASSUME Inv
  PROVE  /\ counter \in Int /\ tokens \in Int /\ lost \in Nat
         /\ blocked \in Seq(Threads) /\ NoRepeat(blocked)
         /\ pc \in [Threads -> Points] /\ entries \in [Threads -> Nat]
         /\ On(blocked) = {t \in Threads : pc[t] = "blocked"}
         /\ Len(blocked) \in Nat /\ Cardinality(TimedCharged) \in Nat
         /\ counter + Len(blocked) + Cardinality(TimedCharged) + lost = tokens
         /\ tokens >= 0
BY TimedChargedFinite
   DEF Inv, TypeOK, ListMatchesPoints, TokenAccounting, NeverOvergranted

\* A step after which the same threads are blocked and the books balance;
\* tokens and lost move in the only ways the actions move them.
LEMMA SameListKeeps ==
  ASSUME Inv, TypeOK', UNCHANGED blocked,
         \A t \in Threads : pc'[t] = "blocked" <=> pc[t] = "blocked",
         TokenAccounting', NoTimedSleeper',
         tokens' = tokens \/ (tokens' = tokens - 1 /\ tokens > 0),
         lost' = lost \/ lost' = lost + 1
  PROVE  Inv'
<1>1. ListMatchesPoints'
  BY Facts DEF ListMatchesPoints
<1>2. NeverOvergranted'
  BY Facts DEF NeverOvergranted
<1>3. NoTokenIgnored'
  <2>1. lost' = 0 => lost = 0
    BY Facts
  <2>2. tokens' > 0 => tokens > 0
    BY Facts DEF TypeOK
  <2> QED BY <2>1, <2>2 DEF Inv, NoTokenIgnored
<1> QED BY <1>1, <1>2, <1>3 DEF Inv

\* A positive counter means there is a token.
LEMMA CounterIsBacked ==
  ASSUME Inv, counter > 0 PROVE tokens > 0
BY Facts

\* One thread more among the charged timed waiters.
LEMMA TimedJoins ==
  ASSUME NEW t \in Threads, t \notin TimedCharged,
         TimedCharged' = TimedCharged \cup {t}
  PROVE  Cardinality(TimedCharged') = Cardinality(TimedCharged) + 1
BY TimedChargedFinite, FS_AddElement

\* One thread less among them.
LEMMA TimedLeaves ==
  ASSUME NEW t \in Threads, t \in TimedCharged,
         TimedCharged' = TimedCharged \ {t}
  PROVE  Cardinality(TimedCharged') = Cardinality(TimedCharged) - 1
BY TimedChargedFinite, FS_RemoveElement

----------------------------------------------------------------------------
\* One turn of sem_wait's loop.
LEMMA WaitTurnKeeps ==
  ASSUME Inv, NEW t \in Threads, pc[t] \in {"user", "woken"}, WaitTurn(t)
  PROVE  Inv'
<1> USE DEF WaitTurn
<1>1. TimedCharged' = TimedCharged
  BY Facts DEF TimedCharged, TakeToken, ChargeAndBlock
<1>2. CASE TakeToken(t) /\ UNCHANGED blocked
  <2> USE <1>2 DEF TakeToken
  <2>1. TypeOK'
    BY Facts DEF Inv, TypeOK, Points
  <2>2. NoTimedSleeper'
    BY <1>1 DEF Inv, NoTimedSleeper
  <2>3. TokenAccounting'
    BY <1>1, Facts DEF TokenAccounting
  <2>4. \A u \in Threads : pc'[u] = "blocked" <=> pc[u] = "blocked"
    BY Facts
  <2> QED BY <2>1, <2>2, <2>3, <2>4, CounterIsBacked, SameListKeeps
<1>3. CASE ChargeAndBlock(t)
  <2> USE <1>3 DEF ChargeAndBlock
  <2>a. t \notin On(blocked)
    BY Facts
  <2>b. /\ blocked' \in Seq(Threads) /\ NoRepeat(blocked')
        /\ On(blocked') = On(blocked) \cup {t} /\ Len(blocked') = Len(blocked) + 1
    BY <2>a, Facts, AppendAdds
  <2>1. TypeOK'
    BY <2>b, Facts DEF Inv, TypeOK, Points
  <2>2. ListMatchesPoints'
    BY <2>b, Facts DEF ListMatchesPoints
  <2>3. TokenAccounting' /\ NeverOvergranted'
    BY <1>1, <2>b, Facts DEF TokenAccounting, NeverOvergranted
  <2>4. NoTimedSleeper'
    BY <1>1 DEF Inv, NoTimedSleeper
  <2>5. NoTokenIgnored'
    <3> SUFFICES ASSUME lost = 0, "timed" \notin Disturbances PROVE ~(tokens > 0)
      BY DEF NoTokenIgnored
    <3>1. CASE blocked = <<>>
      <4>1. TimedCharged = {}
        BY DEF Inv, NoTimedSleeper
      <4>2. Len(blocked) = 0 /\ Cardinality(TimedCharged) = 0
        BY <3>1, <4>1, FS_EmptySet
      <4> QED BY <4>2, Facts
    <3>2. CASE blocked # <<>>
      BY <3>2 DEF Inv, NoTokenIgnored
    <3> QED BY <3>1, <3>2
  <2> QED BY <2>1, <2>2, <2>3, <2>4, <2>5 DEF Inv
<1> QED BY <1>2, <1>3

\* One turn of sem_timedwait's loop: the first, or one after a signal.
LEMMA TimedTurnKeeps ==
  ASSUME Inv, NEW t \in Threads, TimedTurn(t), "timed" \in Disturbances,
         \/ pc[t] = "user" /\ UNCHANGED lost
         \/ pc[t] = "timedWoken" /\ lost' = lost + 1
  PROVE  Inv'
<1> USE DEF TimedTurn
<1>0. NoTimedSleeper'
  BY DEF NoTimedSleeper
<1>1. CASE TakeToken(t) /\ UNCHANGED entries
  <2> USE <1>1 DEF TakeToken
  <2>1. TypeOK'
    BY Facts DEF Inv, TypeOK, Points
  <2>2. TokenAccounting'
    <3>1. CASE pc[t] = "user" /\ UNCHANGED lost
      <4>1. TimedCharged' = TimedCharged
        BY <3>1, Facts DEF TimedCharged
      <4> QED BY <3>1, <4>1, Facts DEF TokenAccounting
    <3>2. CASE pc[t] = "timedWoken" /\ lost' = lost + 1
      <4>1. t \in TimedCharged /\ TimedCharged' = TimedCharged \ {t}
        BY <3>2, Facts DEF TimedCharged
      <4>2. Cardinality(TimedCharged') = Cardinality(TimedCharged) - 1
        BY <4>1, TimedLeaves
      <4> QED BY <3>2, <4>2, Facts DEF TokenAccounting
    <3> QED BY <3>1, <3>2
  <2>3. \A u \in Threads : pc'[u] = "blocked" <=> pc[u] = "blocked"
    BY Facts
  <2> QED BY <1>0, <2>1, <2>2, <2>3, CounterIsBacked, SameListKeeps
<1>2. CASE ChargeAndSleep(t)
  <2> USE <1>2 DEF ChargeAndSleep
  <2>1. TypeOK'
    BY Facts DEF Inv, TypeOK, Points
  <2>2. TokenAccounting'
    <3>1. CASE pc[t] = "user" /\ UNCHANGED lost
      <4>1. t \notin TimedCharged /\ TimedCharged' = TimedCharged \cup {t}
        BY <3>1, Facts DEF TimedCharged
      <4>2. Cardinality(TimedCharged') = Cardinality(TimedCharged) + 1
        BY <4>1, TimedJoins
      <4> QED BY <3>1, <4>2, Facts DEF TokenAccounting
    <3>2. CASE pc[t] = "timedWoken" /\ lost' = lost + 1
      <4>1. TimedCharged' = TimedCharged
        BY <3>2, Facts DEF TimedCharged
      <4> QED BY <3>2, <4>1, Facts DEF TokenAccounting
    <3> QED BY <3>1, <3>2
  <2>3. \A u \in Threads : pc'[u] = "blocked" <=> pc[u] = "blocked"
    BY Facts
  <2> QED BY <1>0, <2>1, <2>2, <2>3, SameListKeeps
<1> QED BY <1>1, <1>2

\* A timed waiter that timed out pays itself back.
LEMMA TimedOutKeeps ==
  ASSUME Inv, NEW t \in Threads, TimedOut(t) PROVE Inv'
<1> USE DEF TimedOut
<1>1. TypeOK'
  BY Facts DEF Inv, TypeOK, Points
<1>2. t \in TimedCharged /\ TimedCharged' = TimedCharged \ {t}
  BY Facts DEF TimedCharged
<1>3. Cardinality(TimedCharged') = Cardinality(TimedCharged) - 1
  BY <1>2, TimedLeaves
<1>4. TokenAccounting'
  BY <1>3, Facts DEF TokenAccounting
<1>5. NoTimedSleeper'
  BY <1>2 DEF Inv, NoTimedSleeper
<1>6. \A u \in Threads : pc'[u] = "blocked" <=> pc[u] = "blocked"
  BY Facts
<1> QED BY <1>1, <1>4, <1>5, <1>6, SameListKeeps

\* sem_post: everybody on the list is paid back.
LEMMA PostKeeps ==
  ASSUME Inv, NEW t \in Threads, Post(t) PROVE Inv'
<1> USE DEF Post
<1>1. \A u \in Threads :
        pc'[u] = IF pc[u] = "blocked" THEN "woken" ELSE pc[u]
  BY Facts DEF Woken, WokenAt
<1>2. pc' \in [Threads -> Points]
  BY Facts DEF Woken, WokenAt, Points
<1>3. TimedCharged' = TimedCharged
  BY <1>1 DEF TimedCharged
<1>4. TypeOK'
  BY <1>2, Facts DEF Inv, TypeOK
<1>5. ListMatchesPoints'
  BY <1>1, EmptyList DEF ListMatchesPoints
<1>6. TokenAccounting' /\ NeverOvergranted'
  <2>1. Len(blocked') = 0
    OBVIOUS
  <2> QED BY <1>3, <2>1, Facts DEF TokenAccounting, NeverOvergranted
<1>7. NoTimedSleeper' /\ NoTokenIgnored'
  BY <1>3 DEF Inv, NoTimedSleeper, NoTokenIgnored
<1> QED BY <1>4, <1>5, <1>6, <1>7 DEF Inv

\* UC_thread_class::unblock by anybody but sem_post.
LEMMA UnblockKeeps ==
  ASSUME Inv, NEW u \in Threads, Unblock(u), UNCHANGED <<counter, tokens>>,
         exists' \in BOOLEAN, cancelled' \in SUBSET Threads,
         sigexec' \in SUBSET Threads, expired' \in SUBSET Threads,
         entries' \in [Threads -> Nat],
         \A t \in Threads : entries'[t] <= entries[t]
  PROVE  Inv'
<1> USE DEF Unblock
<1>1. \A t \in Threads : pc'[t] = IF t = u THEN WokenAt(pc[t]) ELSE pc[t]
  BY Facts DEF Woken
<1>2. pc' \in [Threads -> Points]
  BY Facts DEF Woken, WokenAt, Points
<1>3. TimedCharged' = TimedCharged
  BY <1>1 DEF TimedCharged, WokenAt
<1>4. /\ blocked' \in Seq(Threads) /\ On(blocked') = On(blocked) \ {u}
      /\ NoRepeat(blocked')
      /\ Len(blocked') = IF u \in On(blocked) THEN Len(blocked) - 1 ELSE Len(blocked)
  BY Facts, WithoutErases
<1>5. u \in On(blocked) <=> pc[u] = "blocked"
  BY Facts
<1>6. TypeOK'
  <2>1. lost' \in Nat /\ counter' \in Int /\ tokens' \in Int
    BY Facts
  <2> QED BY <1>2, <1>4, <2>1 DEF TypeOK
<1>7. ListMatchesPoints'
  BY <1>1, <1>4, Facts DEF ListMatchesPoints, WokenAt
<1>8. TokenAccounting' /\ NeverOvergranted'
  BY <1>3, <1>4, <1>5, Facts DEF TokenAccounting, NeverOvergranted
<1>9. NoTimedSleeper'
  <2> SUFFICES ASSUME "timed" \notin Disturbances
               PROVE  TimedCharged' = {} /\ \A t \in Threads : entries'[t] = 0
    BY DEF NoTimedSleeper
  <2>1. TimedCharged = {} /\ \A t \in Threads : entries[t] = 0
    BY DEF Inv, NoTimedSleeper
  <2> QED BY <1>3, <2>1
<1>10. NoTokenIgnored'
  <2>1. CASE pc[u] = "blocked"
    BY <2>1, Facts DEF NoTokenIgnored
  <2>2. CASE pc[u] # "blocked"
    BY <1>5, <2>2 DEF Inv, NoTokenIgnored, Without
  <2> QED BY <2>1, <2>2
<1> QED BY <1>6, <1>7, <1>8, <1>9, <1>10 DEF Inv

\* A thread begins to exit; a timed waiter takes its charge with it.
LEMMA BeginExitKeeps ==
  ASSUME Inv, NEW t \in Threads, BeginExit(t) PROVE Inv'
<1> USE DEF BeginExit
<1>1. TypeOK'
  BY Facts DEF Inv, TypeOK, Points
<1>2. \A u \in Threads : pc'[u] = "blocked" <=> pc[u] = "blocked"
  BY Facts
<1>3. TokenAccounting' /\ NoTimedSleeper'
  <2>1. CASE pc[t] = "timedWoken"
    <3>1. t \in TimedCharged /\ TimedCharged' = TimedCharged \ {t}
      BY <2>1, Facts DEF TimedCharged
    <3>2. Cardinality(TimedCharged') = Cardinality(TimedCharged) - 1
      BY <3>1, TimedLeaves
    <3>3. TokenAccounting'
      BY <2>1, <3>2, Facts DEF TokenAccounting
    <3>4. NoTimedSleeper'
      BY <3>1 DEF Inv, NoTimedSleeper
    <3> QED BY <3>3, <3>4
  <2>2. CASE pc[t] # "timedWoken"
    <3>1. TimedCharged' = TimedCharged
      BY <2>2, Facts DEF TimedCharged
    <3>2. TokenAccounting'
      BY <2>2, <3>1, Facts DEF TokenAccounting
    <3>3. NoTimedSleeper'
      BY <3>1 DEF Inv, NoTimedSleeper
    <3> QED BY <3>2, <3>3
  <2> QED BY <2>1, <2>2
<1> QED BY <1>1, <1>2, <1>3, SameListKeeps

\* WaitInterrupted, Destroy and Exit move no token.
LEMMA QuietKeeps ==
  ASSUME Inv, NEW t \in Threads,
         WaitInterrupted(t) \/ Destroy(t) \/ Exit(t)
  PROVE  Inv'
<1> USE DEF WaitInterrupted, Destroy, Exit
<1>1. TypeOK'
  <2>1. pc' \in [Threads -> Points] /\ entries' \in [Threads -> Nat]
    <3>1. CASE WaitInterrupted(t)
      BY <3>1, Facts DEF Points
    <3>2. CASE Exit(t)
      BY <3>2, Facts DEF Points
    <3>3. CASE Destroy(t)
      BY <3>3, Facts
    <3> QED BY <3>1, <3>2, <3>3
  <2>2. /\ UNCHANGED <<counter, blocked, tokens, lost, sigexec>>
        /\ exists' \in {exists, FALSE} /\ cancelled' = cancelled
        /\ expired' = expired
    OBVIOUS
  <2> QED BY <2>1, <2>2 DEF Inv, TypeOK
<1>2. TimedCharged' = TimedCharged
  BY Facts DEF TimedCharged
<1>3. TokenAccounting'
  BY <1>2, Facts DEF TokenAccounting
<1>4. NoTimedSleeper'
  BY <1>2, Facts DEF Inv, NoTimedSleeper
<1>5. \A u \in Threads : pc'[u] = "blocked" <=> pc[u] = "blocked"
  BY Facts
<1>6. UNCHANGED <<blocked, tokens, lost>>
  OBVIOUS
<1> QED BY <1>1, <1>3, <1>4, <1>5, <1>6, SameListKeeps

----------------------------------------------------------------------------
\* The invariant holds of a new semaphore with all threads in user code.
LEMMA InitInv == Init => Inv
<1> SUFFICES ASSUME Init PROVE Inv
  OBVIOUS
<1> USE DEF Init
<1>1. TimedCharged = {} /\ Cardinality(TimedCharged) = 0
  BY FS_EmptySet DEF TimedCharged
<1>2. counter \in Nat /\ Len(blocked) = 0
  BY ValuesAssumption
<1>3. TypeOK
  BY <1>2 DEF TypeOK, Points
<1>4. ListMatchesPoints
  BY EmptyList DEF ListMatchesPoints
<1>5. TokenAccounting /\ NeverOvergranted
  BY <1>1, <1>2 DEF TokenAccounting, NeverOvergranted
<1>6. NoTimedSleeper /\ NoTokenIgnored
  BY <1>1 DEF NoTimedSleeper, NoTokenIgnored
<1> QED BY <1>3, <1>4, <1>5, <1>6 DEF Inv

\* Every step keeps the invariant.
LEMMA StepInv == Inv /\ [Next]_vars => Inv'
<1> SUFFICES ASSUME Inv, [Next]_vars PROVE Inv'
  OBVIOUS
<1>0. CASE UNCHANGED vars
  BY <1>0 DEF vars, Inv, TypeOK, ListMatchesPoints, TokenAccounting, TimedCharged,
              NeverOvergranted, NoTimedSleeper, NoTokenIgnored
<1>a. /\ exists \in BOOLEAN /\ cancelled \in SUBSET Threads
      /\ sigexec \in SUBSET Threads /\ expired \in SUBSET Threads
      /\ entries \in [Threads -> Nat]
  BY DEF Inv, TypeOK
<1>1. ASSUME NEW t \in Threads, Wait(t) \/ WaitAgain(t) PROVE Inv'
  BY <1>1, WaitTurnKeeps DEF Wait, WaitAgain, InUser
<1>2. ASSUME NEW t \in Threads, Trywait(t) PROVE Inv'
  BY <1>2, WaitTurnKeeps DEF Trywait, InUser, WaitTurn, TakeToken
<1>3. ASSUME NEW t \in Threads, TimedWait(t) \/ TimedAgain(t) PROVE Inv'
  <2>1. "timed" \in Disturbances
    <3>1. CASE "timed" \notin Disturbances
      <4>1. pc[t] # "timedWoken"
        BY <3>1 DEF Inv, NoTimedSleeper, TimedCharged
      <4> QED BY <1>3, <4>1 DEF TimedWait, TimedAgain
    <3> QED BY <3>1
  <2> QED BY <1>3, <2>1, TimedTurnKeeps DEF TimedWait, TimedAgain, InUser
<1>4. ASSUME NEW t \in Threads, TimedOut(t) PROVE Inv'
  BY <1>4, TimedOutKeeps
<1>5. ASSUME NEW t \in Threads, Post(t) PROVE Inv'
  BY <1>5, PostKeeps
<1>6. ASSUME NEW t \in Threads, BeginExit(t) PROVE Inv'
  BY <1>6, BeginExitKeeps
<1>7. ASSUME NEW t \in Threads,
             WaitInterrupted(t) \/ Destroy(t) \/ Exit(t)
      PROVE  Inv'
  BY <1>7, QuietKeeps
<1>8. ASSUME NEW u \in Threads, SignalDelivered(u) PROVE Inv'
  BY <1>8, <1>a, UnblockKeeps DEF SignalDelivered
<1>9. ASSUME NEW u \in Threads, EntryDue(u) PROVE Inv'
  <2>1. entries' \in [Threads -> Nat] /\ \A t \in Threads : entries'[t] <= entries[t]
    BY <1>9, <1>a DEF EntryDue
  <2> QED BY <1>9, <1>a, <2>1, UnblockKeeps DEF EntryDue
<1>10. ASSUME NEW t \in Threads, NEW u \in Threads, Cancel(t, u) PROVE Inv'
  BY <1>10, <1>a, UnblockKeeps DEF Cancel
<1> QED
  BY <1>0, <1>1, <1>2, <1>3, <1>4, <1>5, <1>6, <1>7, <1>8, <1>9, <1>10
     DEF Next, ThreadStep

\* The inductive invariant holds of every behaviour.
THEOREM Invariance == SafeSpec => []Inv
BY InitInv, StepInv, PTL DEF SafeSpec

\* Every variable keeps its domain.
THEOREM TypeCorrect == SafeSpec => []TypeOK
<1>1. Inv => TypeOK
  BY DEF Inv
<1> QED BY <1>1, Invariance, PTL

\* uc_sem_wait, uc_sem_timedwait and uc_sem_post account for every token and
\* every charge, whatever wakes the waiters.
THEOREM BooksBalance == SafeSpec => []TokenAccounting
<1>1. Inv => TokenAccounting
  BY DEF Inv
<1> QED BY <1>1, Invariance, PTL

\* A wait that succeeds had a token, for any threads and any disturbances.
THEOREM NoOvergrant == SafeSpec => []NeverOvergranted
<1>1. Inv => NeverOvergranted
  BY DEF Inv
<1> QED BY <1>1, Invariance, PTL

\* Undisturbed, nobody sleeps on the list while there is a token.
THEOREM NoSleeperOnToken == SafeSpec => []NoTokenIgnored
<1>1. Inv => NoTokenIgnored
  BY DEF Inv
<1> QED BY <1>1, Invariance, PTL

\* The list holds exactly the threads blocked in sem_wait, once each.
THEOREM ListIsExact == SafeSpec => []ListMatchesPoints
<1>1. Inv => ListMatchesPoints
  BY DEF Inv
<1> QED BY <1>1, Invariance, PTL

----------------------------------------------------------------------------
\* Every step of the semaphore is a step, or a stutter, of the pool.
LEMMA StepRefines == Inv /\ [Next]_vars => [Pool!Next]_(Pool!pvars)
<1> SUFFICES ASSUME Inv, [Next]_vars PROVE [Pool!Next]_(Pool!pvars)
  OBVIOUS
<1> DEFINE Inside == {"blocked", "woken", "timed", "timedWoken"}
           asking == {t \in Threads : pc[t] \in Inside}
<1>a. /\ pc \in [Threads -> Points] /\ counter \in Int /\ tokens \in Int
      /\ On(blocked) = {t \in Threads : pc[t] = "blocked"}
  BY Facts
<1>0. CASE UNCHANGED vars
  BY <1>0 DEF vars, Pool!pvars
<1>1. ASSUME NEW t \in Threads, TakeToken(t) PROVE Pool!Take(t)
  <2>1. tokens > 0
    BY <1>1, CounterIsBacked DEF TakeToken
  <2>2. {u \in Threads : pc'[u] \in Inside} = asking \ {t}
    BY <1>1, <1>a DEF TakeToken
  <2> QED BY <1>1, <2>1, <2>2 DEF TakeToken, Pool!Take
<1>2. ASSUME NEW t \in Threads, ChargeAndBlock(t) \/ ChargeAndSleep(t)
      PROVE  Pool!Ask(t)
  <2>1. {u \in Threads : pc'[u] \in Inside} = asking \cup {t}
    BY <1>2, <1>a DEF ChargeAndBlock, ChargeAndSleep
  <2> QED BY <1>2, <2>1 DEF ChargeAndBlock, ChargeAndSleep, Pool!Ask
<1>3. ASSUME NEW S, S \subseteq Threads, pc' = Woken(S)
      PROVE  {u \in Threads : pc'[u] \in Inside} = asking
  BY <1>3, <1>a DEF Woken, WokenAt
<1>4. ASSUME NEW t \in Threads, Post(t) PROVE Pool!Put
  <2>1. On(blocked) \subseteq Threads
    BY <1>a
  <2> QED BY <1>3, <1>4, <2>1 DEF Post, Pool!Put
<1>5. ASSUME NEW u \in Threads, Unblock(u), UNCHANGED tokens
      PROVE  UNCHANGED Pool!pvars
  BY <1>3, <1>5 DEF Unblock, Pool!pvars
<1>6. ASSUME NEW t \in Threads, pc[t] # "cleanup", NEW p \in {"user", "cleanup"},
             pc' = [pc EXCEPT ![t] = p], UNCHANGED tokens
      PROVE  Pool!GiveUp(t)
  <2>1. {u \in Threads : pc'[u] \in Inside} = asking \ {t}
    BY <1>6, <1>a
  <2> QED BY <1>6, <2>1 DEF Pool!GiveUp
<1>7. ASSUME NEW t \in Threads, Exit(t) PROVE UNCHANGED Pool!pvars
  BY <1>7, <1>a DEF Exit, Pool!pvars
<1>8. ASSUME NEW t \in Threads, Destroy(t)
      PROVE  UNCHANGED Pool!pvars
  BY <1>8 DEF Destroy, Pool!pvars
<1>9. ASSUME NEW t \in Threads, ThreadStep(t)
      PROVE  [Pool!Next]_(Pool!pvars)
  <2>1. CASE Wait(t) \/ WaitAgain(t)
    BY <2>1, <1>1, <1>2 DEF Wait, WaitAgain, WaitTurn, Pool!Next
  <2>2. CASE TimedWait(t) \/ TimedAgain(t)
    BY <2>2, <1>1, <1>2 DEF TimedWait, TimedAgain, TimedTurn, Pool!Next
  <2>3. CASE Trywait(t)
    BY <2>3, <1>1 DEF Trywait, Pool!Next
  <2>4. CASE WaitInterrupted(t) \/ TimedOut(t) \/ BeginExit(t)
    BY <2>4, <1>6 DEF WaitInterrupted, TimedOut, BeginExit, Pool!Next
  <2> QED BY <1>9, <2>1, <2>2, <2>3, <2>4, <1>4, <1>7, <1>8
             DEF ThreadStep, Pool!Next
<1> QED
  BY <1>0, <1>5, <1>8, <1>9 DEF Next, SignalDelivered, EntryDue, Cancel

\* The semaphore implements the safety part of the pool, disturbed or not.
THEOREM Refinement == SafeSpec => HandsOutTokens
<1>1. Init => Pool!Init
  <2>1. ASSUME Init PROVE tokens \in Nat
    BY <2>1, ValuesAssumption DEF Init
  <2> QED BY <2>1 DEF Init, Pool!Init
<1> QED BY <1>1, Invariance, StepRefines, PTL DEF SafeSpec, Pool!SafeSpec, HandsOutTokens
=============================================================================
