------------------------------ MODULE Semaphore ------------------------------
(***************************************************************************)
(* One semaphore of SCoPE's POSIX layer (rtos/api/posix/uc_semaphore.cpp)  *)
(* and the threads that use it, with signals, cancellation and timed       *)
(* waits.                                                                  *)
(*                                                                         *)
(* A waiter that finds no token decrements the counter before it blocks    *)
(* (it is "charged"), and a post pays back every waiter it wakes.  A timed *)
(* waiter is charged too but sleeps on the clock only: block(list, time)   *)
(* does not put it on the semaphore's list.  Two flags of the thread are   *)
(* never reset and change what a later wait returns: m_signal_executed and *)
(* m_timeout_expired.                                                      *)
(*                                                                         *)
(* A step is the code between two stp_yield() calls; the scheduler is      *)
(* abstracted to "any thread that is not blocked may run".  Deadlines lie  *)
(* in the future.                                                          *)
(***************************************************************************)
EXTENDS WaitList, FiniteSets

CONSTANTS Threads,        \* the threads that use the semaphore
          InitialValues,  \* the values it is created with
          Disturbances,   \* which of "timed", "signal", "cancel" happen
          MaxTokens,      \* bound on the tokens present at once
          MaxLost,        \* bound on the charges that are never paid back
          MaxEntries      \* bound on a thread's entries in the clock's list

ASSUME ThreadsAssumption == IsFiniteSet(Threads)
ASSUME ValuesAssumption == InitialValues \subseteq Nat
ASSUME DisturbancesAssumption == Disturbances \subseteq {"timed", "signal", "cancel"}
ASSUME BoundsAssumption == /\ MaxTokens \in Nat
                           /\ MaxLost \in Nat
                           /\ MaxEntries \in Nat

VARIABLES counter,     \* sem->counter
          exists,      \* the semaphore is in Semaphores_List
          blocked,     \* sem->blocked_threads
          pc,          \* where each thread is, see Points
          cancelled,   \* threads whose cancelstate is CANCELED or FINISHED
          sigexec,     \* threads with m_signal_executed set
          expired,     \* threads with m_timeout_expired set
          entries,     \* each thread's entries in CLOCK_REALTIME's list_c
          tokens,      \* history: initial value plus posts minus successful waits
          lost         \* history: charges nobody will pay back

vars == <<counter, exists, blocked, pc, cancelled, sigexec, expired, entries,
          tokens, lost>>

\* "blocked": in block(list) of sem_wait; "woken": READY again there.
\* "timed", "timedWoken": the same in the clock_nanosleep of sem_timedwait.
\* "user", "cleanup", "done": as in PthreadMutex.
Points == {"user", "blocked", "woken", "timed", "timedWoken", "cleanup", "done"}

Init == /\ counter \in InitialValues
        /\ tokens = counter
        /\ exists = TRUE
        /\ blocked = <<>>
        /\ pc = [t \in Threads |-> "user"]
        /\ cancelled = {}
        /\ sigexec = {}
        /\ expired = {}
        /\ entries = [t \in Threads |-> 0]
        /\ lost = 0

InUser(t) == pc[t] = "user" /\ t \notin cancelled
MayCall(t) == InUser(t) \/ pc[t] = "cleanup"

----------------------------------------------------------------------------
\* Seeded fault: the loop's test is not repeated after a wake-up.
TakeUnchecked(t) == /\ counter > 0 \/ pc[t] = "woken"
                    /\ counter' = counter - 1
                    /\ tokens' = tokens - 1
                    /\ pc' = [pc EXCEPT ![t] = "user"]

\* The test of the while loops, when it lets the caller through.
TakeToken(t) == /\ counter > 0
                /\ counter' = counter - 1
                /\ tokens' = tokens - 1
                /\ pc' = [pc EXCEPT ![t] = "user"]

\* The body of sem_wait's loop, up to the yield in block().
ChargeAndBlock(t) == /\ counter <= 0
                     /\ counter' = counter - 1
                     /\ blocked' = Append(blocked, t)
                     /\ pc' = [pc EXCEPT ![t] = "blocked"]
                     /\ UNCHANGED tokens

\* The body of sem_timedwait's loop, up to the yield in clock_nanosleep.
ChargeAndSleep(t) == /\ counter <= 0
                     /\ entries[t] < MaxEntries
                     /\ counter' = counter - 1
                     /\ entries' = [entries EXCEPT ![t] = @ + 1]
                     /\ pc' = [pc EXCEPT ![t] = "timed"]
                     /\ UNCHANGED tokens

WaitTurn(t) == /\ \/ TakeToken(t) /\ UNCHANGED blocked
                  \/ ChargeAndBlock(t)
               /\ UNCHANGED <<exists, cancelled, sigexec, expired, entries, lost>>

TimedTurn(t) == /\ \/ TakeToken(t) /\ UNCHANGED entries
                   \/ ChargeAndSleep(t)
                /\ UNCHANGED <<exists, blocked, cancelled, sigexec, expired>>

Wait(t) == InUser(t) /\ exists /\ WaitTurn(t)

\* After block(): EINTR if any signal handler ever ran in this thread,
\* otherwise back to the loop's test.
WaitInterrupted(t) ==
  /\ pc[t] = "woken" /\ t \notin cancelled /\ t \in sigexec
  /\ pc' = [pc EXCEPT ![t] = "user"]
  /\ UNCHANGED <<counter, exists, blocked, cancelled, sigexec, expired, entries,
                 tokens, lost>>

WaitAgain(t) == /\ pc[t] = "woken" /\ t \notin cancelled /\ t \notin sigexec
                /\ WaitTurn(t)

Trywait(t) == /\ InUser(t) /\ exists
              /\ TakeToken(t)
              /\ UNCHANGED <<exists, blocked, cancelled, sigexec, expired,
                             entries, lost>>

TimedWait(t) == /\ "timed" \in Disturbances
                /\ InUser(t) /\ exists
                /\ TimedTurn(t)
                /\ UNCHANGED lost

\* Seeded fault: a timed-out waiter does not pay itself back.
TimedOutUnpaid(t) ==
  /\ pc[t] = "timedWoken" /\ t \notin cancelled /\ t \in expired
  /\ pc' = [pc EXCEPT ![t] = "user"]
  /\ UNCHANGED <<counter, exists, blocked, cancelled, sigexec, expired, entries,
                 tokens, lost>>

\* After block(list, time): ETIMEDOUT, paying itself back, if the thread's
\* timeout flag was ever set.
TimedOut(t) ==
  /\ pc[t] = "timedWoken" /\ t \notin cancelled /\ t \in expired
  /\ counter' = counter + 1
  /\ pc' = [pc EXCEPT ![t] = "user"]
  /\ UNCHANGED <<exists, blocked, cancelled, sigexec, expired, entries, tokens, lost>>

\* Woken by a signal: the loop goes on and the first charge is forgotten.
TimedAgain(t) == /\ pc[t] = "timedWoken" /\ t \notin cancelled /\ t \notin expired
                 /\ TimedTurn(t)
                 /\ lost < MaxLost
                 /\ lost' = lost + 1

----------------------------------------------------------------------------
WokenAt(p) == CASE p = "blocked" -> "woken"
                [] p = "timed" -> "timedWoken"
                [] OTHER -> p

Woken(S) == [t \in Threads |-> IF t \in S THEN WokenAt(pc[t]) ELSE pc[t]]

\* Seeded fault: the waiters are woken but stay charged.
PostUnpaid(t) == /\ MayCall(t) /\ exists
                 /\ tokens < MaxTokens
                 /\ tokens' = tokens + 1
                 /\ counter' = counter + 1
                 /\ blocked' = <<>>
                 /\ pc' = Woken(On(blocked))
                 /\ UNCHANGED <<exists, cancelled, sigexec, expired, entries, lost>>

\* sem_post: one token, every waiter on the list paid back and woken.
Post(t) == /\ MayCall(t) /\ exists
           /\ tokens < MaxTokens
           /\ tokens' = tokens + 1
           /\ counter' = counter + 1 + Len(blocked)
           /\ blocked' = <<>>
           /\ pc' = Woken(On(blocked))
           /\ UNCHANGED <<exists, cancelled, sigexec, expired, entries, lost>>

\* sem_destroy, sem_close: off Semaphores_List whoever waits; later calls fail.
Destroy(t) == /\ MayCall(t) /\ exists
              /\ exists' = FALSE
              /\ UNCHANGED <<counter, blocked, pc, cancelled, sigexec, expired,
                             entries, tokens, lost>>

----------------------------------------------------------------------------
\* UC_thread_class::unblock by somebody other than sem_post: off the list and
\* READY, but the charge of a sem_wait stays.
Unblock(u) == /\ blocked' = Without(blocked, u)
              /\ pc' = Woken({u})
              /\ pc[u] = "blocked" => lost < MaxLost
              /\ lost' = IF pc[u] = "blocked" THEN lost + 1 ELSE lost

\* verify_signal_thread wakes its target; the handler runs before the call
\* looks at its flags.  A sleeper's clock entry stays where it is.
SignalDelivered(u) == /\ "signal" \in Disturbances
                      /\ pc[u] \notin {"cleanup", "done"}
                      /\ sigexec' = sigexec \cup {u}
                      /\ Unblock(u)
                      /\ UNCHANGED <<counter, exists, cancelled, expired, entries,
                                     tokens>>

\* add_clock_time takes a due entry off list_c: it marks its thread and
\* unblocks it, be it still in that sleep or not.
EntryDue(u) == /\ entries[u] > 0
               /\ entries' = [entries EXCEPT ![u] = @ - 1]
               /\ expired' = expired \cup {u}
               /\ Unblock(u)
               /\ UNCHANGED <<counter, exists, cancelled, sigexec, tokens>>

\* uc_pthread_cancel by t of u.
Cancel(t, u) == /\ "cancel" \in Disturbances
                /\ MayCall(t)
                /\ pc[u] # "done" /\ u \notin cancelled
                /\ cancelled' = cancelled \cup {u}
                /\ Unblock(u)
                /\ UNCHANGED <<counter, exists, sigexec, expired, entries, tokens>>

\* testcancel on the way out of a yield, pthread_exit, or the thread's return.
\* A timed waiter that ends here is never paid back.
BeginExit(t) == /\ \/ pc[t] = "user"
                   \/ pc[t] \in {"woken", "timedWoken"} /\ t \in cancelled
                /\ pc' = [pc EXCEPT ![t] = "cleanup"]
                /\ cancelled' = cancelled \cup {t}
                /\ lost' = IF pc[t] = "timedWoken" THEN lost + 1 ELSE lost
                /\ UNCHANGED <<counter, exists, blocked, sigexec, expired, entries,
                               tokens>>

\* destroy_thread; thread_destroyed drops the thread's clock entries.
Exit(t) == /\ pc[t] = "cleanup"
           /\ pc' = [pc EXCEPT ![t] = "done"]
           /\ entries' = [entries EXCEPT ![t] = 0]
           /\ UNCHANGED <<counter, exists, blocked, cancelled, sigexec, expired,
                          tokens, lost>>

----------------------------------------------------------------------------
ThreadStep(t) == \/ Wait(t) \/ WaitInterrupted(t) \/ WaitAgain(t) \/ Trywait(t)
                 \/ TimedWait(t) \/ TimedOut(t) \/ TimedAgain(t)
                 \/ Post(t) \/ Destroy(t) \/ BeginExit(t) \/ Exit(t)

Next == \E t \in Threads : \/ ThreadStep(t)
                           \/ SignalDelivered(t) \/ EntryDue(t)
                           \/ \E u \in Threads : Cancel(t, u)

SafeSpec == Init /\ [][Next]_vars

\* A thread the kernel made READY runs its next segment.
RunWoken(t) == \/ WaitInterrupted(t) \/ WaitAgain(t) \/ TimedOut(t) \/ TimedAgain(t)
               \/ pc[t] \in {"woken", "timedWoken"} /\ BeginExit(t)

Spec == SafeSpec /\ \A t \in Threads : WF_vars(RunWoken(t))

----------------------------------------------------------------------------
TypeOK == /\ counter \in Int
          /\ exists \in BOOLEAN
          /\ blocked \in Seq(Threads)
          /\ pc \in [Threads -> Points]
          /\ cancelled \in SUBSET Threads
          /\ sigexec \in SUBSET Threads
          /\ expired \in SUBSET Threads
          /\ entries \in [Threads -> Nat]
          /\ tokens \in Int
          /\ lost \in Nat

\* The list holds exactly the threads blocked in sem_wait, once each.
ListMatchesPoints == /\ On(blocked) = {t \in Threads : pc[t] = "blocked"}
                     /\ NoRepeat(blocked)

\* Timed waiters that have been charged and not yet paid back.
TimedCharged == {t \in Threads : pc[t] \in {"timed", "timedWoken"}}

\* The books balance: the counter is the tokens left less one for each sleeper
\* on the list, each timed waiter and each charge forgotten when a signal, a
\* cancellation or a late clock entry took a waiter off the list.
TokenAccounting ==
  counter + Len(blocked) + Cardinality(TimedCharged) + lost = tokens

\* No wait or trywait succeeds without a token, whatever woke it.
NeverOvergranted == tokens >= 0

\* Without timed waits and as long as no charge was forgotten, nobody sleeps
\* on the list while there is a token.
NoTokenIgnored == lost = 0 /\ "timed" \notin Disturbances
                    => (tokens > 0 => blocked = <<>>)

Pool == INSTANCE TokenPool
          WITH available <- tokens,
               asking <- {t \in Threads :
                            pc[t] \in {"blocked", "woken", "timed", "timedWoken"}}

\* With every disturbance, the semaphore only hands out tokens it has, to
\* threads that asked.
HandsOutTokens == Pool!SafeSpec

\* A token that is there while somebody waits on the list is taken, or the
\* waiters give up, as long as no charge was forgotten and no timed wait is in
\* the way: a charged timed waiter hides a token without being on the list, and
\* a thread whose timeout flag is set takes one back out of turn.
Asking == \E t \in Threads : pc[t] \in {"blocked", "woken"}

TimedInTheWay == expired # {} \/ TimedCharged # {}

TokenServed ==
  (tokens > 0 /\ Asking) ~> (tokens = 0 \/ ~Asking \/ lost > 0 \/ TimedInTheWay)
=============================================================================
