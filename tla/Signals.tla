------------------------------- MODULE Signals -------------------------------
(***************************************************************************)
(* The signals of one process (rtos/kernel/uc_signals_control.cpp and      *)
(* rtos/api/posix/uc_signal.cpp): generation for a thread or the process,  *)
(* masks, sigwait with and without a timeout, sigsuspend, delivery at the  *)
(* yields of a thread, chained handlers, stop and continue.                *)
(*                                                                         *)
(* A signal is taken at a yield: stp_yield calls execute_signals when      *)
(* m_signal_received is set.  Generation sets it in every thread that does *)
(* not mask the signal, unless the signal is in the wait set of any        *)
(* thread: then only the threads with that wait set are unblocked.  A wait *)
(* set outlives its sigwait.                                               *)
(*                                                                         *)
(* A step is the code between two stp_yield() calls or between such a call *)
(* and a handler; the scheduler may run any thread that is not blocked.    *)
(* Handlers run any code but sigwait and sigsuspend.  SIGCONT is neither   *)
(* masked nor handled.                                                     *)
(***************************************************************************)
EXTENDS Integers, Sequences, FiniteSets

CONSTANTS Threads,
          Process,       \* the holder of the signals sent to the process
          Standard,      \* signals below SIGRTMIN that have a handler
          RealTime,      \* signals from SIGRTMIN on: their instances queue up
          Stop, Cont,    \* SIGSTOP and SIGCONT, with their default actions
          Number,        \* the number of each signal: the lowest goes first
          InfoHandlers,  \* signals whose handler has SA_SIGINFO
          HandlerMask,   \* sa_mask of each handler
          Masks,         \* the masks threads ask for
          WaitSets,      \* the sets they wait for
          MaxChained,    \* MAX_CHAINED_SIGNALS
          MaxSent        \* bound on the signals sent

Handled == Standard \cup RealTime
Signals == Handled \cup {Stop, Cont}
Holders == Threads \cup {Process}

ASSUME HolderAssumption == Process \notin Threads
ASSUME SignalAssumption == /\ Standard \cap RealTime = {}
                           /\ Stop # Cont /\ {Stop, Cont} \cap Handled = {}
                           /\ Number \in [Signals -> Nat]
                           /\ \A s, r \in Signals : Number[s] = Number[r] => s = r
ASSUME SetsAssumption == /\ InfoHandlers \subseteq Handled
                         /\ HandlerMask \in [Handled -> SUBSET Handled]
                         /\ Masks \subseteq SUBSET Handled
                         /\ WaitSets \subseteq SUBSET Handled
ASSUME BoundsAssumption == MaxChained \in Nat /\ MaxSent \in Nat

VARIABLES pend,      \* pend_signals of each thread and of the process
          queue,     \* sizes of rt_signals_info
          mask,      \* signals.mask of each thread
          waiting,   \* wait_signals: the set of its last sigwait
          received,  \* threads with m_signal_received set
          inSignal,  \* m_in_signal of each thread
          executed,  \* threads with m_signal_executed set
          pc,        \* where each thread is, see Points
          frames,    \* handlers, stops and sigsuspends a thread is inside of
          excused,   \* history: signals a thread was not told of, see Excuse
          count      \* history: the number of signals sent

vars == <<pend, queue, mask, waiting, received, inSignal, executed, pc, frames,
          excused, count>>
sent == <<pend, queue>>

\* "user": the thread's code or a handler's.  A sleep in sigwait, in
\* sigtimedwait, in sigsuspend or in the loop of a stopped thread, and the same
\* after the wake-up; "timedOut": sigtimedwait woken by the clock.
Sleeps == {"sigwait", "sigtimed", "suspended", "stopped"}
Awake == {"user", "sigwoken", "timedWoken", "timedOut", "suspWoken", "stopWoken"}
Points == Sleeps \cup Awake

Init == /\ pend = [h \in Holders |-> {}]
        /\ queue = [h \in Holders |-> [s \in RealTime |-> 0]]
        /\ mask = [t \in Threads |-> {}]
        /\ waiting = [t \in Threads |-> {}]
        /\ received = {} /\ executed = {}
        /\ inSignal = [t \in Threads |-> 0]
        /\ pc = [t \in Threads |-> "user"]
        /\ frames = [t \in Threads |-> <<>>]
        /\ excused = [t \in Threads |-> {}]
        /\ count = 0

----------------------------------------------------------------------------
Lowest(S) == CHOOSE s \in S : \A r \in S : Number[s] <= Number[r]

\* A stop cancels a pending continue and the reverse.
Opposite(s) == IF s = Stop THEN {Cont} ELSE IF s = Cont THEN {Stop} ELSE {}

\* Seeded fault: a thread that sleeps on the clock is on no list and sleeps on.
WokenFromList(p) == CASE p = "sigwait" -> "sigwoken"
                      [] p = "suspended" -> "suspWoken"
                      [] p = "stopped" -> "stopWoken"
                      [] OTHER -> p

WokenAt(p) == CASE p = "sigwait" -> "sigwoken"
                [] p = "sigtimed" -> "timedWoken"
                [] p = "suspended" -> "suspWoken"
                [] p = "stopped" -> "stopWoken"
                [] OTHER -> p

\* The points after UC_thread_class::unblock of every thread of a set.
Woken(S) == [t \in Threads |-> IF t \in S THEN WokenAt(pc[t]) ELSE pc[t]]

\* Instances of real-time signals are queued, others coalesce.
Queued(h, s) == IF s \notin RealTime THEN queue
                ELSE [queue EXCEPT ![h][s] = @ + 1]
\* The first instance is taken out of the queue.
Popped(h, s) == IF s \notin RealTime THEN queue
                ELSE [queue EXCEPT ![h][s] = @ - 1]

\* Threads that m_signal_received is set in look at all that is pending.
Excuse(told, S) == [t \in Threads |-> IF t \in told THEN {} ELSE excused[t] \cup S]

\* Seeded fault: the search ends at the first thread that waits.
FirstWaiter(s) == LET W == {t \in Threads : s \in waiting[t]}
                  IN  {t \in W : t = CHOOSE r \in W : TRUE}

Waiters(s) == {t \in Threads : s \in waiting[t]}
Unmasked(s) == {t \in Threads : s \notin mask[t]}

\* signal_process: kill, sigqueue, an interval timer.
SignalProcess(s) ==
  LET found == Waiters(s)
      told == IF found = {} THEN Unmasked(s) ELSE {}
      hit == found \cup told
  IN  /\ pend' = [h \in Holders |->
                    IF h = Process THEN (pend[h] \cup {s}) \ Opposite(s)
                    ELSE IF h \in hit /\ s = Cont THEN pend[h] \ {Stop}
                    ELSE pend[h]]
      /\ queue' = Queued(Process, s)
      /\ received' = received \cup told
      /\ pc' = Woken(hit)
      /\ excused' = Excuse(told, IF found = {} THEN {} ELSE {s})
      /\ UNCHANGED <<mask, waiting, inSignal, executed, frames>>

\* signal_thread and verify_signal_thread: pthread_kill, raise.
SignalThread(t, s) ==
  LET waits == s \in waiting[t]
      told == IF ~waits /\ s \notin mask[t] THEN {t} ELSE {}
  IN  /\ pend' = [pend EXCEPT ![t] = (@ \cup {s}) \ Opposite(s),
                              ![Process] = @ \ Opposite(s)]
      /\ queue' = Queued(t, s)
      /\ received' = received \cup told
      /\ pc' = IF waits \/ told # {} THEN Woken({t}) ELSE pc
      /\ excused' = IF waits THEN [excused EXCEPT ![t] = @ \cup {s}]
                    ELSE Excuse(told, {})
      /\ UNCHANGED <<mask, waiting, inSignal, executed, frames>>

----------------------------------------------------------------------------
\* The test at the end of stp_yield.
MustDeliver(t) == t \in received /\ inSignal[t] < MaxChained

\* A thread past a yield, in its code: it may call.
Callable(t) == pc[t] = "user" /\ ~MustDeliver(t)
Outermost(t) == frames[t] = <<>>

\* Seeded fault: the mask is set and nothing verified.
SetMaskOnly(t, old, new) == UNCHANGED <<received, excused>>

\* thread_sigmask with SIG_SETMASK: verify_signal_thread for each signal that
\* is no longer masked, pending or not.
SetMask(t, old, new) ==
  LET opened == old \ new
      told == IF opened \subseteq waiting[t] THEN {} ELSE {t}
  IN  /\ received' = received \cup told
      /\ excused' = [Excuse(told, {}) EXCEPT
                       ![t] = IF told = {} THEN @ \cup opened ELSE @]

Sigmask(t, new) == /\ Callable(t)
                   /\ mask' = [mask EXCEPT ![t] = new]
                   /\ SetMask(t, mask[t], new)
                   /\ UNCHANGED <<sent, waiting, inSignal, executed, pc, frames>>

\* A turn of signal_timedwait's loop for the set S.  Before it sleeps it wakes
\* the threads that do not mask some pending signal of the process.
Found(t, S) == S \cap (pend[t] \cup pend[Process])

TakeWaited(t, S) ==
  LET s == Lowest(Found(t, S))
      h == IF s \in pend[t] THEN t ELSE Process
  IN  /\ Found(t, S) # {}
      /\ pend' = [pend EXCEPT ![h] = @ \ {s}]
      /\ queue' = Popped(h, s)
      /\ pc' = [pc EXCEPT ![t] = "user"]

SleepWaiting(t, S, point) ==
  /\ Found(t, S) = {}
  /\ pc' = [Woken(UNION {Unmasked(s) : s \in pend[Process]}) EXCEPT ![t] = point]
  /\ UNCHANGED sent

WaitTurn(t, S, point) ==
  /\ TakeWaited(t, S) \/ SleepWaiting(t, S, point)
  /\ UNCHANGED <<mask, received, inSignal, executed, frames, excused>>

\* sigwait, sigwaitinfo; and sigtimedwait.
Sigwait(t, S, point) == /\ Callable(t) /\ Outermost(t)
                        /\ waiting' = [waiting EXCEPT ![t] = S]
                        /\ WaitTurn(t, S, point)

SigwaitAgain(t) == /\ ~MustDeliver(t)
                   /\ \/ pc[t] = "sigwoken" /\ WaitTurn(t, waiting[t], "sigwait")
                      \/ pc[t] = "timedWoken" /\ WaitTurn(t, waiting[t], "sigtimed")
                   /\ UNCHANGED waiting

\* The clock ends the sleep of a sigtimedwait.
WaitEnds(t) == /\ pc[t] = "sigtimed"
               /\ pc' = [pc EXCEPT ![t] = "timedOut"]
               /\ UNCHANGED <<sent, mask, waiting, received, inSignal, executed,
                              frames, excused>>

\* It returns EAGAIN without another look at the pending signals.
WaitTimedOut(t) == /\ pc[t] = "timedOut" /\ ~MustDeliver(t)
                   /\ pc' = [pc EXCEPT ![t] = "user"]
                   /\ UNCHANGED <<sent, mask, waiting, received, inSignal,
                                  executed, frames, excused>>

----------------------------------------------------------------------------
\* What a thread is inside of, innermost first: the mask to go back to and the
\* point to go on at.
Frame(kind, m, at) == [kind |-> kind, mask |-> m, at |-> at]
Top(t) == Head(frames[t])

\* sigsuspend.  A thread that ever ran a handler does not sleep: m_signal_executed
\* stays set, and the old mask comes back at once.  One that opens a pending
\* signal sleeps all the same, for there is no yield before block().
Sigsuspend(t, new) ==
  /\ Callable(t) /\ Outermost(t)
  /\ IF t \in executed
     THEN /\ SetMask(t, mask[t] \cup new, mask[t] \cap new)
          /\ UNCHANGED <<mask, pc, frames>>
     ELSE /\ SetMask(t, mask[t], new)
          /\ mask' = [mask EXCEPT ![t] = new]
          /\ pc' = [pc EXCEPT ![t] = "suspended"]
          /\ frames' = [frames EXCEPT ![t] = <<Frame("suspend", mask[t], "user")>>]
  /\ UNCHANGED <<sent, waiting, inSignal, executed>>

SuspendAgain(t) ==
  /\ pc[t] = "suspWoken" /\ ~MustDeliver(t)
  /\ IF t \in executed
     THEN /\ SetMask(t, mask[t], Top(t).mask)
          /\ mask' = [mask EXCEPT ![t] = Top(t).mask]
          /\ pc' = [pc EXCEPT ![t] = Top(t).at]
          /\ frames' = [frames EXCEPT ![t] = <<>>]
     ELSE /\ pc' = [pc EXCEPT ![t] = "suspended"]
          /\ UNCHANGED <<mask, received, frames, excused>>
  /\ UNCHANGED <<sent, waiting, inSignal, executed>>

----------------------------------------------------------------------------
\* The loop of execute_signals from its head up to the next sleep or handler or
\* back to its caller.  c is what the thread has as it comes there: its mask, the
\* signals under way, its frames, the point to go back to, and who is told.
Comes(m, n, fs, point, told) ==
  [mask |-> m, depth |-> n, frames |-> fs, at |-> point, told |-> told]
Due(t, c) == (pend[t] \cup pend[Process]) \ c.mask

Becomes(t, m, n, fs, point) == /\ mask' = [mask EXCEPT ![t] = m]
                               /\ inSignal' = [inSignal EXCEPT ![t] = n]
                               /\ frames' = [frames EXCEPT ![t] = fs]
                               /\ pc' = [pc EXCEPT ![t] = point]

\* The default action of SIGSTOP, sent to the thread or the process: sleep while
\* it is pending for the thread.
StopHere(t, c) ==
  /\ Stop \in Due(t, c)
  /\ pend' = [pend EXCEPT ![t] = @ \cup {Stop}]
  /\ received' = c.told
  /\ Becomes(t, c.mask, c.depth, <<Frame("stop", c.mask, c.at)>> \o c.frames, "stopped")
  /\ UNCHANGED <<queue, excused>>

\* Seeded fault: the signal stays pending without a look at the list.
RunHandlerAgain(t, c) ==
  LET s == Lowest(Due(t, c))
      h == IF s \in pend[t] THEN t ELSE Process
      more == s \in RealTime \cap InfoHandlers
  IN  /\ Due(t, c) # {} /\ Stop \notin Due(t, c) /\ s # Cont
      /\ pend' = [pend EXCEPT ![h] = IF more THEN @ ELSE @ \ {s}]
      /\ queue' = Popped(h, s)
      /\ received' = c.told
      /\ Becomes(t, HandlerMask[s] \cup {s}, c.depth + 1,
                 <<Frame("handler", c.mask, c.at)>> \o c.frames, "user")
      /\ UNCHANGED excused

\* The lowest signal is taken, the thread's own before the process's.  Further
\* instances of a real-time signal stay pending if the handler has SA_SIGINFO.
RunHandler(t, c) ==
  LET s == Lowest(Due(t, c))
      h == IF s \in pend[t] THEN t ELSE Process
      more == s \in RealTime \cap InfoHandlers /\ queue[h][s] > 1
  IN  /\ Due(t, c) # {} /\ Stop \notin Due(t, c) /\ s # Cont
      /\ pend' = [pend EXCEPT ![h] = IF more THEN @ ELSE @ \ {s}]
      /\ queue' = Popped(h, s)
      /\ received' = c.told
      /\ Becomes(t, HandlerMask[s] \cup {s}, c.depth + 1,
                 <<Frame("handler", c.mask, c.at)>> \o c.frames, "user")
      /\ UNCHANGED excused

\* The default action of SIGCONT returns in the middle of the loop: m_in_signal
\* keeps the signal, and the others wait for the next one to be sent.
Continued(t, c) ==
  LET h == IF Cont \in pend[t] THEN t ELSE Process
  IN  /\ Due(t, c) # {} /\ Stop \notin Due(t, c) /\ Lowest(Due(t, c)) = Cont
      /\ pend' = [pend EXCEPT ![h] = @ \ {Cont}]
      /\ received' = c.told \ {t}
      /\ excused' = [excused EXCEPT ![t] = @ \cup Due(t, c)]
      /\ Becomes(t, c.mask, c.depth + 1, c.frames, c.at)
      /\ UNCHANGED queue

AllDone(t, c) == /\ Due(t, c) = {}
                 /\ received' = c.told
                 /\ Becomes(t, c.mask, c.depth, c.frames, c.at)
                 /\ UNCHANGED <<sent, excused>>

Loop(t, c) == StopHere(t, c) \/ RunHandler(t, c) \/ Continued(t, c) \/ AllDone(t, c)

\* The end of stp_yield in a thread that was told.
Start(t) == /\ pc[t] \in Awake /\ MustDeliver(t)
            /\ Loop(t, Comes(mask[t], inSignal[t], frames[t], pc[t], received \ {t}))
            /\ UNCHANGED <<waiting, executed>>

\* A handler returns, and the loop that called it looks for more.
AfterHandler(t) == Comes(Top(t).mask, inSignal[t] - 1, Tail(frames[t]), Top(t).at, received)

HandlerEnd(t) == /\ pc[t] = "user" /\ frames[t] # <<>>
                 /\ executed' = executed \cup {t}
                 /\ Loop(t, AfterHandler(t))
                 /\ UNCHANGED waiting

\* A stopped thread that was woken.
AfterStop(t) == Comes(mask[t], inSignal[t], Tail(frames[t]), Top(t).at, received)

StopTurn(t) == /\ pc[t] = "stopWoken" /\ ~MustDeliver(t)
               /\ IF Stop \in pend[t]
                  THEN /\ pc' = [pc EXCEPT ![t] = "stopped"]
                       /\ UNCHANGED <<sent, mask, received, inSignal, frames, excused>>
                  ELSE Loop(t, AfterStop(t))
               /\ UNCHANGED <<waiting, executed>>

----------------------------------------------------------------------------
Send == /\ count < MaxSent /\ count' = count + 1
        /\ \E s \in Signals : SignalProcess(s) \/ \E t \in Threads : SignalThread(t, s)

Call(t) == \/ \E m \in Masks : Sigmask(t, m) \/ Sigsuspend(t, m)
           \/ \E S \in WaitSets : Sigwait(t, S, "sigwait") \/ Sigwait(t, S, "sigtimed")

\* What a thread that runs does without being asked.
Runs(t) == \/ Start(t) \/ HandlerEnd(t) \/ StopTurn(t)
           \/ SigwaitAgain(t) \/ SuspendAgain(t) \/ WaitTimedOut(t)

Steps(t) == (Call(t) \/ WaitEnds(t) \/ Runs(t)) /\ UNCHANGED count

Next == \/ Send
        \/ \E t \in Threads : Steps(t)

Spec == Init /\ [][Next]_vars

----------------------------------------------------------------------------
Frames == [kind : {"handler", "stop", "suspend"}, mask : SUBSET Handled, at : Awake]

TypeOK == /\ pend \in [Holders -> SUBSET Signals]
          /\ queue \in [Holders -> [RealTime -> Nat]]
          /\ mask \in [Threads -> SUBSET Handled]
          /\ waiting \in [Threads -> SUBSET Handled]
          /\ received \subseteq Threads /\ executed \subseteq Threads
          /\ inSignal \in [Threads -> Int]
          /\ pc \in [Threads -> Points]
          /\ frames \in [Threads -> Seq(Frames)]
          /\ excused \in [Threads -> SUBSET Signals]

\* execute_signals, signal_timedwait: the [0] of the list of instances of a
\* pending real-time signal exists, whichever of the two took the last one.
PendingHasInfo == \A h \in Holders : \A s \in RealTime \cap pend[h] : queue[h][s] > 0

\* signal_process, signal_thread, signal_timedwait: nobody sleeps in sigwait while
\* a signal of its set is pending, nor stays stopped when SIGSTOP is gone.
NobodySleepsOnPending ==
  \A t \in Threads : /\ pc[t] \in {"sigwait", "sigtimed"} => Found(t, waiting[t]) = {}
                     /\ pc[t] = "stopped" => Stop \in pend[t]

\* verify_signal_thread, thread_sigmask, execute_signals: whatever is pending and
\* not masked, its thread will look for, at its next yield or when the handler or
\* the stop it is inside of ends; except for signals that went to a wait set and
\* those SIGCONT made it forget.
EveryoneTold ==
  \A t \in Threads : \A s \in (pend[t] \cup pend[Process]) \ mask[t] :
     \/ t \in received \/ s \in excused[t]
     \/ \E i \in DOMAIN frames[t] : frames[t][i].kind # "suspend"

\* signal_process, verify_signal_thread, block(): a thread that is to take a signal
\* is not asleep in sigwait.  In sigsuspend it may be, for that opens a pending
\* signal and sleeps; and a stop comes before any other signal.
ToldIsAwake == \A t \in Threads : MustDeliver(t) => pc[t] \notin {"sigwait", "sigtimed"}
=============================================================================
