---------------------------- MODULE MutexService ----------------------------
(***************************************************************************)
(* What a mutex of the POSIX layer promises its callers, whatever its type *)
(* and however it queues them: at most one holder, granted only to a       *)
(* caller that asked, and, as long as somebody is asking for a free mutex, *)
(* one of them eventually gets it (or gives up).  Nothing is promised      *)
(* about the order of the grants.  PthreadMutex implements this module.    *)
(***************************************************************************)
CONSTANTS Threads, NoThread

VARIABLES holder,      \* the thread that holds the mutex, or NoThread
          asking       \* the threads inside a lock call that has not returned

svars == <<holder, asking>>

Init == holder = NoThread /\ asking = {}

\* A lock call that finds the mutex held starts asking; t may be the holder
\* itself (a default mutex locked twice).
Ask(t) == /\ holder # NoThread
          /\ asking' = asking \cup {t}
          /\ UNCHANGED holder

Grant(t) == /\ holder = NoThread
            /\ holder' = t
            /\ asking' = asking \ {t}

Release(t) == /\ holder = t
              /\ holder' = NoThread
              /\ UNCHANGED asking

\* A cancelled thread leaves its lock call for good.
GiveUp(t) == /\ t \in asking
             /\ asking' = asking \ {t}
             /\ UNCHANGED holder

\* What is owed to those who ask: only while the mutex is free.
Serve == /\ holder = NoThread
         /\ \E t \in asking : Grant(t) \/ GiveUp(t)

Next == \E t \in Threads : Ask(t) \/ Grant(t) \/ Release(t) \/ GiveUp(t)

SafeSpec == Init /\ [][Next]_svars
Spec == SafeSpec /\ WF_svars(Serve)
=============================================================================
