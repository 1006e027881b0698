----------------------------- MODULE RWService ------------------------------
(***************************************************************************)
(* What read-write locks of the POSIX layer promise their callers: readers *)
(* together or one writer alone, granted only while nobody holds it in a   *)
(* way that excludes them, and, as long as somebody asks for a free lock,  *)
(* one of those who ask gets it or gives up.  RWLock implements this       *)
(* module.                                                                 *)
(***************************************************************************)
CONSTANTS Locks, Threads

VARIABLES readers,     \* the threads that hold each lock for reading
          writers,     \* the thread that holds it for writing, if any
          asking       \* the threads inside a call for it that has not returned

svars == <<readers, writers, asking>>

Free(l) == readers[l] = {} /\ writers[l] = {}

Init == /\ readers = [l \in Locks |-> {}]
        /\ writers = [l \in Locks |-> {}]
        /\ asking = [l \in Locks |-> {}]

\* A call that cannot have the lock at once starts asking.
Ask(t, l) == /\ ~Free(l)
             /\ asking' = [asking EXCEPT ![l] = @ \cup {t}]
             /\ UNCHANGED <<readers, writers>>

Answered(t, l) == asking' = [asking EXCEPT ![l] = @ \ {t}]

GrantRead(t, l) == /\ writers[l] = {}
                   /\ readers' = [readers EXCEPT ![l] = @ \cup {t}]
                   /\ Answered(t, l)
                   /\ UNCHANGED writers

GrantWrite(t, l) == /\ Free(l)
                    /\ writers' = [writers EXCEPT ![l] = {t}]
                    /\ Answered(t, l)
                    /\ UNCHANGED readers

\* An unlock, or the end of a holder, which gives up all its locks at once.
Release(t, S) ==
  /\ readers' = [l \in Locks |-> IF l \in S THEN readers[l] \ {t} ELSE readers[l]]
  /\ writers' = [l \in Locks |-> IF l \in S THEN writers[l] \ {t} ELSE writers[l]]
  /\ UNCHANGED asking

\* A timeout, or a cancelled thread that leaves its call for good.
GiveUp(t, l) == /\ t \in asking[l]
                /\ Answered(t, l)
                /\ UNCHANGED <<readers, writers>>

\* What is owed to those who ask: only while nobody holds the lock.
Serve(l) == /\ Free(l)
            /\ \E t \in asking[l] : GrantRead(t, l) \/ GrantWrite(t, l) \/ GiveUp(t, l)

Next == \E t \in Threads :
          \/ \E l \in Locks : \/ Ask(t, l) \/ GrantRead(t, l) \/ GrantWrite(t, l)
                             \/ GiveUp(t, l)
          \/ \E S \in SUBSET Locks : Release(t, S)

SafeSpec == Init /\ [][Next]_svars
Liveness == \A l \in Locks : WF_svars(Serve(l))
Spec == SafeSpec /\ Liveness
=============================================================================
