-------------------------- MODULE PthreadLifecycle --------------------------
(***************************************************************************)
(* The life of the threads of a process (rtos/api/posix/uc_pthread.cpp,    *)
(* destroy_thread in kernel/uc_thread_class.cpp, exit in uc_stdlib.cpp):   *)
(* creation, join, detach, cancellation, thread-specific keys, cleanup     *)
(* handlers and the end, by return, pthread_exit, cancellation or exit.    *)
(*                                                                         *)
(* A step is the code between two stp_yield() calls; on resuming from one  *)
(* a thread first looks whether it was cancelled (Pending).  Destructors   *)
(* and handlers are the program's own and may block, so other threads run  *)
(* between their start and their end.  A thread that ended stays in the    *)
(* task's list until the processor has waited for its last segment and     *)
(* deletes it (Reap).  All threads are of one task, as the default         *)
(* attributes have it.  Every key has a destructor, and what a destructor  *)
(* or a handler stores for a key or pushes is left out: nobody comes back  *)
(* to it.  The read-write locks released at the end are in RWLock.         *)
(***************************************************************************)
EXTENDS WaitList, FiniteSetsExt

CONSTANTS MaxThreads,  \* bound on the threads ever created; thread 1 is there at the start
          MaxKeyIds,   \* bound on the keys ever created
          MaxKeys,     \* PTHREAD_KEYS_MAX
          MaxDepth,    \* bound on the cleanup handlers a thread has pushed
          Scenes       \* sets of features; a behaviour uses those of one

ASSUME BoundsAssumption == /\ MaxThreads \in Nat \ {0} /\ MaxKeyIds \in Nat
                           /\ MaxKeys \in Nat /\ MaxDepth \in Nat

\* Thread and key ids come from counters and are never used again.
Threads == 1..MaxThreads
Keys == 1..MaxKeyIds
None == 0

VARIABLES features,    \* the scene being played; never changes
          process,     \* what the code keeps, see TypeOK
          awaited,     \* history: whom each thread in a join waits for
          poked,       \* history: joins ended by a signal or by exit()
          late,        \* history: joins of a thread that had ended, before Reap
          returned,    \* history: threads whose start routine returned
          shrunk,      \* history: keys deleted at or before place in a destructor
          skipped      \* history: threads that met two of them in one destructor

waits == <<awaited, poked, late>>
ends == <<returned, shrunk, skipped>>
vars == <<features, process, waits, ends>>

\* "asleep" and "awake" are the two sides of the block() in pthread_join,
\* "exitAsleep" and "exitAwake" those of the one in exit().
Points == {"none", "user", "asleep", "awake", "exitAsleep", "exitAwake",
           "destructor", "handler", "ended", "gone"}

Init == /\ features \in Scenes
        /\ process = [tids        |-> 1,
                      list        |-> <<1>>,
                      pc          |-> [t \in Threads |-> IF t = 1 THEN "user" ELSE "none"],
                      cancelstate |-> [t \in Threads |-> "enable"],
                      canceltype  |-> [t \in Threads |-> "async"],
                      detached    |-> {},
                      joiners     |-> [t \in Threads |-> {}],
                      place       |-> [t \in Threads |-> 1],
                      key         |-> [t \in Threads |-> None],
                      keyIds      |-> 0,
                      keys        |-> <<>>,
                      holders     |-> [k \in Keys |-> {}],
                      depth       |-> [t \in Threads |-> 0]]
        /\ awaited = [t \in Threads |-> None]
        /\ poked = {} /\ late = {} /\ returned = {} /\ skipped = {}
        /\ shrunk = [t \in Threads |-> 0]

At(t) == process.pc[t]
Listed == On(process.list)

\* What a thread sees when it comes back from a yield: testcancel exits for
\* the asynchronous type only.
Pending(t) == process.cancelstate[t] = "canceled" /\ process.canceltype[t] = "async"

InUser(t) == At(t) = "user" /\ ~Pending(t)
MayCall(t) == At(t) \in {"user", "destructor", "handler"} /\ ~Pending(t)

----------------------------------------------------------------------------
\* UC_thread_class::unblock of every thread of S: off the lists, READY.
Unblock(p, S) ==
  [p EXCEPT !.pc = [t \in Threads |-> CASE t \in S /\ p.pc[t] = "asleep" -> "awake"
                                        [] t \in S /\ p.pc[t] = "exitAsleep" -> "exitAwake"
                                        [] OTHER -> p.pc[t]],
            !.joiners = [u \in Threads |-> @[u] \ S]]

\* pthread_cancel of the threads of S: a request to one that is disabled,
\* cancelled already or finished is forgotten.
Cancellable(p, S) == {u \in S : p.cancelstate[u] = "enable"}

\* Seeded fault: the thread is unblocked before its state is looked at.
CancelAnyway(p, S) ==
  Unblock([p EXCEPT !.cancelstate = [u \in Threads |-> IF u \in Cancellable(p, S)
                                                       THEN "canceled" ELSE @[u]]],
          {u \in S : p.canceltype[u] = "async"})

\* Seeded fault: the cancelled thread is left asleep.
CancelOnly(p, S) ==
  [p EXCEPT !.cancelstate = [u \in Threads |-> IF u \in Cancellable(p, S)
                                               THEN "canceled" ELSE @[u]]]

CancelAll(p, S) ==
  Unblock([p EXCEPT !.cancelstate = [u \in Threads |-> IF u \in Cancellable(p, S)
                                                       THEN "canceled" ELSE @[u]]],
          {u \in Cancellable(p, S) : p.canceltype[u] = "async"})

\* Seeded fault: only one of the threads that joined is woken.
FinishFirst(p, t) ==
  [Unblock(p, {u \in p.joiners[t] : \A v \in p.joiners[t] : u <= v}) EXCEPT !.pc[t] = "ended"]

\* destroy_thread: whoever joined the thread is awaked, all at once, so the order
\* of their list does not show; the object remains.
Finish(p, t) == [Unblock(p, p.joiners[t]) EXCEPT !.pc[t] = "ended"]

\* pthread_exit from index i of the keys on: destructors, then the handlers,
\* last in first out, each taken off before it runs, then the end.
WithValue(p, t, i) == {j \in i..Len(p.keys) : t \in p.holders[p.keys[j]]}

GoOn(p, t, i) ==
  LET left == WithValue(p, t, i)
      j == Min(left)
  IN  CASE left # {} -> [p EXCEPT !.holders[p.keys[j]] = @ \ {t},
                                  !.place[t] = j,
                                  !.key[t] = p.keys[j],
                                  !.pc[t] = "destructor"]
        [] left = {} /\ p.depth[t] > 0 -> [p EXCEPT !.depth[t] = @ - 1,
                                                    !.place[t] = 1, !.key[t] = None,
                                                    !.pc[t] = "handler"]
        [] OTHER -> Finish([p EXCEPT !.place[t] = 1, !.key[t] = None], t)

BeginExit(p, t) == GoOn([p EXCEPT !.cancelstate[t] = "finished"], t, 1)

\* block() on the list of those who join u.
WaitFor(p, t, u, point) == [p EXCEPT !.joiners[u] = @ \cup {t}, !.pc[t] = point]

\* The second loop of exit() from index i on: everybody is cancelled once more
\* and the first who can be joined is joined; pthread_exit when there is none.
Joinable(p, t, i) == {j \in i..Len(p.list) : p.list[j] # t /\ p.list[j] \notin p.detached}

ExitLoop(p, t, i) ==
  LET found == Joinable(p, t, i)
      j == Min(found)
      reached == {p.list[l] : l \in i..(IF found = {} THEN Len(p.list) ELSE j)}
      q == CancelAll(p, reached)
  IN  IF found = {} THEN BeginExit(q, t)
      ELSE WaitFor([q EXCEPT !.place[t] = j], t, p.list[j], "exitAsleep")

----------------------------------------------------------------------------
Frame == UNCHANGED features
SameWaits == UNCHANGED <<features, waits>>
SameEnds == UNCHANGED ends

\* History of t's wait for u; t leaves a wait.
Awaits(t, u) == /\ awaited' = [awaited EXCEPT ![t] = u]
                /\ late' = IF At(u) = "ended" THEN late \cup {t} ELSE late \ {t}

Leaves(t) == /\ awaited' = [awaited EXCEPT ![t] = None]
             /\ poked' = poked \ {t} /\ late' = late \ {t}
             /\ UNCHANGED features

\* History of a step of t's end; skips says whether a destructor is over.
Passes(t, skips) == /\ shrunk' = [shrunk EXCEPT ![t] = 0]
                    /\ skipped' = IF skips /\ shrunk[t] >= 2 THEN skipped \cup {t} ELSE skipped
                    /\ UNCHANGED returned

\* pthread_create with the default attributes or a detached state.
Create(t) ==
  /\ MayCall(t) /\ process.tids < MaxThreads
  /\ LET u == process.tids + 1
     IN  \E d \in {{}} \cup (IF "detach" \in features THEN {{u}} ELSE {}) :
           process' = [process EXCEPT !.tids = u,
                                      !.list = Append(@, u),
                                      !.pc[u] = "user",
                                      !.detached = @ \cup d]
  /\ SameWaits /\ SameEnds

Detach(t, u) == /\ "detach" \in features /\ MayCall(t)
                /\ u \in Listed \ process.detached
                /\ process' = [process EXCEPT !.detached = @ \cup {u}]
                /\ SameWaits /\ SameEnds

\* pthread_join; nothing stops a thread from joining itself.
Join(t, u) == /\ "join" \in features /\ InUser(t)
              /\ u \in Listed \ process.detached
              /\ process' = WaitFor(process, t, u, "asleep")
              /\ Awaits(t, u) /\ UNCHANGED poked
              /\ Frame /\ SameEnds

\* Whatever woke the caller, the call returns 0.
JoinReturns(t) == /\ At(t) = "awake" /\ ~Pending(t)
                  /\ process' = [process EXCEPT !.pc[t] = "user"]
                  /\ Leaves(t) /\ SameEnds

\* verify_signal_thread unblocks the thread a signal is for.
Signal(t) == /\ "signal" \in features
             /\ At(t) \in {"asleep", "exitAsleep"}
             /\ process' = Unblock(process, {t})
             /\ poked' = poked \cup {t}
             /\ UNCHANGED <<awaited, late>>
             /\ Frame /\ SameEnds

Cancel(t, u) == /\ "cancel" \in features /\ MayCall(t)
                /\ u \in Listed
                /\ process' = CancelAll(process, {u})
                /\ SameWaits /\ SameEnds

\* Whatever the state is, it is overwritten: a deferred request, or FINISHED.
SetCancelState(t) == /\ "state" \in features /\ MayCall(t)
                     /\ \E s \in {"enable", "disable"} :
                          process' = [process EXCEPT !.cancelstate[t] = s]
                     /\ SameWaits /\ SameEnds

SetCancelType(t) == /\ "type" \in features /\ MayCall(t)
                    /\ \E y \in {"async", "deferred"} :
                         process' = [process EXCEPT !.canceltype[t] = y]
                    /\ SameWaits /\ SameEnds

CleanupPush(t) == /\ "handlers" \in features /\ InUser(t)
                  /\ process.depth[t] < MaxDepth
                  /\ process' = [process EXCEPT !.depth[t] = @ + 1]
                  /\ SameWaits /\ SameEnds

CleanupPop(t) == /\ InUser(t) /\ process.depth[t] > 0
                 /\ process' = [process EXCEPT !.depth[t] = @ - 1]
                 /\ SameWaits /\ SameEnds

----------------------------------------------------------------------------
KeyCreate(t) == /\ "keys" \in features /\ InUser(t)
                /\ Len(process.keys) < MaxKeys
                /\ process.keyIds < MaxKeyIds
                /\ process' = [process EXCEPT !.keyIds = @ + 1,
                                              !.keys = Append(@, process.keyIds + 1)]
                /\ SameWaits /\ SameEnds

\* pthread_key_delete forgets the values; no destructor runs.
KeyDelete(t) ==
  /\ "keys" \in features /\ MayCall(t)
  /\ \E i \in DOMAIN process.keys :
       LET k == process.keys[i]
       IN  /\ process' = [process EXCEPT !.keys = Without(@, k), !.holders[k] = {}]
           /\ shrunk' = [u \in Threads |->
                           IF At(u) = "destructor" /\ i <= process.place[u]
                           THEN shrunk[u] + 1 ELSE shrunk[u]]
  /\ SameWaits /\ UNCHANGED <<returned, skipped>>

SetSpecific(t) == /\ InUser(t)
                  /\ \E k \in On(process.keys) : \E S \in {{}, {t}} :
                       process' = [process EXCEPT !.holders[k] = (@ \ {t}) \cup S]
                  /\ SameWaits /\ SameEnds

----------------------------------------------------------------------------
\* pthread_exit, by the program or again from a destructor or a handler.
Exit(t) == /\ MayCall(t)
           /\ process' = BeginExit(process, t)
           /\ SameWaits /\ Passes(t, FALSE)

\* testcancel on the way out of a yield.
Honour(t) == /\ Pending(t)
             /\ At(t) \in {"user", "awake", "exitAwake", "destructor", "handler"}
             /\ process' = BeginExit(process, t)
             /\ Leaves(t) /\ Passes(t, FALSE)

\* Seeded fault: the index moves on whatever became of the list.
NextIndexBlindly(t) == process.place[t] + 1

\* "Maybe destroyed": the index stays if another key is there now.  Past the
\* end of the list either answer ends the loop.
NextIndex(t) == LET i == process.place[t]
                IN  IF i <= Len(process.keys) /\ process.keys[i] = process.key[t]
                    THEN i + 1 ELSE i

DestructorDone(t) == /\ At(t) = "destructor" /\ ~Pending(t)
                     /\ process' = GoOn(process, t, NextIndex(t))
                     /\ SameWaits /\ Passes(t, TRUE)

HandlerDone(t) == /\ At(t) = "handler" /\ ~Pending(t)
                  /\ process' = GoOn(process, t, Len(process.keys) + 1)
                  /\ SameWaits /\ SameEnds

\* The start routine returns: destroy_thread at once, no destructor, no handler.
Return(t) == /\ InUser(t)
             /\ process' = Finish(process, t)
             /\ returned' = returned \cup {t}
             /\ SameWaits /\ UNCHANGED <<shrunk, skipped>>

\* The processor gives the thread its state ZOMBIE: delete_thread, which takes
\* the attributes and the stack of handlers with it.
Reap(t) == /\ At(t) = "ended"
           /\ process' = [process EXCEPT !.list = Without(@, t), !.pc[t] = "gone",
                                         !.cancelstate[t] = "finished",
                                         !.canceltype[t] = "async",
                                         !.detached = @ \ {t}, !.depth[t] = 0]
           /\ SameWaits /\ SameEnds

\* exit(): everybody is cancelled, the caller included, and unblocked even if
\* cancellation is disabled; then everybody is to be joined.
ProcessExit(t) ==
  /\ "exit" \in features /\ InUser(t)
  /\ process' = ExitLoop(Unblock(CancelAll(process, Listed), Listed), t, 1)
  /\ poked' = poked \cup {u \in Threads : At(u) \in {"asleep", "exitAsleep"}}
  /\ IF Joinable(process, t, 1) = {} THEN UNCHANGED <<awaited, late>>
     ELSE Awaits(t, process.list[Min(Joinable(process, t, 1))])
  /\ Frame /\ Passes(t, FALSE)

\* Back from one of these joins, the same index is looked at again.
ExitGoesOn(t) ==
  /\ At(t) = "exitAwake" /\ ~Pending(t)
  /\ process' = ExitLoop(process, t, process.place[t])
  /\ IF Joinable(process, t, process.place[t]) = {} THEN Leaves(t)
     ELSE /\ Awaits(t, process.list[Min(Joinable(process, t, process.place[t]))])
          /\ poked' = poked \ {t} /\ Frame
  /\ Passes(t, FALSE)

----------------------------------------------------------------------------
ThreadStep(t) == \/ JoinReturns(t) \/ Signal(t)
                 \/ SetCancelState(t) \/ SetCancelType(t)
                 \/ CleanupPush(t) \/ CleanupPop(t)
                 \/ KeyCreate(t) \/ KeyDelete(t) \/ SetSpecific(t)
                 \/ Exit(t) \/ Honour(t) \/ DestructorDone(t) \/ HandlerDone(t)
                 \/ Return(t) \/ Reap(t) \/ Create(t) \/ ProcessExit(t) \/ ExitGoesOn(t)

Next == \E t \in Threads :
          \/ ThreadStep(t)
          \/ \E u \in Threads : Detach(t, u) \/ Join(t, u) \/ Cancel(t, u)

SafeSpec == Init /\ [][Next]_vars

\* The kernel lets every thread that is not asleep reach its next yield, and
\* destructors and handlers end.
Spec == /\ SafeSpec
        /\ \A t \in Threads : WF_vars(Honour(t)) /\ WF_vars(DestructorDone(t) \/ HandlerDone(t))

----------------------------------------------------------------------------
Ended(t) == At(t) \in {"ended", "gone"}

TypeOK == /\ features \in Scenes
          /\ process.list \in Seq(Threads) /\ NoRepeat(process.list)
          /\ process.pc \in [Threads -> Points]
          /\ process.cancelstate \in [Threads -> {"enable", "disable", "canceled", "finished"}]
          /\ process.canceltype \in [Threads -> {"async", "deferred"}]
          /\ process.detached \subseteq Threads
          /\ process.joiners \in [Threads -> SUBSET Threads]
          /\ process.place \in [Threads -> Nat]
          /\ process.key \in [Threads -> Keys \cup {None}]
          /\ process.keys \in Seq(Keys) /\ NoRepeat(process.keys)
          /\ process.holders \in [Keys -> SUBSET Threads]
          /\ process.depth \in [Threads -> 0..MaxDepth]
          /\ awaited \in [Threads -> Threads \cup {None}]

\* Whoever sleeps in a join waits for a thread that has not ended, unless he
\* joined it after its end and before the processor deleted it.
NoJoinerForgotten ==
  \A t \in Threads : At(t) \in {"asleep", "exitAsleep"} /\ t \notin late => ~Ended(awaited[t])

\* A join that lets its caller go on does so because the thread has ended, or
\* because a signal or the exit of the process unblocked the caller.
JoinReturnsAfterEnd ==
  \A t \in Threads : At(t) = "awake" /\ ~Pending(t) => Ended(awaited[t]) \/ t \in poked

\* A thread that ended otherwise than by returning has run all its cleanup
\* handlers, however often it was cancelled in them, and has no value left for
\* a key that still exists, unless two keys went away under one destructor.
EndsClean ==
  \A t \in Threads :
    Ended(t) /\ t \notin returned =>
      /\ process.depth[t] = 0
      /\ t \notin skipped => \A k \in On(process.keys) : t \notin process.holders[k]

\* A cancellation that is asynchronous ends its thread, wherever it is, through
\* all destructors and handlers; only a caller of exit() may sleep on.
CancelledEnds ==
  \A t \in Threads : Pending(t) /\ At(t) # "exitAsleep" ~> Ended(t)
=============================================================================
