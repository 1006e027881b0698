---------------------- MODULE PthreadLifecycle_proofs ----------------------
(***************************************************************************)
(* PthreadLifecycle for any number of threads, keys and handlers, in any   *)
(* scene: a join returns with its thread's end, no joiner is forgotten,    *)
(* and an end leaves neither handlers nor values behind.                   *)
(*                                                                         *)
(* The invariant ties the lists of joiners to whom each thread awaits.  A  *)
(* step has one actor; what it may do to everybody else is Others: leave   *)
(* him, or take him out of a sleep and off all lists, and perhaps cancel   *)
(* him.  Others is transitive, so each operator a step is built from has   *)
(* one lemma, and the steps put these together.  For the ends, Tidiness    *)
(* says how far the walk over the keys has got, however the list of keys   *)
(* was changed under it.                                                   *)
(***************************************************************************)
EXTENDS PthreadLifecycle, WaitList_proofs

Sleeping == {"asleep", "exitAsleep"}
States == {"enable", "disable", "canceled", "finished"}
Types == {"async", "deferred"}

\* All the fields there are.
Whole(p) ==
  p = [tids |-> p.tids, list |-> p.list, pc |-> p.pc, cancelstate |-> p.cancelstate,
       canceltype |-> p.canceltype, detached |-> p.detached, joiners |-> p.joiners,
       place |-> p.place, key |-> p.key, keyIds |-> p.keyIds, keys |-> p.keys,
       holders |-> p.holders, depth |-> p.depth]

\* The types of those the joins depend on.
Formed(p) ==
  /\ Whole(p)
  /\ p.tids \in Nat
  /\ p.list \in Seq(Threads) /\ NoRepeat(p.list)
  /\ p.pc \in [Threads -> Points]
  /\ p.cancelstate \in [Threads -> States]
  /\ p.canceltype \in [Threads -> Types]
  /\ p.joiners \in [Threads -> SUBSET Threads]
  /\ p.place \in [Threads -> Nat \ {0}]
  /\ p.keyIds \in Nat /\ p.keys \in Seq(Nat)

\* Who is on a list of joiners sleeps.
OnlySleepers(p) == \A t, u \in Threads : t \in p.joiners[u] => p.pc[t] \in Sleeping

\* Thread ids are given in order, and the task's list has no deleted thread.
Numbered(p) == /\ \A u \in Threads : u > p.tids => p.pc[u] = "none"
               /\ \A u \in On(p.list) : p.pc[u] \notin {"none", "gone"}

Over == {"ended", "gone"}

Woken(p, q, x) == \/ p.pc[x] = "asleep" /\ q.pc[x] = "awake"
                  \/ p.pc[x] = "exitAsleep" /\ q.pc[x] = "exitAwake"

Left(p, q, x) == q.pc[x] = p.pc[x] /\ \A u \in Threads : x \in q.joiners[u] <=> x \in p.joiners[u]

Others(p, q, t) ==
  \A x \in Threads \ {t} :
    /\ \/ Left(p, q, x)
       \/ Woken(p, q, x) /\ \A u \in Threads : x \notin q.joiners[u]
    /\ q.canceltype[x] = p.canceltype[x]
    /\ \/ q.cancelstate[x] = p.cancelstate[x]
       \/ p.cancelstate[x] = "enable" /\ q.cancelstate[x] = "canceled"

SameThreads(p, q) == q.tids = p.tids /\ q.list = p.list

Doomed(p, x) == p.cancelstate[x] = "canceled" /\ p.canceltype[x] = "async"

SleepersListed ==
  \A t \in Threads : /\ At(t) \in Sleeping \cup {"awake"} => awaited[t] \in Threads
                     /\ At(t) \in Sleeping => t \in process.joiners[awaited[t]]

ListedAwait == \A t, u \in Threads : t \in process.joiners[u] =>
                 At(t) \in Sleeping /\ awaited[t] = u

Inv == /\ Formed(process) /\ Numbered(process)
       /\ awaited \in [Threads -> Threads \cup {None}]
       /\ SleepersListed /\ ListedAwait
       /\ NoJoinerForgotten /\ JoinReturnsAfterEnd

----------------------------------------------------------------------------
\* The least element of a set of numbers is one of it.
LEMMA MinIsIn ==
  ASSUME NEW S \in SUBSET Nat, S # {} PROVE Min(S) \in S /\ \A y \in S : Min(S) <= y
BY SmallestNumber DEF Min

LEMMA OthersTransitive ==
  ASSUME NEW p, NEW q, NEW r, NEW t, Others(p, q, t), Others(q, r, t)
  PROVE  Others(p, r, t)
<1> SUFFICES ASSUME NEW x \in Threads \ {t}
             PROVE  /\ \/ Left(p, r, x)
                       \/ Woken(p, r, x) /\ \A u \in Threads : x \notin r.joiners[u]
                    /\ r.canceltype[x] = p.canceltype[x]
                    /\ \/ r.cancelstate[x] = p.cancelstate[x]
                       \/ p.cancelstate[x] = "enable" /\ r.cancelstate[x] = "canceled"
  BY DEF Others
<1> QED BY DEF Others, Left, Woken

\* unblock: the sleepers among the threads are taken off all lists.
LEMMA UnblockFrees ==
  ASSUME NEW p, Formed(p), OnlySleepers(p), NEW S,
         NEW q, q = Unblock(p, S)
  PROVE  /\ Formed(q) /\ OnlySleepers(q) /\ SameThreads(p, q) /\ q.detached = p.detached
         /\ \A t : Others(p, q, t)
         /\ q.cancelstate = p.cancelstate /\ q.canceltype = p.canceltype
         /\ \A x \in Threads : IF x \in S /\ p.pc[x] \in Sleeping THEN Woken(p, q, x)
                                                                  ELSE q.pc[x] = p.pc[x]
         /\ \A x, u \in Threads : x \in q.joiners[u] <=> x \in p.joiners[u] /\ x \notin S
<1>1. /\ q.pc = [t \in Threads |-> CASE t \in S /\ p.pc[t] = "asleep" -> "awake"
                                     [] t \in S /\ p.pc[t] = "exitAsleep" -> "exitAwake"
                                     [] OTHER -> p.pc[t]]
      /\ q.joiners = [u \in Threads |-> p.joiners[u] \ S]
      /\ q.tids = p.tids /\ q.list = p.list /\ q.detached = p.detached
      /\ q.cancelstate = p.cancelstate /\ q.canceltype = p.canceltype
      /\ q.place = p.place /\ q.keyIds = p.keyIds /\ q.keys = p.keys
      /\ Whole(q)
  BY DEF Unblock, Formed, Whole
<1>2. \A x \in Threads : IF x \in S /\ p.pc[x] \in Sleeping THEN Woken(p, q, x)
                                                            ELSE q.pc[x] = p.pc[x]
  BY <1>1 DEF Woken, Sleeping
<1>3. \A x, u \in Threads : x \in q.joiners[u] <=> x \in p.joiners[u] /\ x \notin S
  BY <1>1
<1>4. q.pc \in [Threads -> Points] /\ q.joiners \in [Threads -> SUBSET Threads]
  BY <1>1 DEF Formed, Points
<1>5. Formed(q)
  BY <1>1, <1>4 DEF Formed
<1>6. OnlySleepers(q)
  BY <1>2, <1>3 DEF OnlySleepers
<1>7. ASSUME NEW t PROVE Others(p, q, t)
  BY <1>1, <1>2, <1>3 DEF Others, Left, OnlySleepers
<1> QED BY <1>1, <1>2, <1>3, <1>5, <1>6, <1>7 DEF SameThreads

\* pthread_cancel: whom it wakes is cancelled for good.
LEMMA CancelAllFrees ==
  ASSUME NEW p, Formed(p), OnlySleepers(p), NEW S,
         NEW q, q = CancelAll(p, S)
  PROVE  /\ Formed(q) /\ OnlySleepers(q) /\ SameThreads(p, q) /\ q.detached = p.detached
         /\ \A t : Others(p, q, t)
         /\ \A x \in Threads : q.pc[x] = p.pc[x] \/ (Woken(p, q, x) /\ Doomed(q, x))
<1> DEFINE W == {u \in Cancellable(p, S) : p.canceltype[u] = "async"}
<1>0. PICK m : /\ m = [p EXCEPT !.cancelstate = [u \in Threads |-> IF u \in Cancellable(p, S)
                                                                  THEN "canceled" ELSE @[u]]]
               /\ q = Unblock(m, W)
  BY DEF CancelAll
<1> HIDE DEF W
<1>1. /\ Whole(m)
      /\ m.tids = p.tids /\ m.list = p.list /\ m.detached = p.detached
      /\ m.pc = p.pc /\ m.joiners = p.joiners
      /\ m.canceltype = p.canceltype
      /\ m.place = p.place /\ m.keyIds = p.keyIds /\ m.keys = p.keys
      /\ m.cancelstate = [u \in Threads |-> IF u \in Cancellable(p, S)
                                            THEN "canceled" ELSE p.cancelstate[u]]
  BY <1>0 DEF Formed, Whole
<1>2. \A u \in W \cap Threads : m.cancelstate[u] = "canceled" /\ m.canceltype[u] = "async"
  BY <1>1 DEF Cancellable, W
<1>4. m.cancelstate \in [Threads -> States]
  BY <1>1 DEF Formed, States
<1>5. \A u \in Threads : \/ m.cancelstate[u] = p.cancelstate[u]
                         \/ p.cancelstate[u] = "enable" /\ m.cancelstate[u] = "canceled"
  BY <1>1 DEF Cancellable
<1>6. Formed(m) /\ OnlySleepers(m)
  BY <1>1, <1>4 DEF Formed, OnlySleepers
<1>7. /\ Formed(q) /\ OnlySleepers(q) /\ SameThreads(m, q) /\ q.detached = m.detached
      /\ \A t : Others(m, q, t)
      /\ q.cancelstate = m.cancelstate /\ q.canceltype = m.canceltype
      /\ \A x \in Threads : IF x \in W /\ m.pc[x] \in Sleeping THEN Woken(m, q, x)
                                                               ELSE q.pc[x] = m.pc[x]
  <2>1. q = Unblock(m, W)
    BY <1>0
  <2> QED BY ONLY <1>6, <2>1, UnblockFrees
<1>8. ASSUME NEW t PROVE Others(p, q, t)
  <2>1. Others(p, m, t)
    BY <1>1, <1>5 DEF Others, Left
  <2> QED BY <1>7, <2>1, OthersTransitive
<1>9. \A x \in Threads : q.pc[x] = p.pc[x] \/ (Woken(p, q, x) /\ Doomed(q, x))
  BY <1>1, <1>2, <1>7 DEF Woken, Doomed
<1> QED BY <1>1, <1>7, <1>8, <1>9 DEF SameThreads

\* What a step of t's end does: at the end of all all its joiners are awaked.
Ends(p, q, t) ==
  /\ Formed(q) /\ SameThreads(p, q) /\ Others(p, q, t)
  /\ q.pc[t] \in {"destructor", "handler", "ended"}
  /\ \A u \in Threads : t \notin q.joiners[u]
  /\ q.pc[t] = "ended" => q.joiners[t] = {}
  /\ \A x \in Threads \ {t} : \/ q.pc[x] = p.pc[x]
                              \/ q.pc[t] = "ended" /\ x \in p.joiners[t]

LEMMA FinishEnds ==
  ASSUME NEW p, Formed(p), OnlySleepers(p), NEW t \in Threads, p.pc[t] \notin Sleeping,
         NEW q, q = Finish(p, t)
  PROVE  Ends(p, q, t) /\ q.pc[t] = "ended"
<1> DEFINE m == Unblock(p, p.joiners[t])
<1>1. p.joiners[t] \in SUBSET Threads
  BY DEF Formed
<1>2. /\ Formed(m) /\ OnlySleepers(m) /\ SameThreads(p, m)
      /\ Others(p, m, t)
      /\ \A x \in Threads : IF x \in p.joiners[t] /\ p.pc[x] \in Sleeping
                            THEN Woken(p, m, x) ELSE m.pc[x] = p.pc[x]
      /\ \A x, u \in Threads : x \in m.joiners[u] <=> x \in p.joiners[u] /\ x \notin p.joiners[t]
  BY <1>1, UnblockFrees
<1>3. q = [m EXCEPT !.pc[t] = "ended"]
  BY DEF Finish
<1> HIDE DEF m
<1>4. /\ q.pc = [m.pc EXCEPT ![t] = "ended"]
      /\ q.tids = m.tids /\ q.list = m.list /\ q.joiners = m.joiners
      /\ q.cancelstate = m.cancelstate /\ q.canceltype = m.canceltype
      /\ q.place = m.place /\ q.keyIds = m.keyIds /\ q.keys = m.keys
      /\ Whole(q)
  BY <1>2, <1>3 DEF Formed, Whole
<1>5. q.pc[t] = "ended" /\ \A x \in Threads \ {t} : q.pc[x] = m.pc[x]
  BY <1>2, <1>4 DEF Formed
<1>6. q.pc \in [Threads -> Points]
  BY <1>2, <1>4 DEF Formed, Points
<1>7. Formed(q)
  BY <1>2, <1>4, <1>6 DEF Formed
<1>8. Others(p, q, t)
  <2>1. Others(m, q, t)
    BY <1>4, <1>5 DEF Others, Left
  <2> QED BY <1>2, <2>1, OthersTransitive
<1>9. q.joiners[t] = {}
  BY <1>2, <1>4, <1>7 DEF Formed
<1>10. \A u \in Threads : t \notin q.joiners[u]
  BY <1>2, <1>4 DEF OnlySleepers
<1>11. \A x \in Threads \ {t} : q.pc[x] = p.pc[x] \/ x \in p.joiners[t]
  BY <1>2, <1>5
<1> QED BY <1>2, <1>4, <1>5, <1>7, <1>8, <1>9, <1>10, <1>11 DEF Ends, SameThreads

\* A change of the thread's own state, place or key is seen by nobody else.
LEMMA OwnChange ==
  ASSUME NEW p, Formed(p), OnlySleepers(p), NEW t \in Threads, p.pc[t] \notin Sleeping,
         NEW q, Formed(q), SameThreads(p, q), q.joiners = p.joiners,
         \A x \in Threads \ {t} : /\ q.pc[x] = p.pc[x]
                                  /\ q.cancelstate[x] = p.cancelstate[x]
                                  /\ q.canceltype[x] = p.canceltype[x]
  PROVE  /\ Others(p, q, t)
         /\ \A u \in Threads : t \notin q.joiners[u]
         /\ q.pc[t] \notin Sleeping => OnlySleepers(q)
<1>1. Others(p, q, t)
  BY DEF Others, Left
<1>2. \A u \in Threads : t \notin q.joiners[u]
  BY DEF OnlySleepers
<1>3. OnlySleepers(q)
  BY <1>2 DEF OnlySleepers
<1> QED BY <1>1, <1>2, <1>3

LEMMA GoOnEnds ==
  ASSUME NEW p, Formed(p), OnlySleepers(p), NEW t \in Threads, p.pc[t] \notin Sleeping,
         NEW i \in Nat \ {0}, NEW q, q = GoOn(p, t, i)
  PROVE  Ends(p, q, t)
<1> DEFINE left == WithValue(p, t, i)
           j == Min(left)
<1>1. CASE left # {}
  <2>0. j \in Nat \ {0}
    <3>1. left \subseteq Nat \ {0}
      BY DEF WithValue, Formed
    <3>2. left \in SUBSET Nat
      BY <3>1
    <3> HIDE DEF left
    <3> QED BY <1>1, <3>1, <3>2, MinIsIn
  <2>1. q = [p EXCEPT !.holders[p.keys[j]] = @ \ {t}, !.place[t] = j,
                      !.key[t] = p.keys[j], !.pc[t] = "destructor"]
    BY <1>1 DEF GoOn
  <2> HIDE DEF left, j
  <2>2. /\ q.pc = [p.pc EXCEPT ![t] = "destructor"]
        /\ q.tids = p.tids /\ q.list = p.list /\ q.joiners = p.joiners
        /\ q.cancelstate = p.cancelstate /\ q.canceltype = p.canceltype
        /\ q.place = [p.place EXCEPT ![t] = j] /\ q.keyIds = p.keyIds /\ q.keys = p.keys
        /\ Whole(q)
    BY <2>1 DEF Formed, Whole
  <2>3. q.pc[t] = "destructor" /\ \A x \in Threads \ {t} : q.pc[x] = p.pc[x]
    BY <2>2 DEF Formed
  <2>4. q.pc \in [Threads -> Points] /\ q.place \in [Threads -> Nat \ {0}]
    BY <2>0, <2>2 DEF Formed, Points
  <2>5. Formed(q) /\ SameThreads(p, q)
    BY <2>2, <2>4 DEF Formed, SameThreads
  <2>6. \A x \in Threads \ {t} : /\ q.pc[x] = p.pc[x]
                                 /\ q.cancelstate[x] = p.cancelstate[x]
                                 /\ q.canceltype[x] = p.canceltype[x]
    BY <2>2, <2>3
  <2>7. Others(p, q, t) /\ \A u \in Threads : t \notin q.joiners[u]
    <3>1. q.joiners = p.joiners
      BY <2>2
    <3> QED BY ONLY Formed(p), OnlySleepers(p), t \in Threads, p.pc[t] \notin Sleeping,
                    <2>5, <2>6, <3>1, OwnChange
  <2> QED BY <2>3, <2>5, <2>7 DEF Ends
<1>2. CASE left = {} /\ p.depth[t] > 0
  <2>1. q = [p EXCEPT !.depth[t] = @ - 1, !.place[t] = 1, !.key[t] = None, !.pc[t] = "handler"]
    BY <1>2 DEF GoOn
  <2>2. /\ q.pc = [p.pc EXCEPT ![t] = "handler"]
        /\ q.tids = p.tids /\ q.list = p.list /\ q.joiners = p.joiners
        /\ q.cancelstate = p.cancelstate /\ q.canceltype = p.canceltype
        /\ q.place = [p.place EXCEPT ![t] = 1] /\ q.keyIds = p.keyIds /\ q.keys = p.keys
        /\ Whole(q)
    BY <2>1 DEF Formed, Whole
  <2>3. q.pc[t] = "handler" /\ \A x \in Threads \ {t} : q.pc[x] = p.pc[x]
    BY <2>2 DEF Formed
  <2>4. q.pc \in [Threads -> Points] /\ q.place \in [Threads -> Nat \ {0}]
    BY <2>2 DEF Formed, Points
  <2>5. Formed(q) /\ SameThreads(p, q)
    BY <2>2, <2>4 DEF Formed, SameThreads
  <2>6. \A x \in Threads \ {t} : /\ q.pc[x] = p.pc[x]
                                 /\ q.cancelstate[x] = p.cancelstate[x]
                                 /\ q.canceltype[x] = p.canceltype[x]
    BY <2>2, <2>3
  <2>7. Others(p, q, t) /\ \A u \in Threads : t \notin q.joiners[u]
    <3>1. q.joiners = p.joiners
      BY <2>2
    <3> QED BY ONLY Formed(p), OnlySleepers(p), t \in Threads, p.pc[t] \notin Sleeping,
                    <2>5, <2>6, <3>1, OwnChange
  <2> QED BY <2>3, <2>5, <2>7 DEF Ends
<1>3. CASE left = {} /\ ~(p.depth[t] > 0)
  <2>1. PICK m : m = [p EXCEPT !.place[t] = 1, !.key[t] = None] /\ q = Finish(m, t)
    BY <1>3 DEF GoOn
  <2>2. /\ m.tids = p.tids /\ m.list = p.list /\ m.pc = p.pc /\ m.joiners = p.joiners
        /\ m.cancelstate = p.cancelstate /\ m.canceltype = p.canceltype
        /\ m.place = [p.place EXCEPT ![t] = 1] /\ m.keyIds = p.keyIds /\ m.keys = p.keys
        /\ Whole(m)
    BY <2>1 DEF Formed, Whole
  <2>3. Formed(m) /\ SameThreads(p, m)
    <3>1. m.place \in [Threads -> Nat \ {0}]
      BY <2>2 DEF Formed
    <3> QED BY <2>2, <3>1 DEF Formed, SameThreads
  <2>4. Others(p, m, t) /\ OnlySleepers(m)
    BY <2>2, <2>3, OwnChange
  <2>5. Ends(m, q, t)
    BY <2>1, <2>2, <2>3, <2>4, FinishEnds
  <2>6. Others(p, q, t)
    BY <2>4, <2>5, OthersTransitive DEF Ends
  <2> QED BY <2>2, <2>5, <2>6 DEF Ends, SameThreads
<1> QED BY <1>1, <1>2, <1>3

LEMMA BeginExitEnds ==
  ASSUME NEW p, Formed(p), OnlySleepers(p), NEW t \in Threads, p.pc[t] \notin Sleeping,
         NEW q, q = BeginExit(p, t)
  PROVE  Ends(p, q, t)
<1>1. PICK m : m = [p EXCEPT !.cancelstate[t] = "finished"] /\ q = GoOn(m, t, 1)
  BY DEF BeginExit
<1>2. /\ m.tids = p.tids /\ m.list = p.list /\ m.pc = p.pc /\ m.joiners = p.joiners
      /\ m.cancelstate = [p.cancelstate EXCEPT ![t] = "finished"] /\ m.canceltype = p.canceltype
      /\ m.place = p.place /\ m.keyIds = p.keyIds /\ m.keys = p.keys
      /\ Whole(m)
  BY <1>1 DEF Formed, Whole
<1>3. m.cancelstate \in [Threads -> States]
  BY <1>2 DEF Formed, States
<1>4. Formed(m) /\ SameThreads(p, m)
  BY <1>2, <1>3 DEF Formed, SameThreads
<1>5. Others(p, m, t) /\ OnlySleepers(m)
  <2>1. \A x \in Threads \ {t} : m.cancelstate[x] = p.cancelstate[x]
    BY <1>2 DEF Formed
  <2> QED BY <1>2, <1>4, <2>1, OwnChange
<1>6. Ends(m, q, t)
  <2>1. q = GoOn(m, t, 1) /\ m.pc[t] \notin Sleeping /\ 1 \in Nat \ {0}
    BY <1>1, <1>2
  <2> QED BY ONLY <1>4, <1>5, <2>1, t \in Threads, GoOnEnds
<1>7. Others(p, q, t)
  BY <1>5, <1>6, OthersTransitive DEF Ends
<1> QED BY <1>2, <1>6, <1>7 DEF Ends, SameThreads

\* A thread that goes to sleep for u is on u's list and on no other.
LEMMA WaitForSleeps ==
  ASSUME NEW p, Formed(p), OnlySleepers(p), NEW t \in Threads, p.pc[t] \notin Sleeping,
         NEW u \in Threads, NEW point \in Sleeping, NEW q, q = WaitFor(p, t, u, point)
  PROVE  /\ Formed(q) /\ SameThreads(p, q) /\ Others(p, q, t)
         /\ q.pc[t] = point /\ \A x \in Threads \ {t} : q.pc[x] = p.pc[x]
         /\ q.cancelstate = p.cancelstate /\ q.canceltype = p.canceltype
         /\ \A v \in Threads : t \in q.joiners[v] <=> v = u
<1>1. /\ q.pc = [p.pc EXCEPT ![t] = point]
      /\ q.joiners = [p.joiners EXCEPT ![u] = @ \cup {t}]
      /\ q.tids = p.tids /\ q.list = p.list
      /\ q.cancelstate = p.cancelstate /\ q.canceltype = p.canceltype
      /\ q.place = p.place /\ q.keyIds = p.keyIds /\ q.keys = p.keys
      /\ Whole(q)
  BY DEF WaitFor, Formed, Whole
<1>2. q.pc[t] = point /\ \A x \in Threads \ {t} : q.pc[x] = p.pc[x]
  BY <1>1 DEF Formed
<1>3. \A v \in Threads : q.joiners[v] = IF v = u THEN p.joiners[v] \cup {t} ELSE p.joiners[v]
  BY <1>1 DEF Formed
<1>4. q.pc \in [Threads -> Points] /\ q.joiners \in [Threads -> SUBSET Threads]
  BY <1>1 DEF Formed, Points, Sleeping
<1>5. Formed(q) /\ SameThreads(p, q)
  BY <1>1, <1>4 DEF Formed, SameThreads
<1>6. Others(p, q, t)
  BY <1>1, <1>2, <1>3 DEF Others, Left
<1>7. \A v \in Threads : t \in q.joiners[v] <=> v = u
  BY <1>3 DEF OnlySleepers
<1> QED BY <1>1, <1>2, <1>5, <1>6, <1>7

\* The loop of exit(): whoever it wakes is cancelled, or joined the caller, which
\* has ended; and the caller sleeps for a thread of the list or is at its end.
LEMMA ExitLoopSteps ==
  ASSUME NEW p, Formed(p), OnlySleepers(p), NEW t \in Threads, p.pc[t] \notin Sleeping,
         NEW i \in Nat \ {0}, NEW q, q = ExitLoop(p, t, i)
  PROVE  /\ Formed(q) /\ SameThreads(p, q) /\ Others(p, q, t)
         /\ \A x \in Threads \ {t} : \/ q.pc[x] = p.pc[x] \/ Doomed(q, x)
                                     \/ q.pc[t] = "ended" /\ x \in p.joiners[t]
         /\ IF Joinable(p, t, i) = {}
            THEN /\ q.pc[t] \in {"destructor", "handler", "ended"}
                 /\ \A u \in Threads : t \notin q.joiners[u]
                 /\ q.pc[t] = "ended" => q.joiners[t] = {}
            ELSE /\ q.pc[t] = "exitAsleep"
                 /\ p.list[Min(Joinable(p, t, i))] \in On(p.list)
                 /\ \A v \in Threads : t \in q.joiners[v] <=> v = p.list[Min(Joinable(p, t, i))]
<1> DEFINE found == Joinable(p, t, i)
           j == Min(found)
           reached == {p.list[l] : l \in i..(IF found = {} THEN Len(p.list) ELSE j)}
<1>1. PICK m : /\ m = CancelAll(p, reached)
               /\ q = IF found = {} THEN BeginExit(m, t)
                      ELSE WaitFor([m EXCEPT !.place[t] = j], t, p.list[j], "exitAsleep")
  BY DEF ExitLoop
<1> HIDE DEF reached
<1>2. /\ Formed(m) /\ OnlySleepers(m) /\ SameThreads(p, m) /\ Others(p, m, t)
      /\ \A x \in Threads : m.pc[x] = p.pc[x] \/ (Woken(p, m, x) /\ Doomed(m, x))
  <2>1. m = CancelAll(p, reached)
    BY <1>1
  <2> QED BY ONLY Formed(p), OnlySleepers(p), <2>1, CancelAllFrees
<1>3. m.pc[t] = p.pc[t] /\ m.pc[t] \notin Sleeping
  BY <1>2 DEF Woken, Sleeping
<1>4. \A x \in Threads \ {t} : m.pc[x] = p.pc[x] \/ Doomed(m, x)
  BY <1>2
<1>5. \A x, u \in Threads : x \in m.joiners[u] => x \in p.joiners[u] \/ x = t
  BY <1>2 DEF Others, Left
<1>6. CASE found = {}
  <2>1. q = BeginExit(m, t)
    BY <1>1, <1>6
  <2>2. Ends(m, q, t)
    BY ONLY <1>2, <1>3, <2>1, t \in Threads, BeginExitEnds
  <2>3. Others(p, q, t)
    BY <1>2, <2>2, OthersTransitive DEF Ends
  <2>4. ASSUME NEW x \in Threads \ {t}
        PROVE  \/ q.pc[x] = p.pc[x] \/ Doomed(q, x)
               \/ q.pc[t] = "ended" /\ x \in p.joiners[t]
    <3>1. Doomed(m, x) => Doomed(q, x)
      BY <2>2 DEF Ends, Others, Doomed
    <3> QED BY <1>4, <1>5, <2>2, <3>1 DEF Ends
  <2> QED BY <1>2, <1>6, <2>2, <2>3, <2>4 DEF Ends, SameThreads
<1>7. CASE found # {}
  <2>1. j \in found
    <3>1. found \in SUBSET Nat
      BY DEF Joinable, Formed
    <3> HIDE DEF found
    <3> QED BY <1>7, <3>1, MinIsIn
  <2>2. j \in Nat \ {0} /\ p.list[j] \in On(p.list) /\ p.list[j] \in Threads
    <3>1. j \in 1..Len(p.list)
      BY <2>1 DEF Joinable, Formed
    <3> HIDE DEF j
    <3> QED BY <3>1 DEF On, Formed
  <2> HIDE DEF found, j
  <2>3. PICK r : r = [m EXCEPT !.place[t] = j] /\ q = WaitFor(r, t, p.list[j], "exitAsleep")
    BY <1>1, <1>7
  <2>4. /\ r.tids = m.tids /\ r.list = m.list /\ r.pc = m.pc /\ r.joiners = m.joiners
        /\ r.cancelstate = m.cancelstate /\ r.canceltype = m.canceltype
        /\ r.place = [m.place EXCEPT ![t] = j] /\ r.keyIds = m.keyIds /\ r.keys = m.keys
        /\ Whole(r)
    BY <1>2, <2>3 DEF Formed, Whole
  <2>5. r.place \in [Threads -> Nat \ {0}]
    BY <1>2, <2>2, <2>4 DEF Formed
  <2>6. Formed(r) /\ SameThreads(m, r)
    BY <1>2, <2>4, <2>5 DEF Formed, SameThreads
  <2>7. OnlySleepers(r) /\ Others(m, r, t)
    BY <1>2, <2>4 DEF OnlySleepers, Others, Left
  <2>8. r.pc[t] \notin Sleeping /\ "exitAsleep" \in Sleeping
    BY <1>3, <2>4 DEF Sleeping
  <2>9. q = WaitFor(r, t, p.list[j], "exitAsleep")
    BY <2>3
  <2>10. /\ Formed(q) /\ SameThreads(r, q) /\ Others(r, q, t)
         /\ q.pc[t] = "exitAsleep" /\ \A x \in Threads \ {t} : q.pc[x] = r.pc[x]
         /\ q.cancelstate = r.cancelstate /\ q.canceltype = r.canceltype
         /\ \A v \in Threads : t \in q.joiners[v] <=> v = p.list[j]
    BY ONLY <2>2, <2>6, <2>7, <2>8, <2>9, t \in Threads, WaitForSleeps
  <2>11. Others(p, q, t)
    <3>1. Others(p, r, t)
      BY <1>2, <2>7, OthersTransitive
    <3> QED BY <2>10, <3>1, OthersTransitive
  <2>12. \A x \in Threads \ {t} : q.pc[x] = p.pc[x] \/ Doomed(q, x)
    BY <1>4, <2>4, <2>10 DEF Doomed
  <2>13. SameThreads(p, q)
    BY <1>2, <2>6, <2>10 DEF SameThreads
  <2> QED BY <1>7, <2>2, <2>10, <2>11, <2>12, <2>13 DEF found, j
<1> QED BY <1>6, <1>7

----------------------------------------------------------------------------
LEMMA StaysNumbered ==
  ASSUME NEW p, Formed(p), Numbered(p), NEW t \in Threads, p.pc[t] # "none",
         NEW q, Formed(q), SameThreads(p, q), Others(p, q, t), q.pc[t] \notin {"none", "gone"}
  PROVE  Numbered(q)
<1>1. \A x \in Threads : q.pc[x] \in {"none", "gone"} => q.pc[x] = p.pc[x]
  BY DEF Others, Left, Woken
<1>2. \A x \in Threads : p.pc[x] = "none" => q.pc[x] = "none"
  BY DEF Others, Left, Woken
<1>3. \A u \in On(p.list) : u \in Threads
  BY OnInThreads DEF Formed
<1> QED BY <1>1, <1>2, <1>3 DEF Numbered, SameThreads

\* What a step of t keeps of the invariant, whatever t itself does.
LEMMA ActorKeeps ==
  ASSUME Inv, NEW t \in Threads,
         Formed(process'), Numbered(process'), Others(process, process', t),
         awaited' \in [Threads -> Threads \cup {None}],
         \A x \in Threads \ {t} :
           /\ awaited'[x] = awaited[x]
           /\ x \in late' <=> x \in late
           /\ x \in poked => x \in poked'
           /\ At(x) = "asleep" /\ process'.pc[x] = "awake" =>
                \/ Doomed(process', x) \/ x \in poked'
                \/ process'.pc[t] = "ended" /\ x \in process.joiners[t],
         At(t) \in Over => process'.pc[t] \in Over,
         At(t) \notin Over /\ process'.pc[t] \in Over => process'.joiners[t] = {},
         process'.pc[t] \in Sleeping \cup {"awake"} => awaited'[t] \in Threads,
         process'.pc[t] = "awake" => Doomed(process', t) \/ t \in poked',
         process'.pc[t] \in Sleeping =>
           /\ t \in process'.joiners[awaited'[t]]
           /\ t \in late' \/ process'.pc[awaited'[t]] \notin Over,
         \A u \in Threads : t \in process'.joiners[u] =>
           process'.pc[t] \in Sleeping /\ awaited'[t] = u
  PROVE  Inv'
<1>1. \A x \in Threads \ {t} :
        \/ process'.pc[x] = At(x)
        \/ At(x) = "asleep" /\ process'.pc[x] = "awake"
        \/ At(x) = "exitAsleep" /\ process'.pc[x] = "exitAwake"
  BY DEF Others, Left, Woken, At
<1>2. \A x \in Threads : At(x) \in Over => process'.pc[x] \in Over
  BY <1>1 DEF Over
<1>3. \A x \in Threads \ {t} : process'.pc[x] \in Over => At(x) \in Over
  BY <1>1 DEF Over
<1>4. \A x \in Threads \ {t} : process'.pc[x] \in Sleeping =>
        At(x) \in Sleeping /\ \A u \in Threads : x \in process'.joiners[u] <=> x \in process.joiners[u]
  BY DEF Others, Left, Woken, At, Sleeping
<1>5. \A x \in Threads \ {t} : \A u \in Threads : x \in process'.joiners[u] =>
        x \in process.joiners[u] /\ process'.pc[x] = At(x)
  BY DEF Others, Left, At
<1>6. SleepersListed'
  <2> SUFFICES ASSUME NEW x \in Threads
               PROVE  /\ process'.pc[x] \in Sleeping \cup {"awake"} => awaited'[x] \in Threads
                      /\ process'.pc[x] \in Sleeping => x \in process'.joiners[awaited'[x]]
    BY DEF SleepersListed, At
  <2>1. CASE x = t
    BY <2>1
  <2>2. CASE x # t
    <3>1. process'.pc[x] \in Sleeping \cup {"awake"} => At(x) \in Sleeping \cup {"awake"}
      BY <1>1, <2>2 DEF Sleeping
    <3>2. awaited'[x] = awaited[x]
      BY <2>2
    <3> QED BY <1>4, <2>2, <3>1, <3>2 DEF Inv, SleepersListed
  <2> QED BY <2>1, <2>2
<1>7. ListedAwait'
  <2> SUFFICES ASSUME NEW x \in Threads, NEW u \in Threads, x \in process'.joiners[u]
               PROVE  process'.pc[x] \in Sleeping /\ awaited'[x] = u
    BY DEF ListedAwait, At
  <2>1. CASE x = t
    BY <2>1
  <2>2. CASE x # t
    BY <1>5, <2>2 DEF Inv, ListedAwait
  <2> QED BY <2>1, <2>2
<1>8. NoJoinerForgotten'
  <2> SUFFICES ASSUME NEW x \in Threads, process'.pc[x] \in Sleeping, x \notin late'
               PROVE  process'.pc[awaited'[x]] \notin Over
    BY DEF NoJoinerForgotten, Ended, At, Sleeping, Over
  <2>1. CASE x = t
    BY <2>1
  <2>2. CASE x # t
    <3>1. /\ At(x) \in Sleeping /\ x \notin late /\ awaited'[x] = awaited[x]
          /\ awaited[x] \in Threads
      BY <1>4, <2>2 DEF Inv, SleepersListed
    <3>2. At(awaited[x]) \notin Over
      BY <3>1 DEF Inv, NoJoinerForgotten, Ended, Sleeping, Over, At
    <3>3. x \in process'.joiners[awaited[x]]
      BY <1>6, <3>1 DEF SleepersListed, At
    <3>4. CASE awaited[x] = t
      BY <3>1, <3>2, <3>3, <3>4
    <3>5. CASE awaited[x] # t
      BY <1>3, <3>1, <3>2, <3>5
    <3> QED BY <3>4, <3>5
  <2> QED BY <2>1, <2>2
<1>9. JoinReturnsAfterEnd'
  <2> SUFFICES ASSUME NEW x \in Threads, process'.pc[x] = "awake", ~Doomed(process', x), x \notin poked'
               PROVE  process'.pc[awaited'[x]] \in Over
    BY DEF JoinReturnsAfterEnd, Ended, Pending, Doomed, At, Over
  <2>1. x # t
    OBVIOUS
  <2>2. awaited'[x] = awaited[x] /\ x \notin poked
    BY <2>1
  <2>3. ~Doomed(process, x)
    BY <2>1 DEF Others, Doomed
  <2>4. CASE At(x) = "awake"
    <3>1. awaited[x] \in Threads
      BY <2>4 DEF Inv, SleepersListed
    <3>2. At(awaited[x]) \in Over
      BY <2>2, <2>3, <2>4 DEF Inv, JoinReturnsAfterEnd, Ended, Pending, Doomed, Over, At
    <3> QED BY <1>2, <2>2, <3>1, <3>2
  <2>5. CASE At(x) = "asleep"
    <3>1. process'.pc[t] = "ended" /\ x \in process.joiners[t]
      BY <2>1, <2>5
    <3>2. awaited[x] = t
      BY <3>1 DEF Inv, ListedAwait
    <3> QED BY <2>2, <3>1, <3>2 DEF Over
  <2> QED BY <1>1, <2>1, <2>4, <2>5
<1> QED BY <1>6, <1>7, <1>8, <1>9 DEF Inv

Aside(t) == At(t) \notin Sleeping \cup Over \cup {"none"}

\* What t does to nobody but itself.
LEMMA QuietKeeps ==
  ASSUME Inv, NEW t \in Threads, Aside(t), NEW q, process' = q,
         Formed(q), SameThreads(process, q), q.joiners = process.joiners,
         q.pc[t] \in {"user", "destructor", "handler"},
         \A x \in Threads \ {t} : /\ q.pc[x] = process.pc[x]
                                  /\ q.cancelstate[x] = process.cancelstate[x]
                                  /\ q.canceltype[x] = process.canceltype[x],
         awaited' \in [Threads -> Threads \cup {None}],
         \A x \in Threads \ {t} : awaited'[x] = awaited[x] /\ (x \in late' <=> x \in late)
                                  /\ (x \in poked => x \in poked')
  PROVE  Inv'
<1>1. OnlySleepers(process)
  BY DEF Inv, ListedAwait, OnlySleepers, At
<1>2. Others(process, q, t) /\ \A u \in Threads : t \notin q.joiners[u]
  <2>1. process.pc[t] \notin Sleeping
    BY DEF Aside, At
  <2> QED BY <1>1, <2>1, OwnChange DEF Inv
<1>3. Numbered(q)
  <2>1. process.pc[t] # "none" /\ q.pc[t] \notin {"none", "gone"}
    BY DEF Aside, At
  <2> QED BY <1>2, <2>1, StaysNumbered DEF Inv
<1>4. \A x \in Threads \ {t} : At(x) = "asleep" /\ q.pc[x] = "awake" => FALSE
  BY DEF At
<1>5. At(t) \notin Over /\ q.pc[t] \notin Over \cup Sleeping \cup {"awake"}
  BY DEF Aside, Over, Sleeping
<1> QED BY <1>2, <1>3, <1>4, <1>5, ActorKeeps

\* A step of t's end.
LEMMA EndsKeep ==
  ASSUME Inv, NEW t \in Threads, Aside(t), NEW q, process' = q, Ends(process, q, t),
         awaited' \in [Threads -> Threads \cup {None}],
         \A x \in Threads \ {t} : awaited'[x] = awaited[x] /\ (x \in late' <=> x \in late)
                                  /\ (x \in poked => x \in poked')
  PROVE  Inv'
<1>1. Numbered(q)
  <2>1. process.pc[t] # "none" /\ q.pc[t] \notin {"none", "gone"}
    BY DEF Aside, At, Ends
  <2> QED BY <2>1, StaysNumbered DEF Inv, Ends
<1>2. \A x \in Threads \ {t} : At(x) = "asleep" /\ q.pc[x] = "awake" =>
        q.pc[t] = "ended" /\ x \in process.joiners[t]
  BY DEF At, Ends
<1>3. At(t) \notin Over /\ q.pc[t] \notin Sleeping \cup {"awake"}
  BY DEF Aside, Over, Sleeping, Ends
<1>4. q.pc[t] \in Over => q.joiners[t] = {}
  BY DEF Over, Ends
<1> QED BY <1>1, <1>2, <1>3, <1>4, ActorKeeps DEF Ends

----------------------------------------------------------------------------
SameLists(p, q) == /\ Whole(q) /\ SameThreads(p, q)
                   /\ q.joiners = p.joiners /\ q.place = p.place
SameKeys(p, q) == q.keyIds = p.keyIds /\ q.keys = p.keys
SameRights(p, q) == q.cancelstate = p.cancelstate /\ q.canceltype = p.canceltype

LEMMA SetCancelStateKeeps == ASSUME Inv, NEW t \in Threads, SetCancelState(t) PROVE Inv'
<1>1. PICK v \in {"enable", "disable"} : process' = [process EXCEPT !.cancelstate[t] = v]
  BY DEF SetCancelState
<1>2. /\ SameLists(process, process') /\ SameKeys(process, process')
      /\ process'.pc = process.pc
      /\ process'.cancelstate = [process.cancelstate EXCEPT ![t] = v]
      /\ process'.canceltype = process.canceltype
  BY <1>1 DEF Inv, Formed, Whole, SameLists, SameKeys, SameThreads
<1>3. process'.cancelstate \in [Threads -> States]
  BY <1>2 DEF Inv, Formed, States
<1>4. Formed(process')
  BY <1>2, <1>3 DEF Inv, Formed, SameLists, SameKeys, SameThreads
<1>5. Aside(t) /\ At(t) \in {"user", "destructor", "handler"}
  BY DEF SetCancelState, MayCall, Aside, Sleeping, Over
<1>6. \A x \in Threads \ {t} : process'.cancelstate[x] = process.cancelstate[x]
  BY <1>2 DEF Inv, Formed
<1> QED BY <1>2, <1>4, <1>5, <1>6, QuietKeeps
        DEF SetCancelState, SameWaits, waits, Inv, At, SameLists, SameThreads

LEMMA SetCancelTypeKeeps == ASSUME Inv, NEW t \in Threads, SetCancelType(t) PROVE Inv'
<1>1. PICK v \in {"async", "deferred"} : process' = [process EXCEPT !.canceltype[t] = v]
  BY DEF SetCancelType
<1>2. /\ SameLists(process, process') /\ SameKeys(process, process')
      /\ process'.pc = process.pc
      /\ process'.canceltype = [process.canceltype EXCEPT ![t] = v]
      /\ process'.cancelstate = process.cancelstate
  BY <1>1 DEF Inv, Formed, Whole, SameLists, SameKeys, SameThreads
<1>3. process'.canceltype \in [Threads -> Types]
  BY <1>2 DEF Inv, Formed, Types
<1>4. Formed(process')
  BY <1>2, <1>3 DEF Inv, Formed, SameLists, SameKeys, SameThreads
<1>5. Aside(t) /\ At(t) \in {"user", "destructor", "handler"}
  BY DEF SetCancelType, MayCall, Aside, Sleeping, Over
<1>6. \A x \in Threads \ {t} : process'.canceltype[x] = process.canceltype[x]
  BY <1>2 DEF Inv, Formed
<1> QED BY <1>2, <1>4, <1>5, <1>6, QuietKeeps
        DEF SetCancelType, SameWaits, waits, Inv, At, SameLists, SameThreads

\* Detaching, pushing or popping a handler and setting a value touch no join.
LEMMA PrivateKeeps ==
  ASSUME Inv, NEW t \in Threads,
         \/ CleanupPush(t) \/ CleanupPop(t) \/ SetSpecific(t)
         \/ \E u \in Threads : Detach(t, u)
  PROVE  Inv'
<1>1. /\ SameLists(process, process') /\ SameKeys(process, process')
      /\ SameRights(process, process')
      /\ process'.pc = process.pc
      /\ At(t) \in {"user", "destructor", "handler"}
      /\ UNCHANGED waits
  <2>1. CASE CleanupPush(t)
    BY <2>1 DEF CleanupPush, SameWaits, InUser, Inv, Formed, Whole,
                 SameLists, SameKeys, SameRights, SameThreads
  <2>2. CASE CleanupPop(t)
    BY <2>2 DEF CleanupPop, SameWaits, InUser, Inv, Formed, Whole,
                 SameLists, SameKeys, SameRights, SameThreads
  <2>3. CASE SetSpecific(t)
    <3>1. PICK k, S : process' = [process EXCEPT !.holders[k] = (@ \ {t}) \cup S]
      BY <2>3 DEF SetSpecific
    <3> QED BY <2>3, <3>1 DEF SetSpecific, SameWaits, InUser, Inv, Formed, Whole,
                              SameLists, SameKeys, SameRights, SameThreads
  <2>4. CASE \E u \in Threads : Detach(t, u)
    BY <2>4 DEF Detach, SameWaits, MayCall, Inv, Formed, Whole,
                 SameLists, SameKeys, SameRights, SameThreads
  <2> QED BY <2>1, <2>2, <2>3, <2>4
<1>2. Formed(process')
  BY <1>1 DEF Inv, Formed, SameLists, SameKeys, SameRights, SameThreads
<1>3. Aside(t)
  BY <1>1 DEF Aside, Sleeping, Over
<1> QED BY <1>1, <1>2, <1>3, QuietKeeps DEF waits, Inv, At, SameLists, SameRights

LEMMA KeyCreateKeeps == ASSUME Inv, NEW t \in Threads, KeyCreate(t) PROVE Inv'
<1>1. /\ SameLists(process, process') /\ SameRights(process, process')
      /\ process'.pc = process.pc
      /\ process'.keyIds = process.keyIds + 1
      /\ process'.keys = Append(process.keys, process.keyIds + 1)
  BY DEF KeyCreate, Inv, Formed, Whole, SameLists, SameRights, SameThreads
<1>2. process'.keyIds \in Nat /\ process'.keys \in Seq(Nat)
  BY <1>1 DEF Inv, Formed
<1>3. Formed(process')
  BY <1>1, <1>2 DEF Inv, Formed, SameLists, SameRights, SameThreads
<1>4. Aside(t) /\ At(t) = "user"
  BY DEF KeyCreate, InUser, Aside, Sleeping, Over
<1> QED BY <1>1, <1>3, <1>4, QuietKeeps
        DEF KeyCreate, SameWaits, waits, Inv, At, SameLists, SameRights

\* A list keeps its type when something is erased from it.
LEMMA WithoutIsList ==
  ASSUME NEW S, NEW list \in Seq(S), NEW k PROVE Without(list, k) \in Seq(S)
<1>1. CASE k \notin On(list)
  BY <1>1 DEF Without
<1>2. CASE k \in On(list)
  <2>1. Len(list) \in Nat \ {0}
    BY <1>2 DEF On
  <2>2. PICK i : Without(list, k) =
                   [j \in 1..(Len(list) - 1) |-> IF j < i THEN list[j] ELSE list[j + 1]]
    BY <1>2 DEF Without
  <2>3. \A j \in 1..(Len(list) - 1) : list[j] \in S /\ list[j + 1] \in S
    BY <2>1
  <2> QED BY <2>1, <2>2, <2>3
<1> QED BY <1>1, <1>2

LEMMA KeyDeleteKeeps == ASSUME Inv, NEW t \in Threads, KeyDelete(t) PROVE Inv'
<1>1. PICK k : process' = [process EXCEPT !.keys = Without(@, k), !.holders[k] = {}]
  BY DEF KeyDelete
<1>2. /\ SameLists(process, process') /\ SameRights(process, process')
      /\ process'.pc = process.pc
      /\ process'.keyIds = process.keyIds
      /\ process'.keys = Without(process.keys, k)
  BY <1>1 DEF Inv, Formed, Whole, SameLists, SameRights, SameThreads
<1>3. process'.keys \in Seq(Nat)
  BY <1>2, WithoutIsList DEF Inv, Formed
<1>4. Formed(process')
  BY <1>2, <1>3 DEF Inv, Formed, SameLists, SameRights, SameThreads
<1>5. Aside(t) /\ At(t) \in {"user", "destructor", "handler"}
  BY DEF KeyDelete, MayCall, Aside, Sleeping, Over
<1> QED BY <1>2, <1>4, <1>5, QuietKeeps
        DEF KeyDelete, SameWaits, waits, Inv, At, SameLists, SameRights

LEMMA JoinReturnsKeeps == ASSUME Inv, NEW t \in Threads, JoinReturns(t) PROVE Inv'
<1>1. /\ SameLists(process, process') /\ SameKeys(process, process')
      /\ SameRights(process, process')
      /\ process'.pc = [process.pc EXCEPT ![t] = "user"]
  BY DEF JoinReturns, Inv, Formed, Whole, SameLists, SameKeys, SameRights, SameThreads
<1>2. process'.pc[t] = "user" /\ \A x \in Threads \ {t} : process'.pc[x] = process.pc[x]
  BY <1>1 DEF Inv, Formed
<1>3. process'.pc \in [Threads -> Points]
  BY <1>1 DEF Inv, Formed, Points
<1>4. Formed(process')
  BY <1>1, <1>3 DEF Inv, Formed, SameLists, SameKeys, SameRights, SameThreads
<1>5. Aside(t)
  BY DEF JoinReturns, Aside, Sleeping, Over
<1>6. /\ awaited' \in [Threads -> Threads \cup {None}]
      /\ \A x \in Threads \ {t} : awaited'[x] = awaited[x] /\ (x \in late' <=> x \in late)
                                  /\ (x \in poked => x \in poked')
  BY DEF JoinReturns, Leaves, Inv
<1> QED BY <1>1, <1>2, <1>4, <1>5, <1>6, QuietKeeps DEF SameLists, SameRights

----------------------------------------------------------------------------
LEMMA InvSleepers == Inv => OnlySleepers(process)
BY DEF Inv, ListedAwait, OnlySleepers, At

\* All the steps of an end: exit, cancellation, destructors and handlers, return.
LEMMA ExitKeeps == ASSUME Inv, NEW t \in Threads, Exit(t) PROVE Inv'
<1>1. PICK q : process' = q /\ q = BeginExit(process, t)
  BY DEF Exit
<1>2. Aside(t)
  BY DEF Exit, MayCall, Aside, Sleeping, Over
<1>3. Formed(process) /\ OnlySleepers(process) /\ process.pc[t] \notin Sleeping
  BY <1>2, InvSleepers DEF Inv, Aside, At
<1>4. Ends(process, q, t)
  BY ONLY <1>1, <1>3, t \in Threads, BeginExitEnds
<1> QED BY <1>1, <1>2, <1>4, EndsKeep DEF Exit, SameWaits, waits, Inv

LEMMA HonourKeeps == ASSUME Inv, NEW t \in Threads, Honour(t) PROVE Inv'
<1>1. PICK q : process' = q /\ q = BeginExit(process, t)
  BY DEF Honour
<1>2. Aside(t)
  BY DEF Honour, Aside, Sleeping, Over
<1>3. Formed(process) /\ OnlySleepers(process) /\ process.pc[t] \notin Sleeping
  BY <1>2, InvSleepers DEF Inv, Aside, At
<1>4. Ends(process, q, t)
  BY ONLY <1>1, <1>3, t \in Threads, BeginExitEnds
<1>5. /\ awaited' \in [Threads -> Threads \cup {None}]
      /\ \A x \in Threads \ {t} : awaited'[x] = awaited[x] /\ (x \in late' <=> x \in late)
                                  /\ (x \in poked => x \in poked')
  BY DEF Honour, Leaves, Inv
<1> QED BY <1>1, <1>2, <1>4, <1>5, EndsKeep

LEMMA DestructorDoneKeeps == ASSUME Inv, NEW t \in Threads, DestructorDone(t) PROVE Inv'
<1>1. PICK q : process' = q /\ q = GoOn(process, t, NextIndex(t))
  BY DEF DestructorDone
<1>2. Aside(t)
  BY DEF DestructorDone, Aside, Sleeping, Over
<1>3. Formed(process) /\ OnlySleepers(process) /\ process.pc[t] \notin Sleeping
  BY <1>2, InvSleepers DEF Inv, Aside, At
<1>4. NextIndex(t) \in Nat \ {0}
  BY DEF NextIndex, Inv, Formed
<1>5. Ends(process, q, t)
  BY ONLY <1>1, <1>3, <1>4, t \in Threads, GoOnEnds
<1> QED BY <1>1, <1>2, <1>5, EndsKeep DEF DestructorDone, SameWaits, waits, Inv

LEMMA HandlerDoneKeeps == ASSUME Inv, NEW t \in Threads, HandlerDone(t) PROVE Inv'
<1>1. PICK q : process' = q /\ q = GoOn(process, t, Len(process.keys) + 1)
  BY DEF HandlerDone
<1>2. Aside(t)
  BY DEF HandlerDone, Aside, Sleeping, Over
<1>3. Formed(process) /\ OnlySleepers(process) /\ process.pc[t] \notin Sleeping
  BY <1>2, InvSleepers DEF Inv, Aside, At
<1>4. Len(process.keys) + 1 \in Nat \ {0}
  BY DEF Inv, Formed
<1>5. Ends(process, q, t)
  BY ONLY <1>1, <1>3, <1>4, t \in Threads, GoOnEnds
<1> QED BY <1>1, <1>2, <1>5, EndsKeep DEF HandlerDone, SameWaits, waits, Inv

LEMMA ReturnKeeps == ASSUME Inv, NEW t \in Threads, Return(t) PROVE Inv'
<1>1. PICK q : process' = q /\ q = Finish(process, t)
  BY DEF Return
<1>2. Aside(t)
  BY DEF Return, InUser, Aside, Sleeping, Over
<1>3. Formed(process) /\ OnlySleepers(process) /\ process.pc[t] \notin Sleeping
  BY <1>2, InvSleepers DEF Inv, Aside, At
<1>4. Ends(process, q, t)
  BY ONLY <1>1, <1>3, t \in Threads, FinishEnds
<1> QED BY <1>1, <1>2, <1>4, EndsKeep DEF Return, SameWaits, waits, Inv

----------------------------------------------------------------------------
\* pthread_join: nobody deleted is on the task's list, so a joiner that is not
\* late joins a thread that has not ended.
LEMMA JoinKeeps == ASSUME Inv, NEW t \in Threads, NEW u \in Threads, Join(t, u) PROVE Inv'
<1>1. PICK q : process' = q /\ q = WaitFor(process, t, u, "asleep")
  BY DEF Join
<1>2. Aside(t) /\ "asleep" \in Sleeping
  BY DEF Join, InUser, Aside, Sleeping, Over
<1>3. Formed(process) /\ OnlySleepers(process) /\ process.pc[t] \notin Sleeping
  BY <1>2, InvSleepers DEF Inv, Aside, At
<1>4. /\ Formed(q) /\ SameThreads(process, q) /\ Others(process, q, t)
      /\ q.pc[t] = "asleep" /\ \A x \in Threads \ {t} : q.pc[x] = process.pc[x]
      /\ \A v \in Threads : t \in q.joiners[v] <=> v = u
  BY ONLY <1>1, <1>2, <1>3, t \in Threads, u \in Threads, WaitForSleeps
<1>5. Numbered(q)
  <2>1. process.pc[t] # "none" /\ q.pc[t] \notin {"none", "gone"}
    BY <1>2, <1>4 DEF Aside, At
  <2> QED BY <1>4, <2>1, StaysNumbered DEF Inv
<1>6. awaited' = [awaited EXCEPT ![t] = u] /\ poked' = poked
  BY DEF Join, Awaits
<1>7. awaited'[t] = u /\ awaited' \in [Threads -> Threads \cup {None}]
      /\ \A x \in Threads \ {t} : awaited'[x] = awaited[x]
  BY <1>6 DEF Inv
<1>8. (\A x \in Threads \ {t} : x \in late' <=> x \in late) /\ (At(u) = "ended" => t \in late')
  BY DEF Join, Awaits
<1>9. t \in late' \/ q.pc[u] \notin Over
  <2>1. At(u) # "gone"
    BY DEF Join, Listed, Inv, Numbered, At
  <2>2. q.pc[u] \in Over => q.pc[u] = At(u)
    BY <1>4 DEF At, Over
  <2> QED BY <1>8, <2>1, <2>2 DEF Over
<1>10. \A x \in Threads \ {t} : ~(At(x) = "asleep" /\ q.pc[x] = "awake")
  BY <1>4 DEF At
<1>11. At(t) \notin Over /\ q.pc[t] \in Sleeping /\ q.pc[t] \notin Over \cup {"awake"}
  BY <1>2, <1>4 DEF Aside, Over, Sleeping
<1> QED BY <1>1, <1>4, <1>5, <1>6, <1>7, <1>8, <1>9, <1>10, <1>11, ActorKeeps

LEMMA SignalKeeps == ASSUME Inv, NEW t \in Threads, Signal(t) PROVE Inv'
<1>1. PICK q : process' = q /\ q = Unblock(process, {t})
  BY DEF Signal
<1>2. Formed(process) /\ OnlySleepers(process)
  BY InvSleepers DEF Inv
<1>3. /\ Formed(q) /\ SameThreads(process, q) /\ Others(process, q, t)
      /\ \A x \in Threads : IF x \in {t} /\ process.pc[x] \in Sleeping THEN Woken(process, q, x)
                                                                    ELSE q.pc[x] = process.pc[x]
      /\ \A x, u \in Threads : x \in q.joiners[u] <=> x \in process.joiners[u] /\ x \notin {t}
  BY ONLY <1>1, <1>2, UnblockFrees
<1>4. At(t) \in Sleeping /\ q.pc[t] \in {"awake", "exitAwake"}
  BY <1>3 DEF Signal, Sleeping, At, Woken
<1>5. Numbered(q)
  <2>1. process.pc[t] # "none" /\ q.pc[t] \notin {"none", "gone"}
    BY <1>4 DEF At, Sleeping
  <2> QED BY <1>3, <2>1, StaysNumbered DEF Inv
<1>6. awaited' = awaited /\ late' = late /\ poked' = poked \cup {t}
  BY DEF Signal
<1>7. \A x \in Threads \ {t} : ~(At(x) = "asleep" /\ q.pc[x] = "awake")
  BY <1>3 DEF At
<1>8. At(t) \notin Over /\ q.pc[t] \notin Over \cup Sleeping
  BY <1>4 DEF Over, Sleeping
<1>9. awaited[t] \in Threads
  BY <1>4 DEF Inv, SleepersListed
<1> QED BY <1>1, <1>3, <1>5, <1>6, <1>7, <1>8, <1>9, ActorKeeps DEF Inv

LEMMA CancelKeeps == ASSUME Inv, NEW t \in Threads, NEW u \in Threads, Cancel(t, u) PROVE Inv'
<1>1. PICK q : process' = q /\ q = CancelAll(process, {u})
  BY DEF Cancel
<1>2. Aside(t) /\ At(t) \in {"user", "destructor", "handler"}
  BY DEF Cancel, MayCall, Aside, Sleeping, Over
<1>3. Formed(process) /\ OnlySleepers(process)
  BY InvSleepers DEF Inv
<1>4. /\ Formed(q) /\ OnlySleepers(q) /\ SameThreads(process, q) /\ Others(process, q, t)
      /\ \A x \in Threads : q.pc[x] = process.pc[x] \/ (Woken(process, q, x) /\ Doomed(q, x))
  BY ONLY <1>1, <1>3, CancelAllFrees
<1>5. q.pc[t] = At(t)
  BY <1>2, <1>4 DEF Woken, At
<1>6. Numbered(q)
  <2>1. process.pc[t] # "none" /\ q.pc[t] \notin {"none", "gone"}
    BY <1>2, <1>5 DEF At
  <2> QED BY <1>4, <2>1, StaysNumbered DEF Inv
<1>7. awaited' = awaited /\ late' = late /\ poked' = poked
  BY DEF Cancel, SameWaits, waits
<1>8. \A x \in Threads \ {t} : At(x) = "asleep" /\ q.pc[x] = "awake" => Doomed(q, x)
  BY <1>4 DEF At
<1>9. At(t) \notin Over /\ q.pc[t] \notin Over \cup Sleeping \cup {"awake"}
  BY <1>2, <1>5 DEF Over, Sleeping
<1>10. \A v \in Threads : t \notin q.joiners[v]
  BY <1>4, <1>9 DEF OnlySleepers
<1> QED BY <1>1, <1>4, <1>6, <1>7, <1>8, <1>9, <1>10, ActorKeeps DEF Inv

----------------------------------------------------------------------------
\* A thread is created with an id nobody had.
LEMMA CreateKeeps == ASSUME Inv, NEW t \in Threads, Create(t) PROVE Inv'
<1> DEFINE u == process.tids + 1
<1>1. u \in Threads
  BY BoundsAssumption DEF Create, Threads, Inv, Formed
<1>2. PICK d : process' = [process EXCEPT !.tids = u, !.list = Append(@, u), !.pc[u] = "user",
                                          !.detached = @ \cup d]
  BY DEF Create
<1>3. /\ Whole(process') /\ SameKeys(process, process') /\ SameRights(process, process')
      /\ process'.joiners = process.joiners /\ process'.place = process.place
      /\ process'.tids = u /\ process'.list = Append(process.list, u)
      /\ process'.pc = [process.pc EXCEPT ![u] = "user"]
  BY <1>2 DEF Inv, Formed, Whole, SameKeys, SameRights
<1>4. At(u) = "none" /\ u \notin On(process.list)
  <2>1. u > process.tids
    BY DEF Inv, Formed
  <2> QED BY <1>1, <2>1 DEF Inv, Numbered, At
<1> HIDE DEF u
<1>5. process'.pc[u] = "user" /\ \A x \in Threads \ {u} : process'.pc[x] = process.pc[x]
  BY <1>1, <1>3 DEF Inv, Formed
<1>6. /\ process'.list \in Seq(Threads) /\ NoRepeat(process'.list)
      /\ On(process'.list) = On(process.list) \cup {u}
  <2>1. process.list \in Seq(Threads) /\ NoRepeat(process.list)
    BY DEF Inv, Formed
  <2> QED BY <1>1, <1>3, <1>4, <2>1, AppendAdds
<1>7. Formed(process')
  <2>1. process'.pc \in [Threads -> Points]
    BY <1>3 DEF Inv, Formed, Points
  <2>2. process'.tids \in Nat
    BY <1>3 DEF u, Inv, Formed
  <2> QED BY <1>3, <1>6, <2>1, <2>2 DEF Inv, Formed, SameKeys, SameRights
<1>8. Numbered(process')
  <2>1. \A x \in Threads : x > process'.tids => x # u /\ x > process.tids
    BY <1>3 DEF u, Threads, Inv, Formed
  <2>2. On(process.list) \subseteq Threads
    BY OnInThreads DEF Inv, Formed
  <2> QED BY <1>5, <1>6, <2>1, <2>2 DEF Inv, Numbered
<1>9. Others(process, process', u)
  BY <1>3, <1>5 DEF Others, Left, SameRights
<1>10. awaited' = awaited /\ late' = late /\ poked' = poked
  BY DEF Create, SameWaits, waits
<1>11. \A v \in Threads : u \notin process'.joiners[v]
  BY <1>1, <1>3, <1>4, InvSleepers DEF OnlySleepers, Sleeping, At
<1>12. \A x \in Threads \ {u} : ~(At(x) = "asleep" /\ process'.pc[x] = "awake")
  BY <1>5 DEF At
<1>13. At(u) \notin Over /\ process'.pc[u] \notin Over \cup Sleeping \cup {"awake"}
  BY <1>4, <1>5 DEF Over, Sleeping
<1> QED BY <1>1, <1>7, <1>8, <1>9, <1>10, <1>11, <1>12, <1>13, ActorKeeps DEF Inv

\* A deleted thread is on no list.
LEMMA ReapKeeps == ASSUME Inv, NEW t \in Threads, Reap(t) PROVE Inv'
<1>1. process' = [process EXCEPT !.list = Without(@, t), !.pc[t] = "gone",
                                 !.cancelstate[t] = "finished",
                                 !.canceltype[t] = "async",
                                 !.detached = @ \ {t}, !.depth[t] = 0]
  BY DEF Reap
<1>2. /\ Whole(process') /\ SameKeys(process, process')
      /\ process'.joiners = process.joiners /\ process'.place = process.place
      /\ process'.tids = process.tids /\ process'.list = Without(process.list, t)
      /\ process'.pc = [process.pc EXCEPT ![t] = "gone"]
      /\ process'.cancelstate = [process.cancelstate EXCEPT ![t] = "finished"]
      /\ process'.canceltype = [process.canceltype EXCEPT ![t] = "async"]
  BY <1>1 DEF Inv, Formed, Whole, SameKeys
<1>3. /\ process'.pc[t] = "gone"
      /\ \A x \in Threads \ {t} : /\ process'.pc[x] = process.pc[x]
                                  /\ process'.cancelstate[x] = process.cancelstate[x]
                                  /\ process'.canceltype[x] = process.canceltype[x]
  BY <1>2 DEF Inv, Formed
<1>4. /\ process'.list \in Seq(Threads) /\ NoRepeat(process'.list)
      /\ On(process'.list) = On(process.list) \ {t}
  <2>1. process.list \in Seq(Threads) /\ NoRepeat(process.list)
    BY DEF Inv, Formed
  <2> QED BY <1>2, <2>1, WithoutErases
<1>5. Formed(process')
  <2>1. /\ process'.pc \in [Threads -> Points]
        /\ process'.cancelstate \in [Threads -> States]
        /\ process'.canceltype \in [Threads -> Types]
    BY <1>2 DEF Inv, Formed, Points, States, Types
  <2> QED BY <1>2, <1>4, <2>1 DEF Inv, Formed, SameKeys
<1>6. At(t) = "ended"
  BY DEF Reap
<1>7. Numbered(process')
  <2>1. On(process.list) \subseteq Threads
    BY OnInThreads DEF Inv, Formed
  <2>2. ~(t > process.tids)
    BY <1>6 DEF Inv, Numbered, At
  <2> QED BY <1>2, <1>3, <1>4, <2>1, <2>2 DEF Inv, Numbered
<1>8. Others(process, process', t)
  BY <1>2, <1>3 DEF Others, Left
<1>9. awaited' = awaited /\ late' = late /\ poked' = poked
  BY DEF Reap, SameWaits, waits
<1>10. \A v \in Threads : t \notin process'.joiners[v]
  BY <1>2, <1>6, InvSleepers DEF OnlySleepers, Sleeping, At
<1>11. \A x \in Threads \ {t} : ~(At(x) = "asleep" /\ process'.pc[x] = "awake")
  BY <1>3 DEF At
<1>12. At(t) \in Over /\ process'.pc[t] \in Over /\ process'.pc[t] \notin Sleeping \cup {"awake"}
  BY <1>3, <1>6 DEF Over, Sleeping
<1> QED BY <1>5, <1>7, <1>8, <1>9, <1>10, <1>11, <1>12, ActorKeeps DEF Inv

----------------------------------------------------------------------------
\* The loop of exit(), after whatever exit() did first.
LEMMA ExitLoopKeeps ==
  ASSUME Inv, NEW t \in Threads, Aside(t),
         NEW p, Formed(p), OnlySleepers(p), SameThreads(process, p), Others(process, p, t),
         p.pc[t] = process.pc[t],
         NEW i \in Nat \ {0}, NEW q, process' = q, q = ExitLoop(p, t, i),
         \A x \in Threads \ {t} : At(x) = "asleep" => x \in poked' \/ p.pc[x] = At(x),
         awaited' \in [Threads -> Threads \cup {None}],
         \A x \in Threads \ {t} : awaited'[x] = awaited[x] /\ (x \in late' <=> x \in late)
                                  /\ (x \in poked => x \in poked'),
         Joinable(p, t, i) # {} =>
           /\ awaited'[t] = p.list[Min(Joinable(p, t, i))]
           /\ At(p.list[Min(Joinable(p, t, i))]) = "ended" => t \in late'
  PROVE  Inv'
<1>1. process.pc[t] \notin Sleeping \cup Over \cup {"none"}
  BY DEF Aside, At
<1>2. p.pc[t] \notin Sleeping
  BY <1>1
<1>3. /\ Formed(q) /\ SameThreads(p, q) /\ Others(p, q, t)
      /\ \A x \in Threads \ {t} : \/ q.pc[x] = p.pc[x] \/ Doomed(q, x)
                                  \/ q.pc[t] = "ended" /\ x \in p.joiners[t]
      /\ IF Joinable(p, t, i) = {}
         THEN /\ q.pc[t] \in {"destructor", "handler", "ended"}
              /\ \A u \in Threads : t \notin q.joiners[u]
              /\ q.pc[t] = "ended" => q.joiners[t] = {}
         ELSE /\ q.pc[t] = "exitAsleep"
              /\ p.list[Min(Joinable(p, t, i))] \in On(p.list)
              /\ \A v \in Threads : t \in q.joiners[v] <=> v = p.list[Min(Joinable(p, t, i))]
  BY ONLY <1>2, Formed(p), OnlySleepers(p), t \in Threads, i \in Nat \ {0},
          q = ExitLoop(p, t, i), ExitLoopSteps
<1>4. SameThreads(process, q) /\ Others(process, q, t)
  BY <1>3, OthersTransitive DEF SameThreads
<1>5. q.pc[t] \in {"destructor", "handler", "ended", "exitAsleep"}
  BY <1>3
<1>6. Numbered(q)
  BY <1>1, <1>3, <1>4, <1>5, StaysNumbered DEF Inv
<1>7. ASSUME NEW x \in Threads \ {t}, At(x) = "asleep", q.pc[x] = "awake"
      PROVE  \/ Doomed(q, x) \/ x \in poked'
             \/ q.pc[t] = "ended" /\ x \in process.joiners[t]
  <2>1. x \in p.joiners[t] => x \in process.joiners[t]
    BY DEF Others, Left
  <2> QED BY <1>3, <1>7, <2>1
<1>8. At(t) \notin Over /\ q.pc[t] # "awake"
  BY <1>1, <1>5 DEF At
<1>9. CASE Joinable(p, t, i) = {}
  <2>1. q.pc[t] \notin Sleeping /\ (q.pc[t] \in Over => q.joiners[t] = {})
    BY <1>3, <1>9 DEF Sleeping, Over
  <2>2. \A u \in Threads : t \notin q.joiners[u]
    BY <1>3, <1>9
  <2> QED BY <1>3, <1>4, <1>6, <1>7, <1>8, <2>1, <2>2, ActorKeeps
<1>10. CASE Joinable(p, t, i) # {}
  <2>1. PICK u : /\ u = p.list[Min(Joinable(p, t, i))]
                 /\ awaited'[t] = u /\ (At(u) = "ended" => t \in late')
    BY <1>10
  <2>2. /\ q.pc[t] = "exitAsleep" /\ u \in On(process.list)
        /\ \A v \in Threads : t \in q.joiners[v] <=> v = u
    BY <1>3, <1>10, <2>1 DEF SameThreads
  <2>3. u \in Threads /\ At(u) # "gone"
    BY <2>2, OnInThreads DEF Inv, Formed, Numbered, At
  <2>4. t \in late' \/ q.pc[u] \notin Over
    <3>1. q.pc[u] \in Over => At(u) \in Over
      BY <1>4, <2>2, <2>3 DEF Others, Left, Woken, At, Over
    <3> QED BY <2>1, <2>3, <3>1 DEF Over
  <2>5. q.pc[t] \in Sleeping /\ q.pc[t] \notin Over
    BY <2>2 DEF Sleeping, Over
  <2> QED BY <1>3, <1>4, <1>6, <1>7, <1>8, <2>1, <2>2, <2>3, <2>4, <2>5, ActorKeeps
<1> QED BY <1>9, <1>10

LEMMA ExitGoesOnKeeps == ASSUME Inv, NEW t \in Threads, ExitGoesOn(t) PROVE Inv'
<1>1. PICK q : process' = q /\ q = ExitLoop(process, t, process.place[t])
  BY DEF ExitGoesOn
<1>2. Aside(t)
  BY DEF ExitGoesOn, Aside, Sleeping, Over
<1>3. Formed(process) /\ OnlySleepers(process) /\ process.place[t] \in Nat \ {0}
  BY InvSleepers DEF Inv, Formed
<1>4. SameThreads(process, process) /\ Others(process, process, t)
  BY DEF SameThreads, Others, Left
<1> DEFINE i == process.place[t]
<1>5. /\ awaited' \in [Threads -> Threads \cup {None}]
      /\ \A x \in Threads \ {t} : awaited'[x] = awaited[x] /\ (x \in late' <=> x \in late)
                                  /\ (x \in poked => x \in poked')
      /\ Joinable(process, t, i) # {} =>
           /\ awaited'[t] = process.list[Min(Joinable(process, t, i))]
           /\ At(process.list[Min(Joinable(process, t, i))]) = "ended" => t \in late'
  <2>1. CASE Joinable(process, t, i) = {}
    BY <2>1 DEF ExitGoesOn, Leaves, Inv
  <2>2. CASE Joinable(process, t, i) # {}
    <3>1. PICK u : u = process.list[Min(Joinable(process, t, i))]
      OBVIOUS
    <3>2. Awaits(t, u) /\ poked' = poked \ {t}
      BY <2>2, <3>1 DEF ExitGoesOn
    <3>3. u \in Threads
      <4>1. Joinable(process, t, i) \in SUBSET Nat
        BY <1>3 DEF Joinable, Formed
      <4>2. Min(Joinable(process, t, i)) \in Joinable(process, t, i)
        BY <2>2, <4>1, MinIsIn
      <4>3. Min(Joinable(process, t, i)) \in 1..Len(process.list)
        BY <1>3, <4>2 DEF Joinable, Formed
      <4> QED BY <1>3, <3>1, <4>3 DEF Formed
    <3> QED BY <3>1, <3>2, <3>3 DEF Awaits, Inv
  <2> QED BY <2>1, <2>2
<1>6. \A x \in Threads \ {t} : process.pc[x] = At(x)
  BY DEF At
<1> QED BY <1>1, <1>2, <1>3, <1>4, <1>5, <1>6, ExitLoopKeeps

\* exit(): everybody asleep is unblocked, and that is on record.
LEMMA ProcessExitKeeps == ASSUME Inv, NEW t \in Threads, ProcessExit(t) PROVE Inv'
<1>1. PICK m : m = CancelAll(process, Listed)
  OBVIOUS
<1>2. PICK p : p = Unblock(m, Listed)
  OBVIOUS
<1>3. PICK q : process' = q /\ q = ExitLoop(p, t, 1)
  BY <1>1, <1>2 DEF ProcessExit
<1>4. Aside(t)
  BY DEF ProcessExit, InUser, Aside, Sleeping, Over
<1>5. Formed(process) /\ OnlySleepers(process) /\ process.pc[t] \notin Sleeping
  BY <1>4, InvSleepers DEF Inv, Aside, At
<1>6. /\ Formed(m) /\ OnlySleepers(m) /\ SameThreads(process, m) /\ m.detached = process.detached
      /\ Others(process, m, t)
      /\ \A x \in Threads : m.pc[x] = process.pc[x] \/ (Woken(process, m, x) /\ Doomed(m, x))
  BY ONLY <1>1, <1>5, CancelAllFrees
<1>7. m.pc[t] = process.pc[t] /\ m.pc[t] \notin Sleeping
  BY <1>5, <1>6 DEF Woken, Sleeping
<1>8. /\ Formed(p) /\ OnlySleepers(p) /\ SameThreads(m, p) /\ p.detached = m.detached
      /\ Others(m, p, t)
      /\ \A x \in Threads : IF x \in Listed /\ m.pc[x] \in Sleeping THEN Woken(m, p, x)
                                                                   ELSE p.pc[x] = m.pc[x]
  BY ONLY <1>2, <1>6, UnblockFrees
<1>9. p.pc[t] = process.pc[t]
  BY <1>7, <1>8
<1>10. SameThreads(process, p) /\ Others(process, p, t)
  BY <1>6, <1>8, OthersTransitive DEF SameThreads
<1>11. /\ p.list = process.list
       /\ Joinable(p, t, 1) = Joinable(process, t, 1)
  BY <1>6, <1>8, <1>10 DEF SameThreads, Joinable
<1> DEFINE found == Joinable(process, t, 1)
<1>12. /\ awaited' \in [Threads -> Threads \cup {None}]
       /\ \A x \in Threads \ {t} : awaited'[x] = awaited[x] /\ (x \in late' <=> x \in late)
       /\ found # {} => /\ awaited'[t] = process.list[Min(found)]
                        /\ At(process.list[Min(found)]) = "ended" => t \in late'
  <2>1. CASE found = {}
    BY <2>1 DEF ProcessExit, Inv
  <2>2. CASE found # {}
    <3>1. PICK u : u = process.list[Min(found)]
      OBVIOUS
    <3>2. Awaits(t, u)
      BY <2>2, <3>1 DEF ProcessExit
    <3>3. u \in Threads
      <4>1. found \in SUBSET Nat
        BY <1>5 DEF Joinable, Formed
      <4>2. Min(found) \in found
        BY <2>2, <4>1, MinIsIn
      <4>3. Min(found) \in 1..Len(process.list)
        BY <1>5, <4>2 DEF Joinable, Formed
      <4> QED BY <1>5, <3>1, <4>3 DEF Formed
    <3> QED BY <3>1, <3>2, <3>3 DEF Awaits, Inv
  <2> QED BY <2>1, <2>2
<1>13. \A x \in Threads \ {t} : (x \in poked => x \in poked') /\ (At(x) = "asleep" => x \in poked')
  BY DEF ProcessExit
<1> HIDE DEF found
<1>14. Joinable(p, t, 1) # {} =>
         /\ awaited'[t] = p.list[Min(Joinable(p, t, 1))]
         /\ At(p.list[Min(Joinable(p, t, 1))]) = "ended" => t \in late'
  BY <1>11, <1>12 DEF found
<1> QED BY <1>3, <1>4, <1>8, <1>9, <1>10, <1>12, <1>13, <1>14, ExitLoopKeeps

----------------------------------------------------------------------------
LEMMA InitInv == Init => Inv
<1> SUFFICES ASSUME Init PROVE Inv
  OBVIOUS
<1>1. 1 \in Threads /\ None \notin Threads
  BY BoundsAssumption DEF Threads, None
<1>2. process.list = <<1>> /\ On(<<1>>) = {1} /\ NoRepeat(<<1>>) /\ <<1>> \in Seq(Threads)
  BY <1>1 DEF Init, On, NoRepeat
<1>3. process.pc = [t \in Threads |-> IF t = 1 THEN "user" ELSE "none"]
  BY DEF Init
<1>4. Formed(process)
  <2>1. Whole(process)
    BY DEF Init, Whole
  <2>2. /\ process.tids = 1 /\ process.keyIds = 0 /\ process.keys = <<>>
        /\ process.pc \in [Threads -> Points]
        /\ process.cancelstate \in [Threads -> States]
        /\ process.canceltype \in [Threads -> Types]
        /\ process.joiners \in [Threads -> SUBSET Threads]
        /\ process.place \in [Threads -> Nat \ {0}]
    BY DEF Init, Points, States, Types
  <2> QED BY <1>2, <2>1, <2>2 DEF Formed
<1>5. Numbered(process)
  BY <1>1, <1>2, <1>3 DEF Numbered, Init
<1>6. \A t \in Threads : At(t) \in {"user", "none"} /\ process.joiners[t] = {}
  BY DEF At, Init
<1>7. awaited \in [Threads -> Threads \cup {None}]
  BY DEF Init
<1> QED BY <1>4, <1>5, <1>6, <1>7
        DEF Inv, SleepersListed, ListedAwait, NoJoinerForgotten, JoinReturnsAfterEnd, Sleeping

LEMMA StepInv == Inv /\ [Next]_vars => Inv'
<1> SUFFICES ASSUME Inv, [Next]_vars PROVE Inv'
  OBVIOUS
<1>1. ASSUME NEW t \in Threads, ThreadStep(t) PROVE Inv'
  BY <1>1, JoinReturnsKeeps, SignalKeeps, SetCancelStateKeeps, SetCancelTypeKeeps, PrivateKeeps,
     KeyCreateKeeps, KeyDeleteKeeps, ExitKeeps, HonourKeeps, DestructorDoneKeeps,
     HandlerDoneKeeps, ReturnKeeps, ReapKeeps, CreateKeeps, ProcessExitKeeps, ExitGoesOnKeeps
     DEF ThreadStep
<1>2. ASSUME NEW t \in Threads, NEW u \in Threads, Detach(t, u) \/ Join(t, u) \/ Cancel(t, u)
      PROVE  Inv'
  BY <1>2, PrivateKeeps, JoinKeeps, CancelKeeps
<1>3. CASE UNCHANGED vars
  <2>1. process' = process /\ awaited' = awaited /\ poked' = poked /\ late' = late
    BY <1>3 DEF vars, waits
  <2> QED BY <2>1 DEF Inv, SleepersListed, ListedAwait, NoJoinerForgotten, JoinReturnsAfterEnd,
                      At, Ended, Pending
<1> QED BY <1>1, <1>2, <1>3 DEF Next

\* The invariant of the joins holds always.
THEOREM Invariance == SafeSpec => []Inv
BY InitInv, StepInv, PTL DEF SafeSpec

\* pthread_join: the call goes on because the thread has ended, or a signal or
\* exit() unblocked the caller, or the caller is itself cancelled.
THEOREM JoinsReturnWithTheEnd == SafeSpec => []JoinReturnsAfterEnd
<1>1. Inv => JoinReturnsAfterEnd
  BY DEF Inv
<1> QED BY <1>1, Invariance, PTL

\* destroy_thread: nobody sleeps on in a join, or in exit(), for a thread that
\* ended after he joined it.
THEOREM JoinersAreAwaked == SafeSpec => []NoJoinerForgotten
<1>1. Inv => NoJoinerForgotten
  BY DEF Inv
<1> QED BY <1>1, Invariance, PTL

----------------------------------------------------------------------------
\* The types of the other fields: keys, handlers, detached threads.
Rest(p) == /\ p.detached \in SUBSET Threads
           /\ p.key \in [Threads -> Keys \cup {None}]
           /\ p.keyIds \in Nat
           /\ p.keys \in Seq(Keys) /\ NoRepeat(p.keys)
           /\ \A k \in On(p.keys) : k <= p.keyIds
           /\ p.holders \in [Keys -> SUBSET Threads]
           /\ p.depth \in [Threads -> 0..MaxDepth]

SameRest(p, q) == /\ Whole(q)
                  /\ q.detached = p.detached /\ q.key = p.key
                  /\ q.keyIds = p.keyIds /\ q.keys = p.keys
                  /\ q.holders = p.holders /\ q.depth = p.depth /\ q.place = p.place

LEMMA SameRestKeeps == ASSUME NEW p, NEW q, Rest(p), SameRest(p, q) PROVE Rest(q)
BY DEF Rest, SameRest

LEMMA UnblockRest ==
  ASSUME NEW p, Whole(p), NEW S, NEW q, q = Unblock(p, S) PROVE SameRest(p, q)
BY DEF Unblock, Whole, SameRest

LEMMA CancelAllRest ==
  ASSUME NEW p, Whole(p), NEW S, NEW q, q = CancelAll(p, S) PROVE SameRest(p, q)
<1>1. PICK m : /\ m = [p EXCEPT !.cancelstate = [u \in Threads |-> IF u \in Cancellable(p, S)
                                                                  THEN "canceled" ELSE @[u]]]
               /\ q = Unblock(m, {u \in Cancellable(p, S) : p.canceltype[u] = "async"})
  BY DEF CancelAll
<1>2. SameRest(p, m)
  BY <1>1 DEF Whole, SameRest
<1>3. PICK W : q = Unblock(m, W)
  BY <1>1
<1>4. SameRest(m, q)
  BY <1>2, <1>3, UnblockRest DEF SameRest
<1> QED BY <1>2, <1>4 DEF SameRest

LEMMA FinishRest ==
  ASSUME NEW p, Whole(p), NEW t, NEW q, q = Finish(p, t) PROVE SameRest(p, q)
<1>1. PICK m : m = Unblock(p, p.joiners[t]) /\ q = [m EXCEPT !.pc[t] = "ended"]
  BY DEF Finish
<1>2. SameRest(p, m)
  BY <1>1, UnblockRest
<1>3. SameRest(m, q)
  BY <1>1, <1>2 DEF SameRest, Whole
<1> QED BY <1>2, <1>3 DEF SameRest

LEMMA WaitForRest ==
  ASSUME NEW p, Whole(p), NEW t, NEW u, NEW point, NEW q, q = WaitFor(p, t, u, point)
  PROVE  SameRest(p, q)
BY DEF WaitFor, Whole, SameRest

LEMMA GoOnRest ==
  ASSUME NEW p, Whole(p), Rest(p), NEW t \in Threads, NEW i \in Nat \ {0},
         NEW q, q = GoOn(p, t, i)
  PROVE  Rest(q)
<1> DEFINE left == WithValue(p, t, i)
           j == Min(left)
<1>1. CASE left # {}
  <2>1. p.keys[j] \in Keys
    <3>1. left \subseteq 1..Len(p.keys)
      BY DEF WithValue, Rest
    <3>2. left \in SUBSET Nat
      BY <3>1
    <3> HIDE DEF left
    <3>3. j \in 1..Len(p.keys)
      BY <1>1, <3>1, <3>2, MinIsIn
    <3> HIDE DEF j
    <3> QED BY <3>3 DEF Rest
  <2>2. q = [p EXCEPT !.holders[p.keys[j]] = @ \ {t}, !.place[t] = j,
                      !.key[t] = p.keys[j], !.pc[t] = "destructor"]
    BY <1>1 DEF GoOn
  <2>3. PICK k : k = p.keys[j]
    OBVIOUS
  <2> HIDE DEF left, j
  <2>4. /\ q.holders = [p.holders EXCEPT ![k] = @ \ {t}]
        /\ q.key = [p.key EXCEPT ![t] = k]
        /\ q.detached = p.detached /\ q.keyIds = p.keyIds /\ q.keys = p.keys
        /\ q.depth = p.depth
    BY <2>2, <2>3 DEF Whole
  <2>5. q.holders \in [Keys -> SUBSET Threads] /\ q.key \in [Threads -> Keys \cup {None}]
    BY <2>1, <2>3, <2>4 DEF Rest
  <2> QED BY <2>4, <2>5 DEF Rest
<1>2. CASE left = {} /\ p.depth[t] > 0
  <2>1. q = [p EXCEPT !.depth[t] = @ - 1, !.place[t] = 1, !.key[t] = None, !.pc[t] = "handler"]
    BY <1>2 DEF GoOn
  <2>2. /\ q.depth = [p.depth EXCEPT ![t] = @ - 1]
        /\ q.key = [p.key EXCEPT ![t] = None]
        /\ q.detached = p.detached /\ q.keyIds = p.keyIds /\ q.keys = p.keys
        /\ q.holders = p.holders
    BY <2>1 DEF Whole
  <2>3. p.depth[t] - 1 \in 0..MaxDepth
    BY <1>2, BoundsAssumption DEF Rest
  <2>4. q.depth \in [Threads -> 0..MaxDepth] /\ q.key \in [Threads -> Keys \cup {None}]
    BY <2>2, <2>3 DEF Rest
  <2> QED BY <2>2, <2>4 DEF Rest
<1>3. CASE left = {} /\ ~(p.depth[t] > 0)
  <2>1. PICK m : m = [p EXCEPT !.place[t] = 1, !.key[t] = None] /\ q = Finish(m, t)
    BY <1>3 DEF GoOn
  <2>2. /\ Whole(m) /\ m.key = [p.key EXCEPT ![t] = None]
        /\ m.detached = p.detached /\ m.keyIds = p.keyIds /\ m.keys = p.keys
        /\ m.holders = p.holders /\ m.depth = p.depth
    BY <2>1 DEF Whole
  <2>3. Rest(m)
    BY <2>2 DEF Rest
  <2>4. SameRest(m, q)
    BY <2>1, <2>2, FinishRest
  <2> QED BY <2>3, <2>4, SameRestKeeps
<1> QED BY <1>1, <1>2, <1>3

LEMMA BeginExitRest ==
  ASSUME NEW p, Whole(p), Rest(p), NEW t \in Threads, NEW q, q = BeginExit(p, t)
  PROVE  Rest(q)
<1>1. PICK m : m = [p EXCEPT !.cancelstate[t] = "finished"] /\ q = GoOn(m, t, 1)
  BY DEF BeginExit
<1>2. SameRest(p, m)
  BY <1>1 DEF Whole, SameRest
<1>3. Whole(m) /\ Rest(m) /\ 1 \in Nat \ {0} /\ q = GoOn(m, t, 1)
  <2>1. Whole(m)
    BY <1>2 DEF SameRest
  <2>2. Rest(m)
    BY ONLY <1>2, Rest(p), SameRestKeeps
  <2> QED BY <1>1, <2>1, <2>2
<1> QED BY ONLY <1>3, t \in Threads, GoOnRest

LEMMA ExitLoopRest ==
  ASSUME NEW p, Whole(p), Rest(p), NEW t \in Threads, NEW i, NEW q, q = ExitLoop(p, t, i)
  PROVE  Rest(q)
<1>1. PICK m, S, j, u : /\ m = CancelAll(p, S)
                        /\ \/ q = BeginExit(m, t)
                           \/ q = WaitFor([m EXCEPT !.place[t] = j], t, u, "exitAsleep")
  BY DEF ExitLoop
<1>2. SameRest(p, m)
  BY <1>1, CancelAllRest
<1>3. Whole(m) /\ Rest(m)
  BY <1>2, SameRestKeeps DEF SameRest
<1>4. CASE q = BeginExit(m, t)
  BY <1>3, <1>4, BeginExitRest
<1>5. CASE q = WaitFor([m EXCEPT !.place[t] = j], t, u, "exitAsleep")
  <2>1. PICK r : r = [m EXCEPT !.place[t] = j] /\ q = WaitFor(r, t, u, "exitAsleep")
    BY <1>5
  <2>2. Whole(r) /\ Rest(r)
    BY <1>3, <2>1 DEF Whole, Rest
  <2>3. SameRest(r, q)
    <3>1. Whole(r) /\ q = WaitFor(r, t, u, "exitAsleep")
      BY <2>1, <2>2
    <3> QED BY ONLY <3>1, WaitForRest
  <2> QED BY <2>2, <2>3, SameRestKeeps
<1> QED BY <1>1, <1>4, <1>5

----------------------------------------------------------------------------
\* Every action keeps the other fields' types.
LEMMA CallRest ==
  ASSUME Inv, Rest(process), NEW t \in Threads,
         \/ JoinReturns(t) \/ Signal(t) \/ SetCancelState(t) \/ SetCancelType(t) \/ Return(t)
         \/ \E u \in Threads : Join(t, u) \/ Cancel(t, u)
  PROVE  Rest(process')
<1>0. Whole(process)
  BY DEF Inv, Formed
<1>1. CASE JoinReturns(t) \/ SetCancelState(t) \/ SetCancelType(t)
  <2>1. SameRest(process, process')
    BY <1>0, <1>1 DEF JoinReturns, SetCancelState, SetCancelType, Whole, SameRest
  <2> QED BY <2>1, SameRestKeeps
<1>2. CASE Signal(t)
  <2>1. PICK q : process' = q /\ q = Unblock(process, {t})
    BY <1>2 DEF Signal
  <2>2. SameRest(process, q)
    BY <1>0, <2>1, UnblockRest
  <2> QED BY <2>1, <2>2, SameRestKeeps
<1>3. CASE Return(t)
  <2>1. PICK q : process' = q /\ q = Finish(process, t)
    BY <1>3 DEF Return
  <2>2. SameRest(process, q)
    BY <1>0, <2>1, FinishRest
  <2> QED BY <2>1, <2>2, SameRestKeeps
<1>4. ASSUME NEW u \in Threads, Join(t, u) PROVE Rest(process')
  <2>1. PICK q : process' = q /\ q = WaitFor(process, t, u, "asleep")
    BY <1>4 DEF Join
  <2>2. SameRest(process, q)
    BY <1>0, <2>1, WaitForRest
  <2> QED BY <2>1, <2>2, SameRestKeeps
<1>5. ASSUME NEW u \in Threads, Cancel(t, u) PROVE Rest(process')
  <2>1. PICK q : process' = q /\ q = CancelAll(process, {u})
    BY <1>5 DEF Cancel
  <2>2. SameRest(process, q)
    BY <1>0, <2>1, CancelAllRest
  <2> QED BY <2>1, <2>2, SameRestKeeps
<1> QED BY <1>1, <1>2, <1>3, <1>4, <1>5

LEMMA EndRest ==
  ASSUME Inv, Rest(process), NEW t \in Threads,
         \/ Exit(t) \/ Honour(t) \/ DestructorDone(t) \/ HandlerDone(t)
         \/ ProcessExit(t) \/ ExitGoesOn(t)
  PROVE  Rest(process')
<1>0. Whole(process) /\ Formed(process)
  BY DEF Inv, Formed
<1>1. CASE Exit(t) \/ Honour(t)
  <2>1. PICK q : process' = q /\ q = BeginExit(process, t)
    BY <1>1 DEF Exit, Honour
  <2> QED BY <1>0, <2>1, BeginExitRest
<1>2. CASE DestructorDone(t) \/ HandlerDone(t)
  <2>1. PICK i \in {NextIndex(t), Len(process.keys) + 1} : process' = GoOn(process, t, i)
    BY <1>2 DEF DestructorDone, HandlerDone
  <2>2. i \in Nat \ {0}
    BY <1>0 DEF NextIndex, Formed
  <2>3. PICK q : process' = q /\ q = GoOn(process, t, i)
    BY <2>1
  <2> QED BY <1>0, <2>2, <2>3, GoOnRest
<1>3. CASE ProcessExit(t)
  <2>1. PICK m : m = CancelAll(process, Listed)
    OBVIOUS
  <2>2. PICK p : p = Unblock(m, Listed)
    OBVIOUS
  <2>3. PICK q : process' = q /\ q = ExitLoop(p, t, 1)
    BY <1>3, <2>1, <2>2 DEF ProcessExit
  <2>4. SameRest(process, m)
    BY ONLY <1>0, <2>1, CancelAllRest
  <2>5. SameRest(m, p)
    BY <2>2, <2>4, UnblockRest DEF SameRest
  <2>6. Whole(p) /\ Rest(p)
    BY <2>4, <2>5, SameRestKeeps DEF SameRest
  <2> QED BY <2>3, <2>6, ExitLoopRest
<1>4. CASE ExitGoesOn(t)
  <2>1. PICK q : process' = q /\ q = ExitLoop(process, t, process.place[t])
    BY <1>4 DEF ExitGoesOn
  <2> QED BY <1>0, <2>1, ExitLoopRest
<1> QED BY <1>1, <1>2, <1>3, <1>4

LEMMA KeyRest ==
  ASSUME Inv, Rest(process), NEW t \in Threads,
         KeyCreate(t) \/ KeyDelete(t) \/ SetSpecific(t)
  PROVE  Rest(process')
<1>0. Whole(process)
  BY DEF Inv, Formed
<1>1. CASE KeyCreate(t)
  <2> DEFINE k == process.keyIds + 1
  <2>1. /\ process'.keyIds = k /\ process'.keys = Append(process.keys, k)
        /\ process'.detached = process.detached /\ process'.key = process.key
        /\ process'.holders = process.holders /\ process'.depth = process.depth
    BY <1>0, <1>1 DEF KeyCreate, Whole
  <2>2. k \in Keys /\ k \in Nat
    BY <1>1, BoundsAssumption DEF KeyCreate, Keys, Rest
  <2>3. k \notin On(process.keys)
    BY DEF Rest
  <2> HIDE DEF k
  <2>4. /\ process'.keys \in Seq(Keys) /\ NoRepeat(process'.keys)
        /\ On(process'.keys) = On(process.keys) \cup {k}
    <3>1. process.keys \in Seq(Keys) /\ NoRepeat(process.keys)
      BY DEF Rest
    <3> QED BY <2>1, <2>2, <2>3, <3>1, AppendAdds
  <2>5. \A l \in On(process'.keys) : l <= process'.keyIds
    <3>1. \A l \in On(process.keys) : l \in Keys /\ l <= process.keyIds
      BY OnInThreads DEF Rest
    <3> QED BY <2>1, <2>2, <2>4, <3>1 DEF k, Keys, Rest
  <2> QED BY <2>1, <2>2, <2>4, <2>5 DEF Rest
<1>2. CASE KeyDelete(t)
  <2>1. PICK i \in DOMAIN process.keys :
          process' = [process EXCEPT !.keys = Without(@, process.keys[i]),
                                     !.holders[process.keys[i]] = {}]
    BY <1>2 DEF KeyDelete
  <2>2. PICK k \in Keys : process' = [process EXCEPT !.keys = Without(@, k), !.holders[k] = {}]
    <3>1. process.keys[i] \in Keys
      BY DEF Rest
    <3> QED BY <2>1, <3>1
  <2>3. /\ process'.keyIds = process.keyIds /\ process'.keys = Without(process.keys, k)
        /\ process'.detached = process.detached /\ process'.key = process.key
        /\ process'.holders = [process.holders EXCEPT ![k] = {}]
        /\ process'.depth = process.depth
    BY <1>0, <2>2 DEF Whole
  <2>4. /\ process'.keys \in Seq(Keys) /\ NoRepeat(process'.keys)
        /\ On(process'.keys) = On(process.keys) \ {k}
    <3>1. process.keys \in Seq(Keys) /\ NoRepeat(process.keys)
      BY DEF Rest
    <3>2. /\ Without(process.keys, k) \in Seq(Keys) /\ NoRepeat(Without(process.keys, k))
          /\ On(Without(process.keys, k)) = On(process.keys) \ {k}
      BY <3>1, WithoutErases
    <3> QED BY <2>3, <3>2
  <2>5. process'.holders \in [Keys -> SUBSET Threads]
    BY <2>3 DEF Rest
  <2> QED BY <2>3, <2>4, <2>5 DEF Rest
<1>3. CASE SetSpecific(t)
  <2>1. PICK k \in On(process.keys), S \in {{}, {t}} :
          process' = [process EXCEPT !.holders[k] = (@ \ {t}) \cup S]
    BY <1>3 DEF SetSpecific
  <2>2. /\ process'.keyIds = process.keyIds /\ process'.keys = process.keys
        /\ process'.detached = process.detached /\ process'.key = process.key
        /\ process'.holders = [process.holders EXCEPT ![k] = (@ \ {t}) \cup S]
        /\ process'.depth = process.depth
    BY <1>0, <2>1 DEF Whole
  <2>3. k \in Keys
    BY OnInThreads DEF Rest
  <2>4. process'.holders \in [Keys -> SUBSET Threads]
    BY <2>2, <2>3 DEF Rest
  <2> QED BY <2>2, <2>4 DEF Rest
<1> QED BY <1>1, <1>2, <1>3

LEMMA OtherRest ==
  ASSUME Inv, Rest(process), NEW t \in Threads,
         \/ CleanupPush(t) \/ CleanupPop(t) \/ Create(t) \/ Reap(t)
         \/ \E u \in Threads : Detach(t, u)
  PROVE  Rest(process')
<1>0. Whole(process)
  BY DEF Inv, Formed
<1>1. CASE CleanupPush(t) \/ CleanupPop(t)
  <2>1. /\ process'.keyIds = process.keyIds /\ process'.keys = process.keys
        /\ process'.detached = process.detached /\ process'.key = process.key
        /\ process'.holders = process.holders
        /\ process'.depth \in {[process.depth EXCEPT ![t] = @ + 1],
                               [process.depth EXCEPT ![t] = @ - 1]}
    BY <1>0, <1>1 DEF CleanupPush, CleanupPop, Whole
  <2>2. process'.depth \in [Threads -> 0..MaxDepth]
    <3>1. CASE CleanupPush(t)
      <4>1. process'.depth = [process.depth EXCEPT ![t] = @ + 1]
        BY <1>0, <3>1 DEF CleanupPush, Whole
      <4> QED BY <3>1, <4>1, BoundsAssumption DEF CleanupPush, Rest
    <3>2. CASE CleanupPop(t)
      <4>1. process'.depth = [process.depth EXCEPT ![t] = @ - 1]
        BY <1>0, <3>2 DEF CleanupPop, Whole
      <4> QED BY <3>2, <4>1, BoundsAssumption DEF CleanupPop, Rest
    <3> QED BY <1>1, <3>1, <3>2
  <2> QED BY <2>1, <2>2 DEF Rest
<1>2. CASE Create(t)
  <2> DEFINE u == process.tids + 1
  <2>1. PICK d \in {{}, {u}} :
          process' = [process EXCEPT !.tids = u, !.list = Append(@, u), !.pc[u] = "user",
                                     !.detached = @ \cup d]
    BY <1>2 DEF Create
  <2>2. u \in Threads
    <3>1. process.tids \in Nat /\ process.tids < MaxThreads
      BY <1>2 DEF Create, Inv, Formed
    <3> QED BY <3>1, BoundsAssumption DEF Threads
  <2> HIDE DEF u
  <2>3. /\ process'.keyIds = process.keyIds /\ process'.keys = process.keys
        /\ process'.detached = process.detached \cup d /\ process'.key = process.key
        /\ process'.holders = process.holders /\ process'.depth = process.depth
    BY <1>0, <2>1 DEF Whole
  <2> QED BY <2>2, <2>3 DEF Rest
<1>3. CASE Reap(t)
  <2>1. /\ process'.keyIds = process.keyIds /\ process'.keys = process.keys
        /\ process'.detached = process.detached \ {t} /\ process'.key = process.key
        /\ process'.holders = process.holders
        /\ process'.depth = [process.depth EXCEPT ![t] = 0]
    BY <1>0, <1>3 DEF Reap, Whole
  <2>2. process'.depth \in [Threads -> 0..MaxDepth]
    BY <2>1, BoundsAssumption DEF Rest
  <2> QED BY <2>1, <2>2 DEF Rest
<1>4. ASSUME NEW u \in Threads, Detach(t, u) PROVE Rest(process')
  <2>1. /\ process'.keyIds = process.keyIds /\ process'.keys = process.keys
        /\ process'.detached = process.detached \cup {u} /\ process'.key = process.key
        /\ process'.holders = process.holders /\ process'.depth = process.depth
    BY <1>0, <1>4 DEF Detach, Whole
  <2> QED BY <2>1 DEF Rest
<1> QED BY <1>1, <1>2, <1>3, <1>4

\* The scene never changes.
LEMMA SceneStays == ASSUME [Next]_vars PROVE features' = features
BY DEF Next, ThreadStep, vars, SameWaits, Frame, Leaves, JoinReturns, Signal, SetCancelState,
       SetCancelType, CleanupPush, CleanupPop, KeyCreate, KeyDelete, SetSpecific, Exit, Honour,
       DestructorDone, HandlerDone, Return, Reap, Create, ProcessExit, ExitGoesOn, Detach,
       Join, Cancel

LEMMA RestStep == Inv /\ Rest(process) /\ [Next]_vars => Rest(process')
<1> SUFFICES ASSUME Inv, Rest(process), [Next]_vars PROVE Rest(process')
  OBVIOUS
<1>1. ASSUME NEW t \in Threads, ThreadStep(t) PROVE Rest(process')
  BY <1>1, CallRest, EndRest, KeyRest, OtherRest DEF ThreadStep
<1>2. ASSUME NEW t \in Threads, NEW u \in Threads, Detach(t, u) \/ Join(t, u) \/ Cancel(t, u)
      PROVE  Rest(process')
  BY <1>2, CallRest, OtherRest
<1>3. CASE UNCHANGED vars
  BY <1>3 DEF vars
<1> QED BY <1>1, <1>2, <1>3 DEF Next

\* Every variable keeps its type: no index of a key or handler runs out of its
\* range, and no list of keys or threads has anything twice.
THEOREM TypeCorrect == SafeSpec => []TypeOK
<1> DEFINE All == Rest(process) /\ features \in Scenes
<1>1. Init => All
  <2>1. Init => On(<<>>) = {} /\ NoRepeat(<<>>) /\ <<>> \in Seq(Keys)
    BY EmptyList
  <2> QED BY <2>1, BoundsAssumption DEF Init, Rest
<1>2. Inv /\ All /\ [Next]_vars => All'
  BY RestStep, SceneStays
<1>3. Inv /\ All => TypeOK
  BY DEF Inv, Formed, Rest, TypeOK, States, Types
<1> QED BY <1>1, <1>2, <1>3, Invariance, PTL DEF SafeSpec

----------------------------------------------------------------------------
\* The first n - 1 keys, and all keys, have no value of t.
Clean(p, t, n) == \A j \in 1..Len(p.keys) : j < n => t \notin p.holders[p.keys[j]]
AllClean(p, t) == \A k \in On(p.keys) : t \notin p.holders[k]

\* Where the walk over the keys has got to: the index is that of the key whose
\* destructor runs or, once a key before it or itself went away, of the next.
AtKey(t) == /\ process.place[t] <= Len(process.keys)
            /\ process.keys[process.place[t]] = process.key[t]
            /\ Clean(process, t, process.place[t] + 1)

PastKey(t) == /\ process.place[t] <= Len(process.keys) =>
                   process.keys[process.place[t]] # process.key[t]
              /\ Clean(process, t, process.place[t])

Tidy(t) ==
  /\ At(t) = "destructor" /\ t \notin skipped =>
       (shrunk[t] = 0 => AtKey(t)) /\ (shrunk[t] = 1 => PastKey(t))
  /\ At(t) = "handler" /\ t \notin skipped => AllClean(process, t)
  /\ Ended(t) /\ t \notin returned =>
       process.depth[t] = 0 /\ (t \notin skipped => AllClean(process, t))

\* A key that does not exist has no values.
Unused(p) == \A k \in Keys : k \notin On(p.keys) => p.holders[k] = {}

Tidiness == /\ Unused(process)
            /\ shrunk \in [Threads -> Nat]
            /\ \A t \in Threads : process.key[t] <= process.keyIds
            /\ \A t \in Threads : Tidy(t)

\* What a thread's end does to the values of the others: nothing.
SameValues(p, q, t) ==
  /\ q.keys = p.keys /\ q.keyIds = p.keyIds
  /\ \A x \in Threads \ {t} : /\ q.place[x] = p.place[x] /\ q.key[x] = p.key[x]
                              /\ q.depth[x] = p.depth[x]
                              /\ \A k \in Keys : x \in q.holders[k] <=> x \in p.holders[k]
  /\ \A k \in Keys : q.holders[k] \subseteq p.holders[k]
  /\ q.key[t] <= q.keyIds

LEMMA SameRestValues ==
  ASSUME NEW p, NEW q, SameRest(p, q), NEW t \in Threads, p.key[t] <= p.keyIds
  PROVE  SameValues(p, q, t)
BY DEF SameRest, SameValues

\* Where a step of t's end leads, when the first i - 1 keys were clean.
Leads(q, t, i) ==
  /\ q.pc[t] = "destructor" => /\ i <= q.place[t] /\ q.place[t] <= Len(q.keys)
                               /\ q.keys[q.place[t]] = q.key[t]
                               /\ Clean(q, t, q.place[t] + 1)
  /\ q.pc[t] \in {"handler", "ended"} => AllClean(q, t)

LEMMA GoOnTidies ==
  ASSUME NEW p, Formed(p), Rest(p), NEW t \in Threads, NEW i \in Nat \ {0},
         NEW q, q = GoOn(p, t, i)
  PROVE  /\ SameValues(p, q, t)
         /\ q.pc[t] = "destructor" => i <= Len(p.keys)
         /\ q.pc[t] = "ended" => q.depth[t] = 0
         /\ Clean(p, t, i) => Leads(q, t, i)
<1> DEFINE left == WithValue(p, t, i)
           j == Min(left)
<1>0. /\ Whole(p) /\ Len(p.keys) \in Nat
      /\ \A l \in 1..Len(p.keys) : p.keys[l] \in Keys /\ p.keys[l] \in On(p.keys)
      /\ \A k \in On(p.keys) : k \in Keys /\ \E l \in 1..Len(p.keys) : k = p.keys[l]
      /\ \A k \in Keys : k \in Nat
      /\ p.keyIds \in Nat /\ None <= p.keyIds
      /\ p.holders \in [Keys -> SUBSET Threads]
  <2>1. Whole(p) /\ p.keys \in Seq(Keys) /\ p.holders \in [Keys -> SUBSET Threads] /\ p.keyIds \in Nat
    BY DEF Formed, Rest
  <2>2. None <= p.keyIds
    BY <2>1 DEF None
  <2>3. /\ Len(p.keys) \in Nat /\ DOMAIN p.keys = 1..Len(p.keys)
        /\ \A l \in 1..Len(p.keys) : p.keys[l] \in Keys
    BY <2>1
  <2>4. \A k \in Keys : k \in Nat
    BY BoundsAssumption DEF Keys
  <2>5. On(p.keys) = {p.keys[l] : l \in 1..Len(p.keys)}
    BY <2>3 DEF On
  <2> QED BY <2>1, <2>2, <2>3, <2>4, <2>5
<1>1. CASE left # {}
  <2>1. left \in SUBSET Nat /\ \A l \in left : /\ l \in i..Len(p.keys) /\ l \in 1..Len(p.keys)
    BY <1>0 DEF WithValue
  <2>2. \A l \in i..Len(p.keys) : t \in p.holders[p.keys[l]] => l \in left
    BY DEF WithValue
  <2>3. q = [p EXCEPT !.holders[p.keys[j]] = @ \ {t}, !.place[t] = j,
                      !.key[t] = p.keys[j], !.pc[t] = "destructor"]
    BY <1>1 DEF GoOn
  <2> HIDE DEF left
  <2>4. j \in left /\ \A l \in left : j <= l
    BY <1>1, <2>1, MinIsIn
  <2> HIDE DEF j
  <2>5. PICK k : k = p.keys[j]
    OBVIOUS
  <2>6. j \in i..Len(p.keys) /\ j \in 1..Len(p.keys) /\ k \in Keys /\ k \in On(p.keys)
    BY <1>0, <2>1, <2>4, <2>5
  <2>7. /\ q.holders = [p.holders EXCEPT ![k] = @ \ {t}]
        /\ q.key = [p.key EXCEPT ![t] = k] /\ q.place = [p.place EXCEPT ![t] = j]
        /\ q.pc = [p.pc EXCEPT ![t] = "destructor"]
        /\ q.keyIds = p.keyIds /\ q.keys = p.keys /\ q.depth = p.depth
    BY <1>0, <2>3, <2>5 DEF Whole
  <2>8. q.pc[t] = "destructor" /\ q.place[t] = j /\ q.key[t] = k
    BY <2>7 DEF Formed, Rest
  <2>9. \A x \in Threads \ {t} : q.place[x] = p.place[x] /\ q.key[x] = p.key[x]
    BY <2>7 DEF Formed, Rest
  <2>10. /\ \A l \in Keys : q.holders[l] \subseteq p.holders[l]
         /\ \A l \in Keys : \A x \in Threads \ {t} : x \in q.holders[l] <=> x \in p.holders[l]
         /\ t \notin q.holders[k]
    BY <1>0, <2>6, <2>7
  <2>11. SameValues(p, q, t)
    BY <2>6, <2>7, <2>8, <2>9, <2>10 DEF SameValues, Rest
  <2>12. ASSUME Clean(p, t, i) PROVE Clean(q, t, j + 1)
    <3> SUFFICES ASSUME NEW l \in 1..Len(p.keys), l < j + 1 PROVE t \notin q.holders[p.keys[l]]
      BY <2>7 DEF Clean
    <3>1. p.keys[l] \in Keys
      BY <1>0
    <3>2. CASE l = j
      BY <2>5, <2>10, <3>2
    <3>3. CASE l < i
      BY <2>10, <2>12, <3>1, <3>3 DEF Clean
    <3>4. CASE i <= l /\ l < j
      <4>1. l \notin left /\ l \in i..Len(p.keys)
        BY <1>0, <2>1, <2>4, <2>6, <3>4
      <4> QED BY <2>2, <2>10, <3>1, <4>1
    <3> QED BY <2>6, <3>2, <3>3, <3>4
  <2>13. Clean(p, t, i) => Leads(q, t, i)
    <3>1. i <= q.place[t] /\ q.place[t] <= Len(q.keys) /\ q.keys[q.place[t]] = q.key[t]
      BY <1>0, <2>5, <2>6, <2>7, <2>8
    <3>2. q.pc[t] \notin {"handler", "ended"} /\ q.place[t] + 1 = j + 1
      BY <2>8
    <3> QED BY <2>12, <3>1, <3>2 DEF Leads
  <2>14. i <= Len(p.keys) /\ q.pc[t] # "ended"
    BY <1>0, <2>6, <2>8
  <2> QED BY <2>11, <2>13, <2>14
<1>2. CASE left = {}
  <2>1. Clean(p, t, i) => AllClean(p, t)
    <3> SUFFICES ASSUME Clean(p, t, i) PROVE AllClean(p, t)
      OBVIOUS
    <3>1. ASSUME NEW l \in 1..Len(p.keys) PROVE t \notin p.holders[p.keys[l]]
      <4>1. CASE l < i
        BY <4>1 DEF Clean
      <4>2. CASE i <= l
        <5>1. l \in i..Len(p.keys)
          BY <1>0, <4>2
        <5> QED BY <1>2, <5>1 DEF WithValue
      <4> QED BY <1>0, <4>1, <4>2
    <3>2. \A k \in On(p.keys) : \E l \in 1..Len(p.keys) : k = p.keys[l]
      BY <1>0
    <3> QED BY ONLY <3>1, <3>2 DEF AllClean
  <2>2. CASE p.depth[t] > 0
    <3>1. q = [p EXCEPT !.depth[t] = @ - 1, !.place[t] = 1, !.key[t] = None, !.pc[t] = "handler"]
      BY <1>2, <2>2 DEF GoOn
    <3>2. /\ q.depth = [p.depth EXCEPT ![t] = @ - 1]
          /\ q.key = [p.key EXCEPT ![t] = None] /\ q.place = [p.place EXCEPT ![t] = 1]
          /\ q.pc = [p.pc EXCEPT ![t] = "handler"]
          /\ q.keyIds = p.keyIds /\ q.keys = p.keys /\ q.holders = p.holders
      BY <1>0, <3>1 DEF Whole
    <3>3. /\ q.pc[t] = "handler" /\ q.key[t] = None
          /\ \A x \in Threads \ {t} : /\ q.place[x] = p.place[x] /\ q.key[x] = p.key[x]
                                      /\ q.depth[x] = p.depth[x]
      BY <3>2 DEF Formed, Rest
    <3>4. SameValues(p, q, t)
      BY <1>0, <3>2, <3>3 DEF SameValues
    <3> QED BY <2>1, <3>2, <3>3, <3>4 DEF Leads, AllClean
  <2>3. CASE ~(p.depth[t] > 0)
    <3>1. PICK m : m = [p EXCEPT !.place[t] = 1, !.key[t] = None] /\ q = Finish(m, t)
      BY <1>2, <2>3 DEF GoOn
    <3>2. /\ Whole(m) /\ m.key = [p.key EXCEPT ![t] = None] /\ m.place = [p.place EXCEPT ![t] = 1]
          /\ m.keyIds = p.keyIds /\ m.keys = p.keys /\ m.holders = p.holders /\ m.depth = p.depth
      BY <1>0, <3>1 DEF Whole
    <3>3. SameRest(m, q)
      BY <3>1, <3>2, FinishRest
    <3>4. /\ q.key = [p.key EXCEPT ![t] = None] /\ q.place = [p.place EXCEPT ![t] = 1]
          /\ q.keyIds = p.keyIds /\ q.keys = p.keys /\ q.holders = p.holders /\ q.depth = p.depth
      BY <3>2, <3>3 DEF SameRest
    <3>5. /\ q.key[t] = None
          /\ \A x \in Threads \ {t} : q.place[x] = p.place[x] /\ q.key[x] = p.key[x]
      BY <3>4 DEF Formed, Rest
    <3>6. SameValues(p, q, t)
      BY <1>0, <3>4, <3>5 DEF SameValues
    <3>7. q.pc[t] # "destructor"
      <4>1. PICK r : q = [r EXCEPT !.pc[t] = "ended"] /\ r = Unblock(m, m.joiners[t])
        BY <3>1 DEF Finish
      <4>2. Whole(r) /\ r.pc = [x \in Threads |-> r.pc[x]]
        BY <3>2, <4>1 DEF Unblock, Whole
      <4>3. q.pc = [r.pc EXCEPT ![t] = "ended"]
        BY <4>1, <4>2 DEF Whole
      <4>4. q.pc[t] = "ended"
        BY <4>2, <4>3
      <4> QED BY <4>4
    <3>8. q.depth[t] = 0
      <4>1. p.depth[t] \in 0..MaxDepth
        BY DEF Rest
      <4> QED BY <2>3, <3>4, <4>1, BoundsAssumption
    <3> QED BY <2>1, <3>4, <3>6, <3>7, <3>8 DEF Leads, AllClean
  <2> QED BY <2>2, <2>3
<1> QED BY <1>1, <1>2

LEMMA BeginExitTidies ==
  ASSUME NEW p, Formed(p), Rest(p), NEW t \in Threads, NEW q, q = BeginExit(p, t)
  PROVE  SameValues(p, q, t) /\ Leads(q, t, 1) /\ (q.pc[t] = "ended" => q.depth[t] = 0)
<1>1. PICK m : m = [p EXCEPT !.cancelstate[t] = "finished"] /\ q = GoOn(m, t, 1)
  BY DEF BeginExit
<1>2. SameRest(p, m) /\ m.pc = p.pc /\ m.tids = p.tids /\ m.list = p.list
      /\ m.joiners = p.joiners /\ m.canceltype = p.canceltype
      /\ m.cancelstate = [p.cancelstate EXCEPT ![t] = "finished"]
  BY <1>1 DEF Formed, Whole, SameRest
<1>3. Rest(m)
  BY ONLY <1>2, Rest(p), SameRestKeeps
<1>4. Formed(m)
  <2>1. m.cancelstate \in [Threads -> States]
    BY <1>2 DEF Formed, States
  <2> QED BY <1>2, <2>1 DEF Formed, SameRest
<1>5. Clean(m, t, 1)
  BY DEF Clean
<1>6. 1 \in Nat \ {0} /\ q = GoOn(m, t, 1)
  BY <1>1
<1>7. SameValues(m, q, t) /\ Leads(q, t, 1) /\ (q.pc[t] = "ended" => q.depth[t] = 0)
  BY ONLY <1>3, <1>4, <1>5, <1>6, t \in Threads, GoOnTidies
<1>8. SameValues(p, q, t)
  BY <1>2, <1>7 DEF SameValues, SameRest
<1> QED BY <1>7, <1>8

LEMMA ExitLoopTidies ==
  ASSUME NEW p, Formed(p), OnlySleepers(p), Rest(p), NEW t \in Threads, p.key[t] <= p.keyIds,
         NEW i, NEW q, q = ExitLoop(p, t, i)
  PROVE  SameValues(p, q, t) /\ Leads(q, t, 1) /\ (q.pc[t] = "ended" => q.depth[t] = 0)
<1>1. PICK m, S, j, u : /\ m = CancelAll(p, S)
                        /\ \/ q = BeginExit(m, t)
                           \/ q = WaitFor([m EXCEPT !.place[t] = j], t, u, "exitAsleep")
  BY DEF ExitLoop
<1>2. SameRest(p, m) /\ Formed(m)
  BY <1>1, CancelAllRest, CancelAllFrees DEF Formed
<1>3. Rest(m)
  BY <1>2, SameRestKeeps
<1>4. CASE q = BeginExit(m, t)
  <2>1. SameValues(m, q, t) /\ Leads(q, t, 1) /\ (q.pc[t] = "ended" => q.depth[t] = 0)
    BY ONLY <1>2, <1>3, <1>4, t \in Threads, BeginExitTidies
  <2>2. SameValues(p, q, t)
    BY <1>2, <2>1 DEF SameValues, SameRest
  <2> QED BY <2>1, <2>2
<1>5. CASE q = WaitFor([m EXCEPT !.place[t] = j], t, u, "exitAsleep")
  <2>1. PICK r : r = [m EXCEPT !.place[t] = j] /\ q = WaitFor(r, t, u, "exitAsleep")
    BY <1>5
  <2>2. /\ Whole(r) /\ r.place = [m.place EXCEPT ![t] = j] /\ r.pc = m.pc /\ r.key = m.key
        /\ r.keyIds = m.keyIds /\ r.keys = m.keys /\ r.holders = m.holders /\ r.depth = m.depth
    BY <1>2, <2>1 DEF Formed, Whole
  <2>3. SameRest(r, q)
    BY <2>1, <2>2, WaitForRest
  <2>4. q.pc[t] = "exitAsleep"
    <3>1. q.pc = [r.pc EXCEPT ![t] = "exitAsleep"]
      BY <2>1, <2>2 DEF WaitFor, Whole
    <3> QED BY <1>2, <2>2, <3>1 DEF Formed
  <2>5. \A x \in Threads \ {t} : q.place[x] = p.place[x]
    BY <1>2, <2>2, <2>3 DEF SameRest, Formed
  <2>6. SameValues(p, q, t)
    BY <1>2, <2>2, <2>3, <2>5 DEF SameValues, SameRest
  <2> QED BY <2>4, <2>6 DEF Leads
<1> QED BY <1>1, <1>4, <1>5

----------------------------------------------------------------------------
\* Where the invariant says something of a thread.
Settled == {"destructor", "handler", "ended", "gone"}

\* A step of t keeps it if it does for t.
LEMMA ActorTidies ==
  ASSUME Rest(process), Tidiness, NEW t \in Threads, NEW q, process' = q,
         SameValues(process, q, t),
         \A x \in Threads \ {t} : q.pc[x] \in Settled => q.pc[x] = At(x),
         shrunk' \in [Threads -> Nat],
         \A x \in Threads \ {t} : /\ shrunk'[x] = shrunk[x]
                                  /\ (x \in skipped' <=> x \in skipped)
                                  /\ (x \in returned' <=> x \in returned),
         Tidy(t)'
  PROVE  Tidiness'
<1>1. On(process.keys) \subseteq Keys /\ \A l \in 1..Len(process.keys) : process.keys[l] \in Keys
  BY OnInThreads DEF Rest
<1>2. Unused(q)
  BY DEF Unused, SameValues, Tidiness
<1>3. \A x \in Threads : q.key[x] <= q.keyIds
  BY DEF SameValues, Tidiness
<1>4. ASSUME NEW x \in Threads \ {t} PROVE Tidy(x)'
  <2>1. Tidy(x)
    BY DEF Tidiness
  <2>2. \A k \in Keys : x \in q.holders[k] <=> x \in process.holders[k]
    BY <1>4 DEF SameValues
  <2>3. \A n : Clean(process, x, n) => Clean(q, x, n)
    BY <1>1, <2>2 DEF Clean, SameValues
  <2>4. AllClean(process, x) => AllClean(q, x)
    BY <1>1, <2>2 DEF AllClean, SameValues
  <2>5. q.place[x] = process.place[x] /\ q.key[x] = process.key[x] /\ q.depth[x] = process.depth[x]
        /\ q.keys = process.keys
    BY <1>4 DEF SameValues
  <2>6. AtKey(x) => AtKey(x)'
    BY <2>3, <2>5 DEF AtKey
  <2>7. PastKey(x) => PastKey(x)'
    BY <2>3, <2>5 DEF PastKey
  <2>8. q.pc[x] \in Settled => q.pc[x] = At(x)
    OBVIOUS
  <2>9. shrunk'[x] = shrunk[x] /\ (x \in skipped' <=> x \in skipped)
        /\ (x \in returned' <=> x \in returned)
    OBVIOUS
  <2> QED BY <2>1, <2>4, <2>5, <2>6, <2>7, <2>8, <2>9 DEF Tidy, Ended, At, Settled
<1> QED BY <1>2, <1>3, <1>4 DEF Tidiness

LEMMA OthersSettled ==
  ASSUME NEW p, NEW q, NEW t, Others(p, q, t), NEW x \in Threads \ {t}, q.pc[x] \in Settled
  PROVE  q.pc[x] = p.pc[x]
BY DEF Others, Left, Woken, Settled

\* A step of t's end that leads on from a clean part of the keys.
LEMMA EndTidies ==
  ASSUME Rest(process), Tidiness, NEW t \in Threads, NEW q, process' = q,
         SameValues(process, q, t), Others(process, q, t), q.pc[t] # "gone",
         q.pc[t] = "ended" => q.depth[t] = 0,
         NEW i, t \notin skipped' => Leads(q, t, i),
         shrunk' \in [Threads -> Nat], q.pc[t] = "destructor" => shrunk'[t] = 0,
         \A x \in Threads \ {t} : /\ shrunk'[x] = shrunk[x]
                                  /\ (x \in skipped' <=> x \in skipped)
                                  /\ (x \in returned' <=> x \in returned)
  PROVE  Tidiness'
<1>1. Tidy(t)'
  BY DEF Tidy, Leads, At, Ended, AtKey
<1>2. \A x \in Threads \ {t} : q.pc[x] \in Settled => q.pc[x] = At(x)
  BY OthersSettled DEF At
<1> QED BY <1>1, <1>2, ActorTidies

\* What changes no value, in a step of t that is not part of an end.
LEMMA CallTidies ==
  ASSUME Rest(process), Tidiness, NEW t \in Threads, NEW q, process' = q,
         SameValues(process, q, t), UNCHANGED ends,
         \A x \in Threads \ {t} : q.pc[x] \in Settled => q.pc[x] = At(x),
         \/ q.pc[t] \notin Settled
         \/ SameRest(process, q) /\ q.pc[t] = process.pc[t]
  PROVE  Tidiness'
<1>1. shrunk' = shrunk /\ skipped' = skipped /\ returned' = returned
  BY DEF ends
<1>2. Tidy(t)'
  <2>1. CASE q.pc[t] \notin Settled
    BY <2>1 DEF Tidy, Settled, At, Ended
  <2>2. CASE SameRest(process, q) /\ q.pc[t] = process.pc[t]
    <3>1. /\ q.place = process.place /\ q.key = process.key /\ q.depth = process.depth
          /\ q.keys = process.keys /\ q.holders = process.holders
      BY <2>2 DEF SameRest
    <3>2. /\ \A n : Clean(process, t, n) => Clean(q, t, n)
          /\ AllClean(process, t) => AllClean(q, t)
      BY <3>1 DEF Clean, AllClean
    <3>3. (AtKey(t) => AtKey(t)') /\ (PastKey(t) => PastKey(t)')
      BY <3>1, <3>2 DEF AtKey, PastKey
    <3>4. Tidy(t)
      BY DEF Tidiness
    <3> QED BY <1>1, <2>2, <3>1, <3>2, <3>3, <3>4 DEF Tidy, Ended, At
  <2> QED BY <2>1, <2>2
<1> QED BY <1>1, <1>2, ActorTidies DEF Tidiness

----------------------------------------------------------------------------
\* The steps of an end.
LEMMA EndStepTidies ==
  ASSUME Inv, Rest(process), Tidiness, NEW t \in Threads,
         Exit(t) \/ Honour(t) \/ ProcessExit(t) \/ ExitGoesOn(t)
  PROVE  Tidiness'
<1>0. Formed(process) /\ OnlySleepers(process) /\ process.key[t] <= process.keyIds
  BY InvSleepers DEF Inv, Tidiness
<1>1. process.pc[t] \notin Sleeping
  BY DEF Exit, Honour, ProcessExit, ExitGoesOn, MayCall, InUser, At, Sleeping
<1>2. /\ shrunk' = [shrunk EXCEPT ![t] = 0] /\ skipped' = skipped /\ returned' = returned
      /\ shrunk' \in [Threads -> Nat] /\ shrunk'[t] = 0
      /\ \A x \in Threads \ {t} : shrunk'[x] = shrunk[x]
  <2>1. Passes(t, FALSE)
    BY DEF Exit, Honour, ProcessExit, ExitGoesOn
  <2> QED BY <2>1 DEF Passes, Tidiness
<1>3. ASSUME NEW q, process' = q, SameValues(process, q, t), Others(process, q, t),
             Leads(q, t, 1), q.pc[t] = "ended" => q.depth[t] = 0, q.pc[t] # "gone"
      PROVE  Tidiness'
  BY <1>2, <1>3, EndTidies
<1>4. CASE Exit(t) \/ Honour(t)
  <2>1. PICK q : process' = q /\ q = BeginExit(process, t)
    BY <1>4 DEF Exit, Honour
  <2>2. SameValues(process, q, t) /\ Leads(q, t, 1) /\ (q.pc[t] = "ended" => q.depth[t] = 0)
    BY <1>0, <2>1, BeginExitTidies
  <2>3. Ends(process, q, t)
    BY <1>0, <1>1, <2>1, BeginExitEnds
  <2> QED BY <1>3, <2>1, <2>2, <2>3 DEF Ends
<1>5. CASE ProcessExit(t)
  <2>1. PICK m : m = CancelAll(process, Listed)
    OBVIOUS
  <2>2. PICK p : p = Unblock(m, Listed)
    OBVIOUS
  <2>3. PICK q : process' = q /\ q = ExitLoop(p, t, 1)
    BY <1>5, <2>1, <2>2 DEF ProcessExit
  <2>4. /\ Formed(m) /\ OnlySleepers(m) /\ Others(process, m, t)
        /\ SameRest(process, m)
        /\ \A x \in Threads : m.pc[x] = process.pc[x] \/ Woken(process, m, x)
    <3>1. SameRest(process, m)
      BY ONLY <1>0, <2>1, CancelAllRest DEF Formed
    <3> QED BY ONLY <1>0, <2>1, <3>1, CancelAllFrees
  <2>5. /\ Formed(p) /\ OnlySleepers(p) /\ Others(m, p, t)
        /\ SameRest(m, p)
        /\ \A x \in Threads : IF x \in Listed /\ m.pc[x] \in Sleeping THEN Woken(m, p, x)
                                                                      ELSE p.pc[x] = m.pc[x]
    <3>1. SameRest(m, p)
      BY ONLY <2>2, <2>4, UnblockRest DEF Formed
    <3> QED BY ONLY <2>2, <2>4, <3>1, UnblockFrees
  <2>6. p.pc[t] \notin Sleeping /\ Others(process, p, t) /\ SameRest(process, p)
    <3>1. m.pc[t] = process.pc[t]
      BY <1>1, <2>4 DEF Woken, Sleeping
    <3>2. p.pc[t] = m.pc[t]
      BY <1>1, <2>5, <3>1
    <3>3. Others(process, p, t)
      BY ONLY <2>4, <2>5, OthersTransitive
    <3> QED BY <1>1, <2>4, <2>5, <3>1, <3>2, <3>3 DEF SameRest
  <2>7. Rest(p) /\ p.key[t] <= p.keyIds
    BY <1>0, <2>6, SameRestKeeps DEF SameRest
  <2>8. SameValues(p, q, t) /\ Leads(q, t, 1) /\ (q.pc[t] = "ended" => q.depth[t] = 0)
    BY ONLY <2>3, <2>5, <2>7, t \in Threads, ExitLoopTidies
  <2>9. Others(p, q, t) /\ q.pc[t] # "gone"
    <3>1. 1 \in Nat \ {0}
      OBVIOUS
    <3>2. /\ Others(p, q, t)
          /\ q.pc[t] \in {"destructor", "handler", "ended"} \/ q.pc[t] = "exitAsleep"
      BY ONLY <2>3, <2>5, <2>6, <3>1, t \in Threads, ExitLoopSteps
    <3> QED BY <3>2
  <2>10. SameValues(process, q, t)
    BY <2>6, <2>8 DEF SameValues, SameRest
  <2>11. Others(process, q, t)
    BY <2>6, <2>9, OthersTransitive
  <2> QED BY <1>3, <2>3, <2>8, <2>9, <2>10, <2>11
<1>6. CASE ExitGoesOn(t)
  <2>1. PICK i \in Nat \ {0} : i = process.place[t]
    BY <1>0 DEF Formed
  <2>2. PICK q : process' = q /\ q = ExitLoop(process, t, i)
    BY <1>6, <2>1 DEF ExitGoesOn
  <2>3. SameValues(process, q, t) /\ Leads(q, t, 1) /\ (q.pc[t] = "ended" => q.depth[t] = 0)
    BY ONLY <1>0, <2>2, Rest(process), t \in Threads, ExitLoopTidies
  <2>4. /\ Others(process, q, t)
        /\ q.pc[t] \in {"destructor", "handler", "ended"} \/ q.pc[t] = "exitAsleep"
    BY ONLY <1>0, <1>1, <2>1, <2>2, t \in Threads, ExitLoopSteps
  <2> QED BY <1>3, <2>2, <2>3, <2>4
<1> QED BY <1>4, <1>5, <1>6

LEMMA WalkTidies ==
  ASSUME Inv, Rest(process), Tidiness, NEW t \in Threads, DestructorDone(t) \/ HandlerDone(t)
  PROVE  Tidiness'
<1>0. Formed(process) /\ OnlySleepers(process) /\ process.pc[t] \notin Sleeping
      /\ Len(process.keys) \in Nat /\ process.place[t] \in Nat \ {0} /\ Tidy(t)
      /\ shrunk[t] \in Nat
  <2>1. Formed(process) /\ OnlySleepers(process)
    BY InvSleepers DEF Inv
  <2>2. process.pc[t] \notin Sleeping
    BY DEF DestructorDone, HandlerDone, At, Sleeping
  <2>3. Len(process.keys) \in Nat /\ process.place[t] \in Nat \ {0}
    BY <2>1 DEF Formed
  <2>4. Tidy(t) /\ shrunk[t] \in Nat
    BY DEF Tidiness
  <2> QED BY <2>1, <2>2, <2>3, <2>4
<1>1. CASE DestructorDone(t)
  <2>1. PICK i : i = NextIndex(t)
    OBVIOUS
  <2>2. i \in Nat \ {0}
    BY <1>0, <2>1 DEF NextIndex
  <2>3. PICK q : process' = q /\ q = GoOn(process, t, i)
    BY <1>1, <2>1 DEF DestructorDone
  <2>4. /\ shrunk' = [shrunk EXCEPT ![t] = 0] /\ returned' = returned
        /\ skipped' = IF shrunk[t] >= 2 THEN skipped \cup {t} ELSE skipped
    BY <1>1 DEF DestructorDone, Passes
  <2>5. shrunk' \in [Threads -> Nat] /\ shrunk'[t] = 0
        /\ \A x \in Threads \ {t} : shrunk'[x] = shrunk[x]
    BY <2>4 DEF Tidiness
  <2>6. ASSUME t \notin skipped' PROVE Clean(process, t, i)
    <3>1. t \notin skipped /\ shrunk[t] \in {0, 1}
      BY <1>0, <2>4, <2>6
    <3>2. CASE shrunk[t] = 0
      <4>1. AtKey(t)
        BY <1>0, <1>1, <3>1, <3>2 DEF Tidy, DestructorDone
      <4>2. i = process.place[t] + 1
        BY <2>1, <4>1 DEF NextIndex, AtKey
      <4> QED BY <4>1, <4>2 DEF AtKey
    <3>3. CASE shrunk[t] = 1
      <4>1. PastKey(t)
        BY <1>0, <1>1, <3>1, <3>3 DEF Tidy, DestructorDone
      <4>2. i = process.place[t]
        BY <2>1, <4>1 DEF NextIndex, PastKey
      <4> QED BY <4>1, <4>2 DEF PastKey
    <3> QED BY <3>1, <3>2, <3>3
  <2>7. /\ SameValues(process, q, t) /\ (q.pc[t] = "ended" => q.depth[t] = 0)
        /\ Clean(process, t, i) => Leads(q, t, i)
    BY ONLY <1>0, <2>2, <2>3, Rest(process), t \in Threads, GoOnTidies
  <2>8. Ends(process, q, t)
    BY ONLY <1>0, <2>2, <2>3, t \in Threads, GoOnEnds
  <2>9. \A x \in Threads \ {t} : /\ (x \in skipped' <=> x \in skipped)
                                 /\ (x \in returned' <=> x \in returned)
    BY <2>4
  <2>10. Others(process, q, t) /\ q.pc[t] # "gone" /\ process' = q
    BY <2>3, <2>8 DEF Ends
  <2>11. t \notin skipped' => Leads(q, t, i)
    BY <2>6, <2>7
  <2> QED BY ONLY <2>5, <2>7, <2>9, <2>10, <2>11, Rest(process), Tidiness, t \in Threads, EndTidies
<1>2. CASE HandlerDone(t)
  <2>1. PICK i : i = Len(process.keys) + 1
    OBVIOUS
  <2>2. i \in Nat \ {0}
    BY <1>0, <2>1
  <2>3. PICK q : process' = q /\ q = GoOn(process, t, i)
    BY <1>2, <2>1 DEF HandlerDone
  <2>4. shrunk' = shrunk /\ skipped' = skipped /\ returned' = returned
    BY <1>2 DEF HandlerDone, SameEnds, ends
  <2>5. ASSUME t \notin skipped' PROVE Clean(process, t, i)
    <3>1. AllClean(process, t)
      BY <1>0, <1>2, <2>4, <2>5 DEF Tidy, HandlerDone
    <3> QED BY <3>1 DEF AllClean, Clean, On
  <2>6. /\ SameValues(process, q, t) /\ (q.pc[t] = "ended" => q.depth[t] = 0)
        /\ Clean(process, t, i) => Leads(q, t, i)
        /\ q.pc[t] = "destructor" => i <= Len(process.keys)
    BY ONLY <1>0, <2>2, <2>3, Rest(process), t \in Threads, GoOnTidies
  <2>7. Ends(process, q, t)
    BY ONLY <1>0, <2>2, <2>3, t \in Threads, GoOnEnds
  <2>8. q.pc[t] # "destructor"
    BY <1>0, <2>1, <2>6
  <2>9. shrunk' \in [Threads -> Nat]
    BY <2>4 DEF Tidiness
  <2> QED BY <2>3, <2>4, <2>5, <2>6, <2>7, <2>8, <2>9, EndTidies DEF Ends
<1> QED BY <1>1, <1>2

----------------------------------------------------------------------------
\* The calls that have nothing to do with keys.
LEMMA CallStepTidies ==
  ASSUME Inv, Rest(process), Tidiness, NEW t \in Threads,
         \/ JoinReturns(t) \/ Signal(t) \/ SetCancelState(t) \/ SetCancelType(t)
         \/ CleanupPush(t) \/ CleanupPop(t)
         \/ \E u \in Threads : Join(t, u) \/ Cancel(t, u) \/ Detach(t, u)
  PROVE  Tidiness'
<1>0. Formed(process) /\ OnlySleepers(process) /\ Whole(process)
      /\ process.key[t] <= process.keyIds
  BY InvSleepers DEF Inv, Formed, Tidiness
<1>1. UNCHANGED ends
  BY DEF JoinReturns, Signal, SetCancelState, SetCancelType, CleanupPush, CleanupPop, Join,
         Cancel, Detach, SameEnds
<1>2. ASSUME NEW q, process' = q, SameRest(process, q), Others(process, q, t),
             q.pc[t] \notin Settled \/ q.pc[t] = process.pc[t]
      PROVE  Tidiness'
  <2>1. SameValues(process, q, t)
    BY <1>0, <1>2, SameRestValues
  <2>2. \A x \in Threads \ {t} : q.pc[x] \in Settled => q.pc[x] = At(x)
    BY <1>2, OthersSettled DEF At
  <2> QED BY <1>1, <1>2, <2>1, <2>2, CallTidies
<1>3. CASE JoinReturns(t)
  <2>1. SameRest(process, process') /\ process'.pc = [process.pc EXCEPT ![t] = "user"]
        /\ process'.joiners = process.joiners /\ process'.cancelstate = process.cancelstate
        /\ process'.canceltype = process.canceltype
    BY <1>0, <1>3 DEF JoinReturns, SameRest, Whole
  <2>2. Others(process, process', t) /\ process'.pc[t] \notin Settled
    BY <1>0, <2>1 DEF Others, Left, Formed, Settled
  <2> QED BY <1>2, <2>1, <2>2
<1>4. CASE Signal(t)
  <2>1. PICK q : process' = q /\ q = Unblock(process, {t})
    BY <1>4 DEF Signal
  <2>2. SameRest(process, q)
    BY ONLY <1>0, <2>1, UnblockRest
  <2>3. /\ Others(process, q, t)
        /\ \A x \in Threads : IF x \in {t} /\ process.pc[x] \in Sleeping THEN Woken(process, q, x)
                                                                      ELSE q.pc[x] = process.pc[x]
    BY ONLY <1>0, <2>1, UnblockFrees
  <2>4. q.pc[t] \notin Settled
    BY <1>4, <2>3 DEF Signal, At, Sleeping, Woken, Settled
  <2> QED BY <1>2, <2>1, <2>2, <2>3, <2>4
<1>5. CASE SetCancelState(t) \/ SetCancelType(t)
  <2>1. PICK v, w : \/ process' = [process EXCEPT !.cancelstate[t] = v]
                    \/ process' = [process EXCEPT !.canceltype[t] = w]
    BY <1>5 DEF SetCancelState, SetCancelType
  <2>2. /\ SameRest(process, process') /\ process'.pc = process.pc
        /\ process'.joiners = process.joiners
        /\ \A x \in Threads \ {t} : /\ process'.cancelstate[x] = process.cancelstate[x]
                                    /\ process'.canceltype[x] = process.canceltype[x]
    BY <1>0, <2>1 DEF SameRest, Whole, Formed
  <2>3. Others(process, process', t)
    BY <2>2 DEF Others, Left
  <2> QED BY <1>2, <2>2, <2>3
<1>6. CASE CleanupPush(t) \/ CleanupPop(t)
  <2>1. PICK d : process' = [process EXCEPT !.depth[t] = d]
    BY <1>6 DEF CleanupPush, CleanupPop
  <2>2. /\ process'.depth = [process.depth EXCEPT ![t] = d] /\ process'.pc = process.pc
        /\ process'.keys = process.keys /\ process'.keyIds = process.keyIds
        /\ process'.place = process.place /\ process'.key = process.key
        /\ process'.holders = process.holders
    BY <1>0, <2>1 DEF Whole
  <2>3. \A x \in Threads \ {t} : process'.depth[x] = process.depth[x]
    BY <2>2 DEF Rest
  <2>4. SameValues(process, process', t)
    BY <1>0, <2>2, <2>3 DEF SameValues
  <2>5. process'.pc[t] \notin Settled
    BY <1>6, <2>2 DEF CleanupPush, CleanupPop, InUser, At, Settled
  <2>6. \A x \in Threads \ {t} : process'.pc[x] \in Settled => process'.pc[x] = At(x)
    BY <2>2 DEF At
  <2> QED BY <1>1, <2>4, <2>5, <2>6, CallTidies
<1>7. ASSUME NEW u \in Threads, Join(t, u) PROVE Tidiness'
  <2>1. PICK q : process' = q /\ q = WaitFor(process, t, u, "asleep")
    BY <1>7 DEF Join
  <2>2. SameRest(process, q)
    BY ONLY <1>0, <2>1, WaitForRest
  <2>3. process.pc[t] \notin Sleeping /\ "asleep" \in Sleeping
    BY <1>7 DEF Join, InUser, At, Sleeping
  <2>4. Others(process, q, t) /\ q.pc[t] = "asleep"
    BY ONLY <1>0, <2>1, <2>3, t \in Threads, u \in Threads, WaitForSleeps
  <2> QED BY <1>2, <2>1, <2>2, <2>4 DEF Settled
<1>8. ASSUME NEW u \in Threads, Cancel(t, u) PROVE Tidiness'
  <2>1. PICK q : process' = q /\ q = CancelAll(process, {u})
    BY <1>8 DEF Cancel
  <2>2. SameRest(process, q)
    BY ONLY <1>0, <2>1, CancelAllRest
  <2>3. Others(process, q, t) /\ (q.pc[t] = process.pc[t] \/ Woken(process, q, t))
    BY ONLY <1>0, <2>1, t \in Threads, CancelAllFrees
  <2>4. q.pc[t] \notin Settled \/ q.pc[t] = process.pc[t]
    BY <2>3 DEF Woken, Settled
  <2> QED BY <1>2, <2>1, <2>2, <2>3, <2>4
<1>9. ASSUME NEW u \in Threads, Detach(t, u) PROVE Tidiness'
  <2>1. process' = [process EXCEPT !.detached = @ \cup {u}]
    BY <1>9 DEF Detach
  <2>2. /\ process'.pc = process.pc /\ process'.keys = process.keys
        /\ process'.keyIds = process.keyIds /\ process'.place = process.place
        /\ process'.key = process.key /\ process'.holders = process.holders
        /\ process'.depth = process.depth
    BY <1>0, <2>1 DEF Whole
  <2> QED BY <1>1, <2>2 DEF ends, Tidiness, Unused, Tidy, AtKey, PastKey, Clean, AllClean, Ended, At
<1> QED BY <1>3, <1>4, <1>5, <1>6, <1>7, <1>8, <1>9

\* Creation, return and deletion.
LEMMA LifeStepTidies ==
  ASSUME Inv, Rest(process), Tidiness, NEW t \in Threads, Create(t) \/ Return(t) \/ Reap(t)
  PROVE  Tidiness'
<1>0. Formed(process) /\ OnlySleepers(process) /\ Whole(process)
      /\ \A x \in Threads : process.key[x] <= process.keyIds
  BY InvSleepers DEF Inv, Formed, Tidiness
<1>1. CASE Create(t)
  <2> DEFINE u == process.tids + 1
  <2>0. u \in Threads
    <3>1. process.tids \in Nat
      BY <1>0 DEF Formed
    <3>2. process.tids < MaxThreads
      BY <1>1 DEF Create
    <3> QED BY ONLY <3>1, <3>2, BoundsAssumption DEF Threads
  <2>1. PICK d : process' = [process EXCEPT !.tids = u, !.list = Append(@, u),
                                            !.pc[u] = "user", !.detached = @ \cup d]
    BY <1>1 DEF Create
  <2> HIDE DEF u
  <2>2. /\ process'.pc = [process.pc EXCEPT ![u] = "user"]
        /\ process'.keys = process.keys /\ process'.keyIds = process.keyIds
        /\ process'.place = process.place /\ process'.key = process.key
        /\ process'.holders = process.holders /\ process'.depth = process.depth
    BY <1>0, <2>1 DEF Whole
  <2>3. SameValues(process, process', u)
    BY <1>0, <2>0, <2>2 DEF SameValues
  <2>4. process'.pc[u] = "user" /\ \A x \in Threads \ {u} : process'.pc[x] = At(x)
    BY <1>0, <2>0, <2>2 DEF Formed, At
  <2>5. UNCHANGED ends
    BY <1>1 DEF Create, SameEnds
  <2> QED BY <2>0, <2>3, <2>4, <2>5, CallTidies DEF Settled
<1>2. CASE Return(t)
  <2>1. PICK q : process' = q /\ q = Finish(process, t)
    BY <1>2 DEF Return
  <2>2. process.pc[t] \notin Sleeping
    BY <1>2 DEF Return, InUser, At, Sleeping
  <2>3. Ends(process, q, t) /\ q.pc[t] = "ended"
    BY ONLY <1>0, <2>1, <2>2, t \in Threads, FinishEnds
  <2>4. SameRest(process, q)
    BY ONLY <1>0, <2>1, FinishRest
  <2>5. SameValues(process, q, t)
    BY <1>0, <2>4, SameRestValues
  <2>6. returned' = returned \cup {t} /\ shrunk' = shrunk /\ skipped' = skipped
    BY <1>2 DEF Return
  <2>7. Tidy(t)'
    BY <2>1, <2>3, <2>6 DEF Tidy, At, Ended
  <2>8. \A x \in Threads \ {t} : q.pc[x] \in Settled => q.pc[x] = At(x)
    BY <2>3, OthersSettled DEF Ends, At
  <2>9. /\ shrunk' \in [Threads -> Nat]
        /\ \A x \in Threads \ {t} : /\ shrunk'[x] = shrunk[x]
                                    /\ (x \in skipped' <=> x \in skipped)
                                    /\ (x \in returned' <=> x \in returned)
    BY <2>6 DEF Tidiness
  <2> QED BY <2>1, <2>5, <2>7, <2>8, <2>9, ActorTidies
<1>3. CASE Reap(t)
  <2>1. process' = [process EXCEPT !.list = Without(@, t), !.pc[t] = "gone",
                                   !.cancelstate[t] = "finished", !.canceltype[t] = "async",
                                   !.detached = @ \ {t}, !.depth[t] = 0]
    BY <1>3 DEF Reap
  <2>2. /\ process'.pc = [process.pc EXCEPT ![t] = "gone"]
        /\ process'.keys = process.keys /\ process'.keyIds = process.keyIds
        /\ process'.place = process.place /\ process'.key = process.key
        /\ process'.holders = process.holders
        /\ process'.depth = [process.depth EXCEPT ![t] = 0]
    BY <1>0, <2>1 DEF Whole
  <2>3. process'.depth[t] = 0 /\ \A x \in Threads \ {t} : process'.depth[x] = process.depth[x]
    BY <2>2 DEF Rest
  <2>4. SameValues(process, process', t)
    BY <1>0, <2>2, <2>3 DEF SameValues
  <2>5. process'.pc[t] = "gone" /\ \A x \in Threads \ {t} : process'.pc[x] = At(x)
    BY <1>0, <2>2 DEF Formed, At
  <2>6. shrunk' = shrunk /\ skipped' = skipped /\ returned' = returned
    BY <1>3 DEF Reap, SameEnds, ends
  <2>7. Tidy(t)'
    <3>1. Tidy(t) /\ At(t) = "ended"
      BY <1>3 DEF Tidiness, Reap
    <3>2. AllClean(process, t) => AllClean(process', t)
      BY <2>2 DEF AllClean
    <3> QED BY <2>3, <2>5, <2>6, <3>1, <3>2 DEF Tidy, Ended, At
  <2>8. shrunk' \in [Threads -> Nat]
    BY <2>6 DEF Tidiness
  <2> QED BY <2>4, <2>5, <2>6, <2>7, <2>8, ActorTidies
<1> QED BY <1>1, <1>2, <1>3

----------------------------------------------------------------------------
\* vector::erase of the element at i of a list without repetition.
LEMMA WithoutShifts ==
  ASSUME NEW S, NEW list \in Seq(S), NoRepeat(list), NEW i \in 1..Len(list)
  PROVE  /\ Len(Without(list, list[i])) = Len(list) - 1
         /\ \A j \in 1..(Len(list) - 1) :
              Without(list, list[i])[j] = IF j < i THEN list[j] ELSE list[j + 1]
<1> DEFINE k == list[i]
           P(l) == list[l] = k /\ \A j \in 1..(l - 1) : list[j] # k
<1>1. k \in On(list)
  BY DEF On
<1>2. \A l \in 1..Len(list) : P(l) <=> l = i
  <2>1. \A l \in 1..Len(list) : list[l] = k => l = i
    BY DEF NoRepeat
  <2>2. \A j \in 1..(i - 1) : j \in 1..Len(list) /\ j # i
    OBVIOUS
  <2> QED BY <2>1, <2>2
<1>3. (CHOOSE l \in 1..Len(list) : P(l)) = i
  BY <1>2
<1>4. Without(list, k) = [j \in 1..(Len(list) - 1) |-> IF j < i THEN list[j] ELSE list[j + 1]]
  BY <1>1, <1>3 DEF Without
<1>5. Len(list) - 1 \in Nat
  OBVIOUS
<1> HIDE DEF k, P
<1>6. \A j \in 1..(Len(list) - 1) :
        Without(list, k)[j] = IF j < i THEN list[j] ELSE list[j + 1]
  BY ONLY <1>4
<1>7. Len(Without(list, k)) = Len(list) - 1
  BY <1>4, <1>5
<1> QED BY <1>6, <1>7 DEF k

\* A new key has no values and its id no walk has seen.
LEMMA KeyCreateTidies ==
  ASSUME Inv, Rest(process), Tidiness, NEW t \in Threads, KeyCreate(t) PROVE Tidiness'
<1> DEFINE k == process.keyIds + 1
           n == Len(process.keys)
<1>1. /\ process'.keyIds = k /\ process'.keys = Append(process.keys, k)
      /\ process'.pc = process.pc /\ process'.place = process.place
      /\ process'.key = process.key /\ process'.holders = process.holders
      /\ process'.depth = process.depth
  BY DEF KeyCreate, Inv, Formed, Whole
<1>2. process.keyIds \in Nat /\ k \in Keys /\ n \in Nat /\ process.keys \in Seq(Keys)
  BY BoundsAssumption DEF KeyCreate, Keys, Rest
<1>3. k \notin On(process.keys) /\ process.holders[k] = {}
  <2>1. k \notin On(process.keys)
    BY DEF Rest
  <2> QED BY <1>2, <2>1 DEF Tidiness, Unused
<1>4. \A x \in Threads : process.key[x] \in Nat /\ process.key[x] < k
  <2>1. \A x \in Threads : process.key[x] \in Keys \cup {None} /\ process.key[x] <= process.keyIds
    BY DEF Rest, Tidiness
  <2>2. Keys \cup {None} \subseteq Nat
    BY BoundsAssumption DEF Keys, None
  <2> QED BY <1>2, <2>1, <2>2
<1> HIDE DEF k
<1>5. /\ Len(process'.keys) = n + 1 /\ process'.keys[n + 1] = k
      /\ \A j \in 1..n : process'.keys[j] = process.keys[j]
  BY <1>1, <1>2
<1>6. On(process'.keys) = On(process.keys) \cup {k}
  <2>1. process.keys \in Seq(Keys) /\ NoRepeat(process.keys) /\ k \in Keys
        /\ k \notin On(process.keys)
    BY <1>2, <1>3 DEF Rest
  <2>2. On(Append(process.keys, k)) = On(process.keys) \cup {k}
    BY ONLY <2>1, AppendAdds
  <2> QED BY <1>1, <2>2
<1>7. ASSUME NEW x \in Threads PROVE Tidy(x)'
  <2>1. process.place[x] \in Nat \ {0}
    BY DEF Inv, Formed
  <2>2. \A i \in Nat : Clean(process, x, i) => Clean(process', x, i)
    <3> SUFFICES ASSUME NEW i \in Nat, Clean(process, x, i), NEW j \in 1..(n + 1), j < i
                 PROVE  x \notin process'.holders[process'.keys[j]]
      BY <1>5 DEF Clean
    <3>1. CASE j = n + 1
      BY <1>1, <1>3, <1>5, <3>1
    <3>2. CASE j \in 1..n
      BY <1>1, <1>5, <3>2 DEF Clean
    <3> QED BY <1>2, <3>1, <3>2
  <2>3. AllClean(process, x) => AllClean(process', x)
    BY <1>1, <1>3, <1>6 DEF AllClean
  <2>4. AtKey(x) => AtKey(x)'
    <3> SUFFICES ASSUME AtKey(x) PROVE AtKey(x)'
      OBVIOUS
    <3>1. process.place[x] \in 1..n
      BY <1>2, <2>1 DEF AtKey
    <3>2. process'.keys[process'.place[x]] = process'.key[x]
          /\ process'.place[x] <= Len(process'.keys)
      BY <1>1, <1>2, <1>5, <3>1 DEF AtKey
    <3>3. Clean(process', x, process'.place[x] + 1)
      BY <1>1, <2>1, <2>2 DEF AtKey
    <3> QED BY <3>2, <3>3 DEF AtKey
  <2>5. PastKey(x) => PastKey(x)'
    <3> SUFFICES ASSUME PastKey(x) PROVE PastKey(x)'
      OBVIOUS
    <3>1. ASSUME process'.place[x] <= Len(process'.keys)
          PROVE  process'.keys[process'.place[x]] # process'.key[x]
      <4>1. CASE process.place[x] = n + 1
        BY <1>1, <1>2, <1>4, <1>5, <4>1
      <4>2. CASE process.place[x] \in 1..n
        BY <1>1, <1>2, <1>5, <4>2 DEF PastKey
      <4>3. process.place[x] \in 1..(n + 1)
        BY <1>1, <1>2, <1>5, <2>1, <3>1
      <4> QED BY <1>2, <4>1, <4>2, <4>3
    <3>2. Clean(process', x, process'.place[x])
      BY <1>1, <2>1, <2>2 DEF PastKey
    <3> QED BY <3>1, <3>2 DEF PastKey
  <2>6. Tidy(x) /\ shrunk' = shrunk /\ skipped' = skipped /\ returned' = returned
    BY DEF Tidiness, KeyCreate, SameEnds, ends
  <2> QED BY <1>1, <2>3, <2>4, <2>5, <2>6 DEF Tidy, Ended, At
<1>8. Unused(process')
  BY <1>1, <1>6 DEF Unused, Tidiness
<1>9. \A x \in Threads : process'.key[x] <= process'.keyIds
  BY <1>1, <1>2, <1>4 DEF k
<1>10. shrunk' \in [Threads -> Nat]
  BY DEF Tidiness, KeyCreate, SameEnds, ends
<1> QED BY <1>7, <1>8, <1>9, <1>10 DEF Tidiness

\* A key that goes away before the place of a walk, or at it, shifts the list
\* under the walk: the index is then of the key after.  Two of them and the
\* walk has missed one.
LEMMA KeyDeleteTidies ==
  ASSUME Inv, Rest(process), Tidiness, NEW t \in Threads, KeyDelete(t) PROVE Tidiness'
<1>1. PICK i \in 1..Len(process.keys) :
        /\ process' = [process EXCEPT !.keys = Without(@, process.keys[i]),
                                      !.holders[process.keys[i]] = {}]
        /\ shrunk' = [u \in Threads |-> IF At(u) = "destructor" /\ i <= process.place[u]
                                        THEN shrunk[u] + 1 ELSE shrunk[u]]
  <2>1. DOMAIN process.keys = 1..Len(process.keys)
    BY DEF Rest
  <2> QED BY <2>1 DEF KeyDelete
<1>2. PICK k : k = process.keys[i]
  OBVIOUS
<1>3. /\ process.keys \in Seq(Keys) /\ NoRepeat(process.keys) /\ k \in Keys
      /\ Len(process.keys) \in Nat /\ i \in Nat \ {0} /\ i <= Len(process.keys)
  BY <1>2 DEF Rest
<1>4. PICK n : n = Len(process.keys)
  OBVIOUS
<1>5. /\ process'.keys = Without(process.keys, k) /\ process'.keyIds = process.keyIds
      /\ process'.pc = process.pc /\ process'.place = process.place
      /\ process'.key = process.key /\ process'.depth = process.depth
      /\ process'.holders = [process.holders EXCEPT ![k] = {}]
  BY <1>1, <1>2 DEF Inv, Formed, Whole
<1>6. /\ Len(process'.keys) = n - 1
      /\ \A j \in 1..(n - 1) :
           process'.keys[j] = IF j < i THEN process.keys[j] ELSE process.keys[j + 1]
  <2>1. /\ Len(Without(process.keys, process.keys[i])) = Len(process.keys) - 1
        /\ \A j \in 1..(Len(process.keys) - 1) :
             Without(process.keys, process.keys[i])[j]
               = IF j < i THEN process.keys[j] ELSE process.keys[j + 1]
    BY ONLY <1>3, i \in 1..Len(process.keys), WithoutShifts
  <2> QED BY <1>2, <1>4, <1>5, <2>1
<1>7. On(process'.keys) = On(process.keys) \ {k}
  <2>1. On(Without(process.keys, k)) = On(process.keys) \ {k}
    BY ONLY <1>3, WithoutErases
  <2> QED BY <1>5, <2>1
<1>8. /\ process'.holders[k] = {}
      /\ \A l \in Keys : process'.holders[l] \subseteq process.holders[l]
      /\ \A l \in Keys \ {k} : process'.holders[l] = process.holders[l]
  BY <1>3, <1>5 DEF Rest
<1>9. \A j \in 1..n : process.keys[j] \in Keys
  BY <1>3, <1>4
<1>10. ASSUME NEW x \in Threads PROVE Tidy(x)'
  <2>1. PICK l : l = process.place[x]
    OBVIOUS
  <2>2. l \in Nat \ {0} /\ process'.place[x] = l /\ process'.key[x] = process.key[x]
        /\ At(x)' = At(x) /\ process'.depth[x] = process.depth[x]
    BY <1>5, <2>1 DEF Inv, Formed, At
  <2>3. ASSUME NEW c \in Nat, Clean(process, x, c), c <= i PROVE Clean(process', x, c)
    <3> SUFFICES ASSUME NEW j \in 1..(n - 1), j < c
                 PROVE  x \notin process'.holders[process'.keys[j]]
      BY <1>6 DEF Clean
    <3>1. j \in 1..n /\ process'.keys[j] = process.keys[j]
      BY <1>3, <1>4, <1>6, <2>3
    <3>2. x \notin process.holders[process.keys[j]]
      BY <1>4, <2>3, <3>1 DEF Clean
    <3> QED BY <1>8, <1>9, <3>1, <3>2
  <2>4. ASSUME NEW c \in Nat, Clean(process, x, c + 1), i <= c PROVE Clean(process', x, c)
    <3> SUFFICES ASSUME NEW j \in 1..(n - 1), j < c
                 PROVE  x \notin process'.holders[process'.keys[j]]
      BY <1>6 DEF Clean
    <3>1. PICK m : m \in 1..n /\ m < c + 1 /\ process'.keys[j] = process.keys[m]
      <4>1. CASE j < i
        <5>1. j \in 1..n /\ j < c + 1
          BY <1>3, <1>4
        <5>2. process'.keys[j] = process.keys[j]
          BY <1>6, <4>1
        <5> QED BY <5>1, <5>2
      <4>2. CASE ~(j < i)
        <5>1. j + 1 \in 1..n /\ j + 1 < c + 1
          BY <1>3, <1>4
        <5>2. process'.keys[j] = process.keys[j + 1]
          BY <1>6, <4>2
        <5> QED BY <5>1, <5>2
      <4> QED BY <4>1, <4>2
    <3>2. x \notin process.holders[process.keys[m]]
      BY <1>4, <2>4, <3>1 DEF Clean
    <3> QED BY <1>8, <1>9, <3>1, <3>2
  <2>5. AllClean(process, x) => AllClean(process', x)
    <3>1. On(process.keys) \subseteq Keys
      BY <1>3, OnInThreads
    <3> QED BY <1>7, <1>8, <3>1 DEF AllClean
  <2>6. CASE At(x) = "destructor" /\ x \notin skipped
    <3>1. /\ shrunk'[x] = IF i <= l THEN shrunk[x] + 1 ELSE shrunk[x]
          /\ shrunk[x] \in Nat
      BY <1>1, <2>1, <2>6 DEF Tidiness
    <3>2. (shrunk[x] = 0 => AtKey(x)) /\ (shrunk[x] = 1 => PastKey(x))
      BY <2>6 DEF Tidiness, Tidy
    <3>3. ASSUME shrunk'[x] = 0 PROVE AtKey(x)'
      <4>1. l < i /\ AtKey(x)
        BY <1>3, <2>2, <3>1, <3>2, <3>3
      <4>2. l \in 1..(n - 1)
        BY <1>3, <1>4, <2>2, <4>1
      <4>3. process'.keys[l] = process'.key[x]
        BY <1>6, <2>1, <2>2, <4>1, <4>2 DEF AtKey
      <4>4. Clean(process, x, l + 1) /\ l + 1 \in Nat /\ l + 1 <= i
        BY <1>3, <2>1, <2>2, <4>1 DEF AtKey
      <4>5. Clean(process', x, l + 1)
        BY <2>3, <4>4
      <4> QED BY <1>6, <2>2, <4>2, <4>3, <4>5 DEF AtKey
    <3>4. ASSUME shrunk'[x] = 1 PROVE PastKey(x)'
      <4>1. CASE i <= l
        <5>1. AtKey(x)
          BY <3>1, <3>2, <3>4, <4>1
        <5>2. process.keys[l] = process.key[x] /\ Clean(process, x, l + 1) /\ l <= n
          BY <1>4, <2>1, <5>1 DEF AtKey
        <5>3. Clean(process', x, l)
          BY <2>2, <2>4, <4>1, <5>2
        <5>4. ASSUME l <= n - 1 PROVE process'.keys[l] # process.key[x]
          <6>1. l \in 1..(n - 1) /\ l \in 1..n /\ l + 1 \in 1..n /\ l + 1 # l
            BY <1>3, <1>4, <2>2, <5>4
          <6>2. process'.keys[l] = process.keys[l + 1]
            BY <1>3, <1>6, <2>2, <4>1, <6>1
          <6>3. process.keys[l + 1] # process.keys[l]
            BY <1>3, <1>4, <6>1 DEF NoRepeat
          <6> QED BY <5>2, <6>2, <6>3
        <5> QED BY <1>6, <2>2, <5>3, <5>4 DEF PastKey
      <4>2. CASE l < i
        <5>1. PastKey(x)
          BY <1>3, <2>2, <3>1, <3>2, <3>4, <4>2
        <5>2. l \in 1..(n - 1) /\ l \in 1..n
          BY <1>3, <1>4, <2>2, <4>2
        <5>3. process'.keys[l] # process'.key[x]
          BY <1>4, <1>6, <2>1, <2>2, <4>2, <5>1, <5>2 DEF PastKey
        <5>4. Clean(process, x, l) /\ l \in Nat /\ l <= i
          BY <1>3, <2>1, <2>2, <4>2, <5>1 DEF PastKey
        <5>5. Clean(process', x, l)
          BY <2>3, <5>4
        <5> QED BY <2>2, <5>3, <5>5 DEF PastKey
      <4> QED BY <1>3, <2>2, <4>1, <4>2
    <3> QED BY <2>2, <2>6, <3>3, <3>4 DEF Tidy, Ended
  <2>7. CASE ~(At(x) = "destructor" /\ x \notin skipped)
    <3>1. skipped' = skipped /\ returned' = returned
      BY DEF KeyDelete
    <3>2. Tidy(x)
      BY DEF Tidiness
    <3> QED BY <2>2, <2>5, <2>7, <3>1, <3>2 DEF Tidy, Ended
  <2> QED BY <2>6, <2>7
<1>11. Unused(process')
  BY <1>7, <1>8 DEF Unused, Tidiness
<1>12. shrunk' \in [Threads -> Nat]
  BY <1>1 DEF Tidiness
<1>13. \A x \in Threads : process'.key[x] <= process'.keyIds
  BY <1>5 DEF Tidiness
<1> QED BY <1>10, <1>11, <1>12, <1>13 DEF Tidiness

\* A thread sets a value only for itself, and not while it ends.
LEMMA SetSpecificTidies ==
  ASSUME Inv, Rest(process), Tidiness, NEW t \in Threads, SetSpecific(t) PROVE Tidiness'
<1>1. PICK k \in On(process.keys), S \in {{}, {t}} :
        process' = [process EXCEPT !.holders[k] = (@ \ {t}) \cup S]
  BY DEF SetSpecific
<1>2. /\ process'.keys = process.keys /\ process'.keyIds = process.keyIds
      /\ process'.pc = process.pc /\ process'.place = process.place
      /\ process'.key = process.key /\ process'.depth = process.depth
      /\ process'.holders = [process.holders EXCEPT ![k] = (@ \ {t}) \cup S]
  BY <1>1 DEF Inv, Formed, Whole
<1>3. k \in Keys /\ On(process.keys) \subseteq Keys
  BY OnInThreads DEF Rest
<1>4. \A x \in Threads \ {t} : \A l \in Keys : x \in process'.holders[l] <=> x \in process.holders[l]
  BY <1>2, <1>3 DEF Rest
<1>5. Unused(process')
  BY <1>2, <1>3 DEF Unused, Tidiness, Rest
<1>6. /\ shrunk' = shrunk /\ skipped' = skipped /\ returned' = returned
      /\ At(t) = "user"
  BY DEF SetSpecific, SameEnds, ends, InUser
<1>7. ASSUME NEW x \in Threads PROVE Tidy(x)'
  <2>1. CASE x = t
    BY <1>2, <1>6, <2>1 DEF Tidy, At, Ended
  <2>2. CASE x # t
    <3>1. \A l \in Keys : x \in process'.holders[l] <=> x \in process.holders[l]
      BY <1>4, <2>2
    <3>2. \A l \in 1..Len(process.keys) : process.keys[l] \in Keys
      BY DEF Rest
    <3>3. \A n : Clean(process, x, n) => Clean(process', x, n)
      BY <1>2, <3>1, <3>2 DEF Clean
    <3>4. AllClean(process, x) => AllClean(process', x)
      BY <1>2, <1>3, <3>1 DEF AllClean
    <3>5. (AtKey(x) => AtKey(x)') /\ (PastKey(x) => PastKey(x)')
      BY <1>2, <3>3 DEF AtKey, PastKey
    <3>6. Tidy(x)
      BY DEF Tidiness
    <3> QED BY <1>2, <1>6, <3>4, <3>5, <3>6 DEF Tidy, Ended, At
  <2> QED BY <2>1, <2>2
<1> QED BY <1>2, <1>5, <1>6, <1>7 DEF Tidiness

LEMMA StepTidies == Inv /\ Rest(process) /\ Tidiness /\ [Next]_vars => Tidiness'
<1> SUFFICES ASSUME Inv, Rest(process), Tidiness, [Next]_vars PROVE Tidiness'
  OBVIOUS
<1>1. ASSUME NEW t \in Threads, ThreadStep(t) PROVE Tidiness'
  BY <1>1, CallStepTidies, LifeStepTidies, EndStepTidies, WalkTidies, KeyCreateTidies,
     KeyDeleteTidies, SetSpecificTidies DEF ThreadStep
<1>2. ASSUME NEW t \in Threads, NEW u \in Threads, Detach(t, u) \/ Join(t, u) \/ Cancel(t, u)
      PROVE  Tidiness'
  BY <1>2, CallStepTidies
<1>3. CASE UNCHANGED vars
  <2>1. process' = process /\ UNCHANGED ends
    BY <1>3 DEF vars
  <2> QED BY <2>1 DEF ends, Tidiness, Unused, Tidy, AtKey, PastKey, Clean, AllClean, Ended, At
<1> QED BY <1>1, <1>2, <1>3 DEF Next

LEMMA InitTidies == Init => Tidiness
<1> SUFFICES ASSUME Init PROVE Tidiness
  OBVIOUS
<1>1. /\ process.keys = <<>> /\ process.keyIds = 0 /\ process.key = [t \in Threads |-> None]
      /\ process.holders = [k \in Keys |-> {}] /\ shrunk = [t \in Threads |-> 0]
      /\ process.pc = [t \in Threads |-> IF t = 1 THEN "user" ELSE "none"]
  BY DEF Init
<1>2. Unused(process) /\ shrunk \in [Threads -> Nat]
  BY <1>1 DEF Unused
<1>3. \A t \in Threads : process.key[t] <= process.keyIds
  BY <1>1 DEF None
<1>4. \A t \in Threads : At(t) \in {"user", "none"}
  BY <1>1 DEF At
<1>5. \A t \in Threads : Tidy(t)
  BY <1>4 DEF Tidy, Ended
<1> QED BY <1>2, <1>3, <1>5 DEF Tidiness

\* pthread_exit and cancellation: an end that is not a return has run all cleanup
\* handlers and leaves no value for a key that exists, whatever other threads
\* did to the list of keys meanwhile, short of two deletions under one destructor.
THEOREM EndsRunClean == SafeSpec => []EndsClean
<1> DEFINE All == Rest(process) /\ Tidiness
<1>1. Init => All
  <2>1. Init => On(<<>>) = {} /\ NoRepeat(<<>>) /\ <<>> \in Seq(Keys)
    BY EmptyList
  <2>2. Init => Rest(process)
    BY <2>1, BoundsAssumption DEF Init, Rest
  <2> QED BY <2>2, InitTidies
<1>2. Inv /\ All /\ [Next]_vars => All'
  BY RestStep, StepTidies
<1>3. All => EndsClean
  BY DEF Tidiness, Tidy, EndsClean, AllClean
<1> QED BY <1>1, <1>2, <1>3, Invariance, PTL DEF SafeSpec

=============================================================================
