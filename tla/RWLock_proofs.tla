--------------------------- MODULE RWLock_proofs ----------------------------
(***************************************************************************)
(* Proofs about RWLock for any sets of locks and threads, any ranks, every *)
(* disturbance and every bound.  The invariant Inv is inductive; the       *)
(* properties checked by the runs follow from it.                          *)
(***************************************************************************)
EXTENDS RWLock, WaitList_proofs, FiniteSetTheorems

Size(n) == IF n < 0 THEN -n ELSE n

\* The size of m_in_rwlock is the number of locks the thread holds, or more
\* once an inner unlock has left it behind.
NumberCoversHoldings ==
  \A t \in Threads :
    /\ IsFiniteSet(HeldBy(t))
    /\ Cardinality(HeldBy(t)) <= Size(inRwlock[t])
    /\ t \notin nested => Cardinality(HeldBy(t)) = Size(inRwlock[t])

SignsMatchModes ==
  \A t \in Threads : \A l \in HeldBy(t) :
    IF l \in wrlock THEN inRwlock[t] > 0 ELSE inRwlock[t] < 0

\* A waiting call would still be let in by the entry of rdlock or wrlock.
StillAdmitted ==
  \A t \in Threads :
    pc[t] \in Waiting =>
      /\ call[t] \in Calls
      /\ IF call[t].mode = "rd" THEN inRwlock[t] <= 0 ELSE inRwlock[t] >= 0

\* The inductive invariant.
Inv == /\ TypeOK
       /\ FlagsMatchHolders
       /\ ListsMatchPoints
       /\ NoSleeperOnFreeLock
       /\ NumberCoversHoldings
       /\ SignsMatchModes
       /\ StillAdmitted
       /\ WaitsForOthers

----------------------------------------------------------------------------
\* What the invariant says of one lock and of one thread, for the provers.
LEMMA LockFacts ==
  ASSUME Inv, NEW l \in Locks
  PROVE  /\ locking[l] \in Seq(Threads) /\ NoRepeat(locking[l])
         /\ blocked[l] \in Seq(Threads) /\ NoRepeat(blocked[l])
         /\ On(locking[l]) \subseteq Threads /\ On(blocked[l]) \subseteq Threads
         /\ \A t \in Threads : t \in On(locking[l]) <=> count[l][t] > 0
         /\ \A t \in Threads :
              t \in On(blocked[l]) <=> pc[t] = "blocked" /\ call[t].lock = l
         /\ locking[l] = <<>> <=> l \notin rdlock \cup wrlock
         /\ locking[l] = <<>> => blocked[l] = <<>>
         /\ l \in wrlock => l \notin rdlock /\ Len(locking[l]) = 1
<1>1. locking[l] \in Seq(Threads) /\ blocked[l] \in Seq(Threads)
  BY DEF Inv, TypeOK
<1>2. On(locking[l]) \subseteq Threads /\ On(blocked[l]) \subseteq Threads
  BY <1>1, OnInThreads
<1> QED BY <1>1, <1>2 DEF Inv, FlagsMatchHolders, ListsMatchPoints, NoSleeperOnFreeLock

LEMMA ThreadFacts ==
  ASSUME Inv, NEW t \in Threads
  PROVE  /\ inRwlock[t] \in Int /\ pc[t] \in Points
         /\ \A l \in Locks : count[l][t] \in Nat
         /\ IsFiniteSet(HeldBy(t)) /\ Cardinality(HeldBy(t)) \in Nat
         /\ Cardinality(HeldBy(t)) <= Size(inRwlock[t])
         /\ t \notin nested => Cardinality(HeldBy(t)) = Size(inRwlock[t])
<1>1. IsFiniteSet(HeldBy(t)) => Cardinality(HeldBy(t)) \in Nat
  BY FS_CardinalityType
<1> QED BY <1>1 DEF Inv, TypeOK, NumberCoversHoldings

\* Somebody stands on a list that is not empty, and the first holder holds.
LEMMA FirstIsOn ==
  ASSUME NEW list \in Seq(Threads)
  PROVE  /\ list # <<>> => list[1] \in On(list)
         /\ list = <<>> => On(list) = {}
         /\ Len(list) = 1 => On(list) = {list[1]}
<1>1. list # <<>> => 1 \in 1..Len(list)
  OBVIOUS
<1> QED BY <1>1, EmptyList DEF On

\* A lock nobody could be turned away from is free of the others.
LEMMA TurnedAway ==
  ASSUME Inv, NEW t \in Threads, NEW c \in Calls, ~MayTake(t, c)
  PROVE  locking[c.lock] # <<>>
<1> DEFINE l == c.lock
<1>1. l \in Locks
  BY DEF Calls
<1>2. CASE c.mode = "rd"
  <2>1. l \in wrlock \/ blocked[l] # <<>>
    BY <1>2, EmptyList DEF MayTake, MayRead, Outranked
  <2> QED BY <2>1, <1>1, LockFacts
<1>3. CASE c.mode # "rd"
  <2>1. l \in rdlock \/ First(l) # {}
    BY <1>3 DEF MayTake, MayWrite
  <2>2. First(l) # {} => locking[l] # <<>>
    BY DEF First
  <2> QED BY <2>1, <2>2, <1>1, LockFacts
<1> QED BY <1>2, <1>3

\* A thread that is turned away from a lock it holds is a reader: m_in_rwlock
\* keeps the others out of the loops.
LEMMA TurnedAwayHolder ==
  ASSUME Inv, NEW t \in Threads, NEW c \in Calls, ~MayTake(t, c),
         count[c.lock][t] > 0,
         IF c.mode = "rd" THEN inRwlock[t] <= 0 ELSE inRwlock[t] >= 0
  PROVE  c.mode = "rd" /\ c.lock \in rdlock
<1> DEFINE l == c.lock
<1>1. l \in Locks /\ c.mode \in Modes /\ l \in HeldBy(t)
  BY DEF Calls, HeldBy
<1>2. inRwlock[t] \in Int
  BY ThreadFacts
<1>3. IF l \in wrlock THEN inRwlock[t] > 0 ELSE inRwlock[t] < 0
  BY <1>1 DEF Inv, SignsMatchModes
<1>4. t \in On(locking[l]) /\ locking[l] # <<>>
  BY <1>1, LockFacts, EmptyList
<1>5. l \in rdlock \cup wrlock
  BY <1>1, <1>4, LockFacts
<1>6. CASE c.mode = "rd"
  BY <1>2, <1>3, <1>5, <1>6
<1>7. CASE c.mode = "wr"
  <2>1. l \in wrlock
    BY <1>2, <1>3, <1>7
  <2>2. l \notin rdlock /\ Len(locking[l]) = 1 /\ locking[l] \in Seq(Threads)
    BY <2>1, <1>1, LockFacts
  <2>3. locking[l][1] = t
    BY <2>2, <1>4, FirstIsOn
  <2>4. First(l) \subseteq {t}
    BY <2>3 DEF First
  <2> QED BY <2>2, <2>4, <1>7 DEF MayTake, MayWrite
<1> QED BY <1>1, <1>6, <1>7 DEF Modes

----------------------------------------------------------------------------
\* A writer is let in alone.
LEMMA WriterAlone ==
  ASSUME Inv, NEW t \in Threads, NEW l \in Locks, MayWrite(t, l)
  PROVE  /\ l \notin rdlock
         /\ \A u \in Threads : count[l][u] > 0 => u = t
         /\ locking[l] # <<>> => count[l][t] > 0 /\ Len(locking[l]) = 1
<1>1. l \notin rdlock
  BY DEF MayWrite
<1>2. /\ locking[l] \in Seq(Threads)
      /\ \A u \in Threads : u \in On(locking[l]) <=> count[l][u] > 0
      /\ locking[l] = <<>> <=> l \notin rdlock \cup wrlock
      /\ l \in wrlock => Len(locking[l]) = 1
  BY LockFacts
<1>3. CASE locking[l] = <<>>
  BY <1>1, <1>2, <1>3, EmptyList
<1>4. CASE locking[l] # <<>>
  <2>1. Len(locking[l]) = 1
    BY <1>1, <1>2, <1>4
  <2>2. locking[l][1] \in First(l)
    BY <2>1 DEF First
  <2>3. locking[l][1] = t
    BY <2>2 DEF MayWrite
  <2>4. On(locking[l]) = {t}
    BY <1>2, <2>1, <2>3, FirstIsOn
  <2> QED BY <1>1, <1>2, <2>1, <2>4
<1> QED BY <1>3, <1>4

\* What Record writes, thread by thread and lock by lock.
LEMMA RecordWrites ==
  ASSUME Inv, NEW t \in Threads, NEW c \in Calls, Record(t, c)
  PROVE  /\ locking' \in [Locks -> Seq(Threads)]
         /\ count' \in [Locks -> [Threads -> Nat]]
         /\ rdlock' \in SUBSET Locks /\ wrlock' \in SUBSET Locks
         /\ inRwlock' \in [Threads -> Int] /\ nested' \in SUBSET Threads
         /\ \A x \in Locks : x # c.lock => locking'[x] = locking[x]
         /\ locking'[c.lock] = IF count[c.lock][t] = 0
                               THEN Append(locking[c.lock], t) ELSE locking[c.lock]
         /\ \A x \in Locks : \A u \in Threads :
              count'[x][u] = IF x = c.lock /\ u = t THEN count[x][u] + 1
                                                   ELSE count[x][u]
         /\ \A u \in Threads :
              inRwlock'[u] = IF u # t THEN inRwlock[u]
                             ELSE IF c.mode = "rd" THEN inRwlock[u] - 1
                                                   ELSE inRwlock[u] + 1
<1> DEFINE l == c.lock
<1>1. l \in Locks
  BY DEF Calls
<1>2. /\ locking \in [Locks -> Seq(Threads)] /\ count \in [Locks -> [Threads -> Nat]]
      /\ rdlock \in SUBSET Locks /\ wrlock \in SUBSET Locks
      /\ inRwlock \in [Threads -> Int] /\ nested \in SUBSET Threads
  BY DEF Inv, TypeOK
<1>3. Append(locking[l], t) \in Seq(Threads)
  BY <1>1, <1>2
<1> HIDE DEF l
<1>4. locking' = [locking EXCEPT ![l] = IF count[l][t] = 0 THEN Append(@, t) ELSE @]
  BY DEF Record, l
<1>5. locking' \in [Locks -> Seq(Threads)]
  BY <1>1, <1>2, <1>3, <1>4
<1>6. /\ \A x \in Locks : x # l => locking'[x] = locking[x]
      /\ locking'[l] = IF count[l][t] = 0 THEN Append(locking[l], t) ELSE locking[l]
  BY <1>1, <1>2, <1>4
<1>7. count' = [count EXCEPT ![l][t] = @ + 1]
  BY DEF Record, l
<1>8. count' \in [Locks -> [Threads -> Nat]]
  BY <1>1, <1>2, <1>7
<1>9. \A x \in Locks : \A u \in Threads :
        count'[x][u] = IF x = l /\ u = t THEN count[x][u] + 1 ELSE count[x][u]
  BY <1>1, <1>2, <1>7
<1>10. /\ rdlock' \in SUBSET Locks /\ wrlock' \in SUBSET Locks
       /\ inRwlock' \in [Threads -> Int] /\ nested' \in SUBSET Threads
  BY <1>1, <1>2 DEF Record, l
<1>11. \A u \in Threads :
         inRwlock'[u] = IF u # t THEN inRwlock[u]
                        ELSE IF c.mode = "rd" THEN inRwlock[u] - 1 ELSE inRwlock[u] + 1
  BY <1>2 DEF Record
<1> QED BY <1>5, <1>6, <1>8, <1>9, <1>10, <1>11 DEF l

\* Record keeps the flags in step with the holders.
LEMMA RecordKeepsFlags ==
  ASSUME Inv, NEW t \in Threads, NEW c \in Calls, MayTake(t, c), Record(t, c)
  PROVE  /\ FlagsMatchHolders'
         /\ \A x \in Locks : locking'[x] = <<>> => locking[x] = <<>>
<1> DEFINE l == c.lock
<1>1. l \in Locks /\ c.mode \in Modes
  BY DEF Calls
<1>2. ASSUME NEW x \in Locks
      PROVE  /\ On(locking'[x]) = {u \in Threads : count'[x][u] > 0}
             /\ NoRepeat(locking'[x])
             /\ locking'[x] = <<>> <=> x \notin rdlock' \cup wrlock'
             /\ x \in wrlock' => x \notin rdlock' /\ Len(locking'[x]) = 1
             /\ locking'[x] = <<>> => locking[x] = <<>>
  <2>1. /\ locking[x] \in Seq(Threads) /\ NoRepeat(locking[x])
        /\ On(locking[x]) \subseteq Threads
        /\ \A u \in Threads : u \in On(locking[x]) <=> count[x][u] > 0
        /\ locking[x] = <<>> <=> x \notin rdlock \cup wrlock
        /\ x \in wrlock => x \notin rdlock /\ Len(locking[x]) = 1
    BY LockFacts
  <2>2. \A u \in Threads : count[x][u] \in Nat
    BY ThreadFacts
  <2>3. /\ rdlock' = IF c.mode = "rd" THEN rdlock \cup {l} ELSE rdlock
        /\ wrlock' = IF c.mode = "wr" THEN wrlock \cup {l} ELSE wrlock
    BY DEF Record
  <2>4. \A u \in Threads :
          count'[x][u] = IF x = l /\ u = t THEN count[x][u] + 1 ELSE count[x][u]
    BY RecordWrites
  <2>5. CASE x # l
    <3>1. locking'[x] = locking[x]
      BY <2>5, RecordWrites
    <3> QED BY <3>1, <2>1, <2>3, <2>4, <2>5
  <2>6. CASE x = l /\ count[l][t] = 0
    <3>1. locking'[x] = Append(locking[x], t)
      BY <2>6, RecordWrites
    <3>2. t \notin On(locking[x])
      BY <2>1, <2>2, <2>6
    <3>3. /\ On(locking'[x]) = On(locking[x]) \cup {t} /\ NoRepeat(locking'[x])
          /\ Len(locking'[x]) = Len(locking[x]) + 1 /\ locking'[x] \in Seq(Threads)
      BY ONLY <2>1, <3>1, <3>2, AppendAdds, t \in Threads
    <3>4. On(locking'[x]) = {u \in Threads : count'[x][u] > 0}
      <4>1. \A u \in Threads : u \in On(locking'[x]) <=> count'[x][u] > 0
        BY <2>1, <2>2, <2>4, <2>6, <3>3
      <4>2. On(locking'[x]) \subseteq Threads
        BY <2>1, <3>3
      <4> QED BY <4>1, <4>2
    <3>5. locking'[x] # <<>>
      BY <2>1, <3>3
    <3>6. CASE c.mode = "rd"
      BY <2>3, <2>6, <3>3, <3>4, <3>5, <3>6 DEF MayTake, MayRead
    <3>7. CASE c.mode = "wr"
      <4>1. x \notin rdlock /\ locking[x] = <<>>
        BY <1>1, <2>6, <3>7, WriterAlone DEF MayTake
      <4>2. Len(locking'[x]) = 1
        BY <3>3, <4>1
      <4> QED BY <2>3, <2>6, <3>3, <3>4, <3>5, <3>7, <4>1, <4>2
    <3> QED BY <1>1, <3>6, <3>7 DEF Modes
  <2>7. CASE x = l /\ count[l][t] # 0
    <3>1. locking'[x] = locking[x]
      BY <2>7, RecordWrites
    <3>2. count[x][t] > 0
      BY <2>2, <2>7
    <3>3. On(locking'[x]) = {u \in Threads : count'[x][u] > 0}
      <4>1. \A u \in Threads : u \in On(locking'[x]) <=> count'[x][u] > 0
        BY <2>1, <2>2, <2>4, <2>7, <3>1, <3>2
      <4> QED BY <4>1, <2>1, <3>1
    <3>4. locking[x] # <<>>
      BY <2>1, <3>2, EmptyList
    <3>5. CASE c.mode = "rd"
      BY <2>1, <2>3, <2>7, <3>1, <3>3, <3>4, <3>5 DEF MayTake, MayRead
    <3>6. CASE c.mode = "wr"
      <4>1. x \notin rdlock /\ Len(locking[x]) = 1
        BY <1>1, <2>7, <3>4, <3>6, WriterAlone DEF MayTake
      <4> QED BY <2>1, <2>3, <2>7, <3>1, <3>3, <3>4, <3>6, <4>1
    <3> QED BY <1>1, <3>5, <3>6 DEF Modes
  <2> QED BY <2>5, <2>6, <2>7
<1> QED BY <1>2 DEF FlagsMatchHolders

\* Record moves m_in_rwlock away from zero by one, and by one lock more or none.
LEMMA RecordKeepsNumbers ==
  ASSUME Inv, NEW t \in Threads, NEW c \in Calls, MayTake(t, c), Record(t, c),
         IF c.mode = "rd" THEN inRwlock[t] <= 0 ELSE inRwlock[t] >= 0
  PROVE  NumberCoversHoldings' /\ SignsMatchModes'
<1> DEFINE l == c.lock
<1>1. l \in Locks /\ c.mode \in Modes
  BY DEF Calls
<1>2. \A u \in Threads : \A x \in Locks : count[x][u] \in Nat
  BY ThreadFacts
<1>3. /\ \A x \in Locks : \A u \in Threads :
           count'[x][u] = IF x = l /\ u = t THEN count[x][u] + 1 ELSE count[x][u]
      /\ \A u \in Threads :
           inRwlock'[u] = IF u # t THEN inRwlock[u]
                          ELSE IF c.mode = "rd" THEN inRwlock[u] - 1 ELSE inRwlock[u] + 1
  BY RecordWrites
<1>4. /\ rdlock' = IF c.mode = "rd" THEN rdlock \cup {l} ELSE rdlock
      /\ wrlock' = IF c.mode = "wr" THEN wrlock \cup {l} ELSE wrlock
      /\ nested' = IF count[l][t] > 0 THEN nested \cup {t} ELSE nested
  BY DEF Record
<1>5. ASSUME NEW u \in Threads, u # t
      PROVE  HeldBy(u)' = HeldBy(u) /\ inRwlock'[u] = inRwlock[u]
             /\ (u \notin nested' => u \notin nested)
  BY <1>3, <1>4, <1>5 DEF HeldBy
<1>6. HeldBy(t)' = HeldBy(t) \cup {l}
  BY <1>1, <1>2, <1>3 DEF HeldBy
<1>7. l \in HeldBy(t) <=> count[l][t] > 0
  BY <1>1 DEF HeldBy
<1>8. /\ inRwlock[t] \in Int
      /\ IsFiniteSet(HeldBy(t)) /\ Cardinality(HeldBy(t)) \in Nat
      /\ Cardinality(HeldBy(t)) <= Size(inRwlock[t])
      /\ t \notin nested => Cardinality(HeldBy(t)) = Size(inRwlock[t])
  BY ThreadFacts
<1>9. /\ IsFiniteSet(HeldBy(t)')
      /\ Cardinality(HeldBy(t)') = IF l \in HeldBy(t) THEN Cardinality(HeldBy(t))
                                                     ELSE Cardinality(HeldBy(t)) + 1
  <2>1. /\ IsFiniteSet(HeldBy(t) \cup {l})
        /\ Cardinality(HeldBy(t) \cup {l}) =
             IF l \in HeldBy(t) THEN Cardinality(HeldBy(t)) ELSE Cardinality(HeldBy(t)) + 1
    BY ONLY <1>8, FS_AddElement
  <2> QED BY ONLY <2>1, <1>6
<1>10. Size(inRwlock'[t]) = Size(inRwlock[t]) + 1
  <2>1. c.mode = "rd" \/ c.mode = "wr"
    BY <1>1 DEF Modes
  <2> QED BY <2>1, <1>3, <1>8 DEF Size
<1>11. Size(inRwlock[t]) \in Nat
  BY <1>8 DEF Size
<1>12. NumberCoversHoldings'
  <2>1. ASSUME NEW u \in Threads
        PROVE  /\ IsFiniteSet(HeldBy(u)')
               /\ Cardinality(HeldBy(u)') <= Size(inRwlock'[u])
               /\ u \notin nested' => Cardinality(HeldBy(u)') = Size(inRwlock'[u])
    <3>1. CASE u # t
      BY <3>1, <1>5, ThreadFacts
    <3>2. CASE u = t
      <4>1. CASE l \in HeldBy(t)
        <5>1. t \in nested'
          BY <1>4, <1>7, <4>1
        <5> QED BY ONLY <5>1, <3>2, <4>1, <1>8, <1>9, <1>10, <1>11
      <4>2. CASE l \notin HeldBy(t)
        <5>1. t \notin nested' => t \notin nested
          BY <1>4
        <5> QED BY ONLY <5>1, <3>2, <4>2, <1>8, <1>9, <1>10, <1>11
      <4> QED BY <4>1, <4>2
    <3> QED BY <3>1, <3>2
  <2> QED BY <2>1 DEF NumberCoversHoldings
<1>13. SignsMatchModes'
  <2>1. ASSUME NEW u \in Threads, NEW x \in HeldBy(u)'
        PROVE  IF x \in wrlock' THEN inRwlock'[u] > 0 ELSE inRwlock'[u] < 0
    <3>1. CASE x \in HeldBy(u) /\ x # l
      <4>1. IF x \in wrlock THEN inRwlock[u] > 0 ELSE inRwlock[u] < 0
        BY <3>1 DEF Inv, SignsMatchModes
      <4>2. x \in wrlock' <=> x \in wrlock
        BY <1>4, <3>1
      <4>3. u # t => inRwlock'[u] = inRwlock[u]
        BY <1>5
      <4>4. CASE u # t
        BY <4>1, <4>2, <4>3, <4>4
      <4>5. CASE u = t
        BY <1>1, <1>3, <1>8, <4>1, <4>2, <4>5 DEF Modes
      <4> QED BY <4>4, <4>5
    <3>2. CASE x = l /\ u = t
      <4>1. CASE c.mode = "rd"
        <5>1. l \notin wrlock'
          BY <1>4, <4>1 DEF MayTake, MayRead
        <5> QED BY <5>1, <1>3, <1>8, <3>2, <4>1
      <4>2. CASE c.mode = "wr"
        BY <1>3, <1>4, <1>8, <3>2, <4>2
      <4> QED BY <1>1, <4>1, <4>2 DEF Modes
    <3>3. CASE x = l /\ u # t
      <4>1. l \in HeldBy(u) /\ count[l][u] > 0
        BY <1>5, <3>3 DEF HeldBy
      <4>2. c.mode = "rd"
        <5>1. ASSUME c.mode # "rd" PROVE FALSE
          BY <1>1, <3>3, <4>1, <5>1, WriterAlone DEF MayTake
        <5> QED BY <5>1
      <4>3. wrlock' = wrlock
        BY <1>4, <4>2
      <4> QED BY <1>5, <3>3, <4>1, <4>3 DEF Inv, SignsMatchModes
    <3>4. x \in HeldBy(u) \/ (x = l /\ u = t)
      BY <1>5, <1>6
    <3> QED BY <3>1, <3>2, <3>3, <3>4
  <2> QED BY <2>1 DEF SignsMatchModes
<1> QED BY <1>12, <1>13

----------------------------------------------------------------------------
\* The lists keep matching when one thread that is not blocked moves.
LEMMA MoveKeepsLists ==
  ASSUME Inv, NEW t \in Threads, pc[t] # "blocked", pc'[t] # "blocked",
         blocked' = blocked,
         \A u \in Threads : u # t => pc'[u] = pc[u] /\ call'[u] = call[u]
  PROVE  ListsMatchPoints'
<1>1. ASSUME NEW l \in Locks
      PROVE  /\ On(blocked'[l]) = {u \in Threads : pc'[u] = "blocked" /\ call'[u].lock = l}
             /\ NoRepeat(blocked'[l])
  <2>1. /\ On(blocked[l]) \subseteq Threads /\ NoRepeat(blocked[l])
        /\ \A u \in Threads :
             u \in On(blocked[l]) <=> pc[u] = "blocked" /\ call[u].lock = l
    BY LockFacts
  <2>2. \A u \in Threads :
          u \in On(blocked'[l]) <=> pc'[u] = "blocked" /\ call'[u].lock = l
    BY <2>1
  <2> QED BY <2>1, <2>2
<1> QED BY <1>1 DEF ListsMatchPoints

\* A call that gets the lock, at once or at a later turn, and returns.
LEMMA TakeTurnKeeps ==
  ASSUME Inv, NEW t \in Threads, NEW c \in Calls, TakeTurn(t, c),
         pc[t] \in {"user", "woken", "timedWoken"},
         IF c.mode = "rd" THEN inRwlock[t] <= 0 ELSE inRwlock[t] >= 0,
         UNCHANGED <<exists, cancelled, clockVars>>
  PROVE  Inv'
<1>1. /\ MayTake(t, c) /\ Record(t, c) /\ blocked' = blocked
      /\ pc' = [pc EXCEPT ![t] = "user"] /\ call' = [call EXCEPT ![t] = NoCall]
      /\ continueLoop' = continueLoop \ {t}
  BY DEF TakeTurn, Return
<1>2. pc \in [Threads -> Points] /\ call \in [Threads -> Calls \cup {NoCall}]
  BY DEF Inv, TypeOK
<1>3. /\ \A u \in Threads : u # t => pc'[u] = pc[u] /\ call'[u] = call[u]
      /\ pc'[t] = "user"
  BY <1>1, <1>2
<1>4. TypeOK'
  <2>1. pc' \in [Threads -> Points] /\ call' \in [Threads -> Calls \cup {NoCall}]
    BY <1>1, <1>2 DEF Points
  <2>2. \A u \in Threads : pc'[u] \in Waiting => call'[u] # NoCall
    BY <1>3 DEF Inv, TypeOK, Waiting
  <2>3. /\ exists' \in SUBSET Locks /\ blocked' \in [Locks -> Seq(Threads)]
        /\ continueLoop' \in SUBSET Threads /\ cancelled' \in SUBSET Threads
        /\ expired' \in SUBSET Threads /\ entries' \in [Threads -> Nat]
    BY <1>1 DEF Inv, TypeOK, clockVars
  <2>4. /\ locking' \in [Locks -> Seq(Threads)]
        /\ count' \in [Locks -> [Threads -> Nat]]
        /\ rdlock' \in SUBSET Locks /\ wrlock' \in SUBSET Locks
        /\ inRwlock' \in [Threads -> Int] /\ nested' \in SUBSET Threads
    BY <1>1, RecordWrites
  <2> QED BY ONLY <2>1, <2>2, <2>3, <2>4 DEF TypeOK
<1>5. FlagsMatchHolders' /\ \A x \in Locks : locking'[x] = <<>> => locking[x] = <<>>
  BY <1>1, RecordKeepsFlags
<1>6. NumberCoversHoldings' /\ SignsMatchModes'
  BY <1>1, RecordKeepsNumbers
<1>7. ListsMatchPoints'
  BY <1>1, <1>3, MoveKeepsLists
<1>8. NoSleeperOnFreeLock'
  BY <1>1, <1>5 DEF NoSleeperOnFreeLock, Inv
<1>9. StillAdmitted'
  <2>1. \A u \in Threads : u # t => inRwlock'[u] = inRwlock[u]
    BY <1>1, RecordWrites
  <2> QED BY <2>1, <1>3 DEF Inv, StillAdmitted, Waiting
<1>10. WaitsForOthers'
  <2>1. rdlock \subseteq rdlock'
    BY <1>1 DEF Record
  <2>2. ASSUME NEW u \in Threads, pc'[u] \in Waiting, count'[call'[u].lock][u] > 0
        PROVE  call'[u].mode = "rd" /\ call'[u].lock \in rdlock'
    <3>1. u # t
      BY <1>3, <2>2 DEF Waiting
    <3>2. pc[u] \in Waiting /\ call'[u] = call[u]
      BY <1>3, <2>2, <3>1
    <3>3. call[u].lock \in Locks
      BY <3>2 DEF Inv, StillAdmitted, Calls
    <3>4. count[call[u].lock][u] > 0
      BY <1>1, <2>2, <3>1, <3>2, <3>3, RecordWrites
    <3> QED BY <2>1, <3>2, <3>4 DEF Inv, WaitsForOthers
  <2> QED BY <2>2 DEF WaitsForOthers
<1> QED BY <1>4, <1>5, <1>6, <1>7, <1>8, <1>9, <1>10 DEF Inv

\* What does not depend on where the threads are is kept by a step that leaves
\* the locks alone.
LEMMA SameLocksKeep ==
  ASSUME Inv, UNCHANGED lockVars
  PROVE  FlagsMatchHolders' /\ NumberCoversHoldings' /\ SignsMatchModes'
<1> USE DEF lockVars
<1>1. FlagsMatchHolders'
  BY DEF Inv, FlagsMatchHolders
<1>2. \A t \in Threads : HeldBy(t)' = HeldBy(t)
  BY DEF HeldBy
<1>3. NumberCoversHoldings' /\ SignsMatchModes'
  BY <1>2 DEF Inv, NumberCoversHoldings, SignsMatchModes
<1> QED BY <1>1, <1>3

\* A thread that goes to sleep on the lock's list.
LEMMA BlockTurnKeeps ==
  ASSUME Inv, NEW t \in Threads, NEW c \in Calls, BlockTurn(t, c),
         pc[t] \in {"user", "woken"},
         IF c.mode = "rd" THEN inRwlock[t] <= 0 ELSE inRwlock[t] >= 0,
         UNCHANGED <<exists, cancelled, clockVars>>
  PROVE  Inv'
<1> DEFINE l == c.lock
<1>1. /\ ~MayTake(t, c) /\ blocked' = [blocked EXCEPT ![l] = Append(@, t)]
      /\ pc' = [pc EXCEPT ![t] = "blocked"] /\ call' = [call EXCEPT ![t] = c]
      /\ UNCHANGED lockVars /\ continueLoop' = continueLoop /\ l \in Locks
  BY DEF BlockTurn, Calls
<1>2. /\ pc \in [Threads -> Points] /\ call \in [Threads -> Calls \cup {NoCall}]
      /\ blocked \in [Locks -> Seq(Threads)]
  BY DEF Inv, TypeOK
<1>3. /\ \A u \in Threads : u # t => pc'[u] = pc[u] /\ call'[u] = call[u]
      /\ pc'[t] = "blocked" /\ call'[t] = c
  BY <1>1, <1>2
<1>4. TypeOK'
  <2>1. pc' \in [Threads -> Points] /\ call' \in [Threads -> Calls \cup {NoCall}]
    BY <1>1, <1>2 DEF Points
  <2>2. \A u \in Threads : pc'[u] \in Waiting => call'[u] # NoCall
    BY <1>3, NoCallAssumption DEF Inv, TypeOK
  <2>3. Append(blocked[l], t) \in Seq(Threads)
    BY <1>1, <1>2
  <2>4. blocked' \in [Locks -> Seq(Threads)]
    BY <1>1, <1>2, <2>3
  <2> QED BY <1>1, <2>1, <2>2, <2>4 DEF Inv, TypeOK, lockVars, clockVars
<1>5. FlagsMatchHolders' /\ NumberCoversHoldings' /\ SignsMatchModes'
  BY <1>1, SameLocksKeep
<1>6. ASSUME NEW x \in Locks
      PROVE  /\ On(blocked'[x]) = {u \in Threads : pc'[u] = "blocked" /\ call'[u].lock = x}
             /\ NoRepeat(blocked'[x])
             /\ locking'[x] = <<>> => blocked'[x] = <<>>
  <2>1. /\ blocked[x] \in Seq(Threads)
        /\ On(blocked[x]) \subseteq Threads /\ NoRepeat(blocked[x])
        /\ \A u \in Threads :
             u \in On(blocked[x]) <=> pc[u] = "blocked" /\ call[u].lock = x
        /\ locking[x] = <<>> => blocked[x] = <<>>
    BY LockFacts
  <2>2. locking'[x] = locking[x]
    BY <1>1 DEF lockVars
  <2>3. CASE x # l
    <3>1. blocked'[x] = blocked[x]
      BY <1>1, <1>2, <2>3
    <3>2. \A u \in Threads :
            u \in On(blocked'[x]) <=> pc'[u] = "blocked" /\ call'[u].lock = x
      BY <1>3, <2>1, <2>3, <3>1
    <3> QED BY <2>1, <2>2, <3>1, <3>2
  <2>4. CASE x = l
    <3>1. blocked'[x] = Append(blocked[x], t)
      BY <1>1, <1>2, <2>4
    <3>2. t \notin On(blocked[x])
      BY <2>1
    <3>3. /\ On(blocked'[x]) = On(blocked[x]) \cup {t} /\ NoRepeat(blocked'[x])
      BY ONLY <2>1, <3>1, <3>2, AppendAdds, t \in Threads
    <3>4. \A u \in Threads :
            u \in On(blocked'[x]) <=> pc'[u] = "blocked" /\ call'[u].lock = x
      BY <1>3, <2>1, <2>4, <3>3
    <3>5. locking[x] # <<>>
      BY <1>1, <2>4, TurnedAway
    <3> QED BY <2>1, <2>2, <3>3, <3>4, <3>5
  <2> QED BY <2>3, <2>4
<1>7. ListsMatchPoints' /\ NoSleeperOnFreeLock'
  BY <1>6 DEF ListsMatchPoints, NoSleeperOnFreeLock
<1>8. StillAdmitted'
  BY <1>1, <1>3 DEF Inv, StillAdmitted, lockVars
<1>9. WaitsForOthers'
  <2>1. count[l][t] > 0 => c.mode = "rd" /\ l \in rdlock
    BY <1>1, TurnedAwayHolder
  <2> QED BY <1>1, <1>3, <2>1 DEF Inv, WaitsForOthers, lockVars
<1> QED BY <1>4, <1>5, <1>7, <1>8, <1>9 DEF Inv

\* A thread that goes back to the loop of a timed call, to sleep there or, with
\* a deadline that does not make it sleep, to spin.
LEMMA BackToLoopKeeps ==
  ASSUME Inv, NEW t \in Threads, NEW c \in Calls, NEW point \in {"timed", "spin"},
         BackToLoop(t, c, point),
         pc[t] \in {"user", "timedWoken"},
         IF c.mode = "rd" THEN inRwlock[t] <= 0 ELSE inRwlock[t] >= 0,
         entries' \in [Threads -> Nat],
         UNCHANGED <<blocked, exists, cancelled, expired>>
  PROVE  Inv'
<1>1. /\ ~MayTake(t, c)
      /\ pc' = [pc EXCEPT ![t] = point] /\ call' = [call EXCEPT ![t] = c]
      /\ continueLoop' \in {continueLoop, continueLoop \cup {t}}
      /\ UNCHANGED lockVars
  BY DEF BackToLoop
<1>2. pc \in [Threads -> Points] /\ call \in [Threads -> Calls \cup {NoCall}]
  BY DEF Inv, TypeOK
<1>3. /\ \A u \in Threads : u # t => pc'[u] = pc[u] /\ call'[u] = call[u]
      /\ pc'[t] = point /\ call'[t] = c
  BY <1>1, <1>2
<1>4. TypeOK'
  <2>1. pc' \in [Threads -> Points] /\ call' \in [Threads -> Calls \cup {NoCall}]
    BY <1>1, <1>2 DEF Points
  <2>2. \A u \in Threads : pc'[u] \in Waiting => call'[u] # NoCall
    BY <1>3, NoCallAssumption DEF Inv, TypeOK
  <2>3. continueLoop' \in SUBSET Threads
    BY <1>1 DEF Inv, TypeOK
  <2> QED BY <1>1, <2>1, <2>2, <2>3 DEF Inv, TypeOK, lockVars
<1>5. FlagsMatchHolders' /\ NumberCoversHoldings' /\ SignsMatchModes'
  BY <1>1, SameLocksKeep
<1>6. ListsMatchPoints' /\ NoSleeperOnFreeLock'
  BY <1>1, <1>3, MoveKeepsLists DEF Inv, NoSleeperOnFreeLock, lockVars
<1>7. StillAdmitted'
  BY <1>1, <1>3 DEF Inv, StillAdmitted, lockVars
<1>8. WaitsForOthers'
  <2>1. count[c.lock][t] > 0 => c.mode = "rd" /\ c.lock \in rdlock
    BY <1>1, TurnedAwayHolder
  <2> QED BY <1>1, <1>3, <2>1 DEF Inv, WaitsForOthers, lockVars
<1> QED BY <1>4, <1>5, <1>6, <1>7, <1>8 DEF Inv

\* A timed call that sleeps, or that comes to the turn it never leaves.
LEMMA SleepOrSpinKeeps ==
  ASSUME Inv, NEW t \in Threads, NEW c \in Calls,
         SleepTurn(t, c) \/ SpinTurn(t, c),
         pc[t] \in {"user", "timedWoken"},
         IF c.mode = "rd" THEN inRwlock[t] <= 0 ELSE inRwlock[t] >= 0,
         UNCHANGED <<blocked, exists, cancelled, expired>>
  PROVE  Inv'
<1>1. CASE SleepTurn(t, c)
  <2>1. BackToLoop(t, c, "timed") /\ entries' \in [Threads -> Nat]
    BY <1>1 DEF SleepTurn, Inv, TypeOK
  <2> QED BY <2>1, BackToLoopKeeps
<1>2. CASE SpinTurn(t, c)
  <2>1. /\ pc' = [pc EXCEPT ![t] = "spin"]
        /\ UNCHANGED <<lockVars, call, continueLoop, entries>>
    BY <1>2 DEF SpinTurn
  <2>2. pc \in [Threads -> Points]
    BY DEF Inv, TypeOK
  <2>3. /\ \A u \in Threads : u # t => pc'[u] = pc[u] /\ call'[u] = call[u]
        /\ pc'[t] = "spin"
    BY <2>1, <2>2
  <2>4. TypeOK'
    BY <2>1, <2>2, <2>3 DEF Inv, TypeOK, lockVars, Points, Waiting
  <2>5. FlagsMatchHolders' /\ NumberCoversHoldings' /\ SignsMatchModes'
    BY <2>1, SameLocksKeep
  <2>6. ListsMatchPoints' /\ NoSleeperOnFreeLock'
    BY <2>1, <2>3, MoveKeepsLists DEF Inv, NoSleeperOnFreeLock, lockVars
  <2>7. StillAdmitted' /\ WaitsForOthers'
    BY <2>1, <2>3 DEF Inv, StillAdmitted, WaitsForOthers, lockVars, Waiting
  <2> QED BY <2>4, <2>5, <2>6, <2>7 DEF Inv
<1> QED BY <1>1, <1>2

----------------------------------------------------------------------------
\* A thread that is in user code, or at its end, gives up the locks of G: the
\* lists of those that are left without a holder are woken.
LEMMA ReleaseKeeps ==
  ASSUME Inv, NEW t \in Threads, pc[t] \in {"user", "cleanup"},
         NEW point \in {"user", "cleanup", "done"}, NEW G \in SUBSET Locks,
         locking' = [x \in Locks |-> IF x \in G THEN Without(locking[x], t)
                                                ELSE locking[x]],
         count' \in [Locks -> [Threads -> Nat]],
         \A x \in Locks : \A u \in Threads :
           count'[x][u] = IF x \in G /\ u = t THEN 0 ELSE count[x][u],
         \A x \in G : count[x][t] > 0,
         Emptied({x \in G : locking'[x] = <<>>}, point, t),
         inRwlock' \in [Threads -> Int], entries' \in [Threads -> Nat],
         \A u \in Threads : u # t => inRwlock'[u] = inRwlock[u],
         IsFiniteSet(HeldBy(t)'),
         Cardinality(HeldBy(t)') <= Size(inRwlock'[t]),
         t \notin nested => Cardinality(HeldBy(t)') = Size(inRwlock'[t]),
         \A x \in HeldBy(t)' : IF x \in wrlock THEN inRwlock'[t] > 0
                                               ELSE inRwlock'[t] < 0,
         UNCHANGED <<exists, call, continueLoop, cancelled, expired, nested>>
  PROVE  Inv'
<1> DEFINE S == {x \in G : locking'[x] = <<>>}
           U == UNION {On(blocked[x]) : x \in S}
<1>1. /\ rdlock' = rdlock \ S /\ wrlock' = wrlock \ S
      /\ blocked' = [x \in Locks |-> IF x \in S THEN <<>> ELSE blocked[x]]
      /\ pc' = [Woken(U) EXCEPT ![t] = point]
  BY DEF Emptied
<1>2. S \subseteq Locks /\ \A x \in S : x \in G /\ locking'[x] = <<>>
  OBVIOUS
<1>3. \A x \in G : locking'[x] = <<>> => x \in S
  OBVIOUS
<1>a. \A u : u \in U <=> \E x \in S : u \in On(blocked[x])
  OBVIOUS
<1> HIDE DEF S, U
<1>4. pc \in [Threads -> Points] /\ call \in [Threads -> Calls \cup {NoCall}]
  BY DEF Inv, TypeOK
<1>5. ASSUME NEW u \in Threads
      PROVE  pc'[u] = IF u = t THEN point
                      ELSE IF pc[u] = "blocked" /\ call[u].lock \in S THEN "woken"
                      ELSE pc[u]
  <2>1. pc'[u] = IF u = t THEN point ELSE IF u \in U THEN WokenAt(pc[u]) ELSE pc[u]
    BY <1>1 DEF Woken
  <2>2. u \in U => pc[u] = "blocked" /\ call[u].lock \in S
    BY <1>2, <1>a, LockFacts
  <2>3. pc[u] = "blocked" /\ call[u].lock \in S => u \in U
    BY <1>2, <1>a, LockFacts
  <2> QED BY <2>1, <2>2, <2>3 DEF WokenAt
<1>6. ASSUME NEW x \in Locks
      PROVE  /\ locking'[x] \in Seq(Threads)
             /\ On(locking'[x]) = {u \in Threads : count'[x][u] > 0}
             /\ NoRepeat(locking'[x])
             /\ locking'[x] = <<>> <=> x \notin rdlock' \cup wrlock'
             /\ x \in wrlock' => x \notin rdlock' /\ Len(locking'[x]) = 1
  <2>1. /\ locking[x] \in Seq(Threads) /\ NoRepeat(locking[x])
        /\ On(locking[x]) \subseteq Threads
        /\ \A u \in Threads : u \in On(locking[x]) <=> count[x][u] > 0
        /\ locking[x] = <<>> <=> x \notin rdlock \cup wrlock
        /\ x \in wrlock => x \notin rdlock /\ Len(locking[x]) = 1
    BY LockFacts
  <2>2. CASE x \notin G
    <3>1. locking'[x] = locking[x] /\ x \notin S
      BY <1>2, <2>2
    <3>2. \A u \in Threads : count'[x][u] = count[x][u]
      BY <2>2
    <3> QED BY <1>1, <2>1, <3>1, <3>2
  <2>3. CASE x \in G
    <3>1. locking'[x] = Without(locking[x], t) /\ t \in On(locking[x])
      BY <2>1, <2>3
    <3>2. /\ locking'[x] \in Seq(Threads) /\ On(locking'[x]) = On(locking[x]) \ {t}
          /\ NoRepeat(locking'[x]) /\ Len(locking'[x]) = Len(locking[x]) - 1
      <4>1. /\ Without(locking[x], t) \in Seq(Threads)
            /\ On(Without(locking[x], t)) = On(locking[x]) \ {t}
            /\ NoRepeat(Without(locking[x], t))
            /\ Len(Without(locking[x], t)) = IF t \in On(locking[x])
                                              THEN Len(locking[x]) - 1
                                              ELSE Len(locking[x])
        BY ONLY <2>1, WithoutErases, t \in Threads
      <4> QED BY ONLY <3>1, <4>1
    <3>3. On(locking'[x]) = {u \in Threads : count'[x][u] > 0}
      <4>1. \A u \in Threads : u \in On(locking'[x]) <=> count'[x][u] > 0
        <5>1. \A u \in Threads : count'[x][u] = IF u = t THEN 0 ELSE count[x][u]
          BY <2>3
        <5> QED BY ONLY <5>1, <2>1, <3>2
      <4> QED BY <2>1, <3>2, <4>1
    <3>4. locking[x] # <<>>
      BY <2>1, <3>1, EmptyList
    <3>5. x \in S <=> locking'[x] = <<>>
      BY <1>2, <1>3, <2>3
    <3>6. x \in wrlock => locking'[x] = <<>>
      BY ONLY <2>1, <3>2
    <3> QED BY <1>1, <2>1, <3>2, <3>3, <3>4, <3>5, <3>6
  <2> QED BY <2>2, <2>3
<1>7. FlagsMatchHolders'
  BY <1>6 DEF FlagsMatchHolders
<1>8. TypeOK'
  <2>1. locking' \in [Locks -> Seq(Threads)]
    BY <1>6
  <2>2. rdlock' \in SUBSET Locks /\ wrlock' \in SUBSET Locks
    BY <1>1 DEF Inv, TypeOK
  <2>3. blocked' \in [Locks -> Seq(Threads)]
    <3>1. \A x \in Locks : blocked[x] \in Seq(Threads)
      BY DEF Inv, TypeOK
    <3>2. <<>> \in Seq(Threads)
      OBVIOUS
    <3> QED BY <1>1, <3>1, <3>2
  <2>4. pc' \in [Threads -> Points]
    <3>1. \A u \in Threads : pc'[u] \in Points
      BY <1>4, <1>5 DEF Points
    <3> QED BY <1>1, <3>1 DEF Woken
  <2>5. \A u \in Threads : pc'[u] \in Waiting => call'[u] # NoCall
    BY <1>5 DEF Inv, TypeOK, Waiting
  <2>6. /\ exists' \in SUBSET Locks /\ call' \in [Threads -> Calls \cup {NoCall}]
        /\ continueLoop' \in SUBSET Threads /\ cancelled' \in SUBSET Threads
        /\ expired' \in SUBSET Threads /\ nested' \in SUBSET Threads
    BY DEF Inv, TypeOK
  <2> QED BY <2>1, <2>2, <2>3, <2>4, <2>5, <2>6 DEF TypeOK
<1>9. ASSUME NEW x \in Locks
      PROVE  /\ On(blocked'[x]) = {u \in Threads : pc'[u] = "blocked" /\ call'[u].lock = x}
             /\ NoRepeat(blocked'[x])
             /\ locking'[x] = <<>> => blocked'[x] = <<>>
  <2>1. /\ On(blocked[x]) \subseteq Threads /\ NoRepeat(blocked[x])
        /\ \A u \in Threads :
             u \in On(blocked[x]) <=> pc[u] = "blocked" /\ call[u].lock = x
        /\ locking[x] = <<>> => blocked[x] = <<>>
    BY LockFacts
  <2>2. CASE x \in S
    <3>1. blocked'[x] = <<>>
      BY <1>1, <2>2
    <3>2. \A u \in Threads : ~(pc'[u] = "blocked" /\ call'[u].lock = x)
      BY <1>5, <2>2
    <3> QED BY <3>1, <3>2, EmptyList
  <2>3. CASE x \notin S
    <3>1. blocked'[x] = blocked[x]
      BY <1>1, <2>3
    <3>2. \A u \in Threads :
            u \in On(blocked'[x]) <=> pc'[u] = "blocked" /\ call'[u].lock = x
      BY <1>5, <2>1, <2>3, <3>1
    <3>3. locking'[x] = <<>> => x \notin G
      BY <1>3, <2>3
    <3>4. x \notin G => locking'[x] = locking[x]
      OBVIOUS
    <3> QED BY <2>1, <3>1, <3>2, <3>3, <3>4
  <2> QED BY <2>2, <2>3
<1>10. ListsMatchPoints' /\ NoSleeperOnFreeLock'
  BY <1>9 DEF ListsMatchPoints, NoSleeperOnFreeLock
<1>11. ASSUME NEW u \in Threads, u # t PROVE HeldBy(u)' = HeldBy(u)
  BY <1>11 DEF HeldBy
<1>12. NumberCoversHoldings'
  BY <1>11 DEF Inv, NumberCoversHoldings
<1>13. SignsMatchModes'
  <2>1. ASSUME NEW u \in Threads, NEW x \in HeldBy(u)'
        PROVE  IF x \in wrlock' THEN inRwlock'[u] > 0 ELSE inRwlock'[u] < 0
    <3>1. x \in Locks /\ count'[x][u] > 0
      BY DEF HeldBy
    <3>2. u \in On(locking'[x])
      BY <1>6, <3>1
    <3>3. x \notin S
      BY <1>2, <3>2, EmptyList
    <3>4. x \in wrlock' <=> x \in wrlock
      BY <1>1, <3>3
    <3>5. CASE u = t
      BY <3>4, <3>5
    <3>6. CASE u # t
      BY <1>11, <3>4, <3>6 DEF Inv, SignsMatchModes
    <3> QED BY <3>5, <3>6
  <2> QED BY <2>1 DEF SignsMatchModes
<1>14. StillAdmitted'
  BY <1>5 DEF Inv, StillAdmitted, Waiting
<1>15. WaitsForOthers'
  <2>1. ASSUME NEW u \in Threads, pc'[u] \in Waiting, count'[call'[u].lock][u] > 0
        PROVE  call'[u].mode = "rd" /\ call'[u].lock \in rdlock'
    <3> DEFINE l == call[u].lock
    <3>1. u # t /\ pc[u] \in Waiting
      BY <1>5, <2>1 DEF Waiting
    <3>2. call'[u] = call[u] /\ l \in Locks
      BY <3>1 DEF Inv, StillAdmitted, Calls
    <3>3. count'[l][u] > 0 /\ count[l][u] > 0
      BY <2>1, <3>1, <3>2
    <3>4. call[u].mode = "rd" /\ l \in rdlock
      BY <3>1, <3>3 DEF Inv, WaitsForOthers
    <3>5. l \notin S
      BY <1>2, <1>6, <3>2, <3>3, EmptyList
    <3> QED BY <1>1, <3>2, <3>4, <3>5
  <2> QED BY <2>1 DEF WaitsForOthers
<1> QED BY <1>7, <1>8, <1>10, <1>12, <1>13, <1>14, <1>15 DEF Inv

\* What pthread_rwlock_unlock preserves.
LEMMA UnlockKeeps ==
  ASSUME Inv, NEW t \in Threads, pc[t] \in {"user", "cleanup"}, NEW l \in Locks,
         UnlockInner(t, l) \/ UnlockLast(t, l),
         UNCHANGED <<exists, call, continueLoop, cancelled, clockVars, nested>>
  PROVE  Inv'
<1>0. /\ locking \in [Locks -> Seq(Threads)] /\ count \in [Locks -> [Threads -> Nat]]
      /\ inRwlock \in [Threads -> Int] /\ entries \in [Threads -> Nat]
  BY DEF Inv, TypeOK
<1>1. CASE UnlockInner(t, l)
  <2>1. /\ count[l][t] > 1 /\ count' = [count EXCEPT ![l][t] = @ - 1]
        /\ UNCHANGED <<locking, rdlock, wrlock, inRwlock, blocked, pc>>
    BY <1>1 DEF UnlockInner
  <2>2. \A x \in Locks : \A u \in Threads : count'[x][u] > 0 <=> count[x][u] > 0
    BY <1>0, <2>1
  <2>3. count' \in [Locks -> [Threads -> Nat]]
    BY <1>0, <2>1
  <2>4. TypeOK'
    BY <2>1, <2>3 DEF Inv, TypeOK, clockVars
  <2>5. FlagsMatchHolders'
    <3>1. \A x \in Locks : On(locking[x]) = {u \in Threads : count'[x][u] > 0}
      BY <2>2 DEF Inv, FlagsMatchHolders
    <3> QED BY <2>1, <3>1 DEF Inv, FlagsMatchHolders
  <2>6. \A u \in Threads : HeldBy(u)' = HeldBy(u)
    BY <2>2 DEF HeldBy
  <2>7. NumberCoversHoldings' /\ SignsMatchModes'
    BY <2>1, <2>6 DEF Inv, NumberCoversHoldings, SignsMatchModes
  <2>8. ListsMatchPoints' /\ NoSleeperOnFreeLock' /\ StillAdmitted'
    BY <2>1 DEF Inv, ListsMatchPoints, NoSleeperOnFreeLock, StillAdmitted
  <2>9. WaitsForOthers'
    <3>1. \A u \in Threads : pc[u] \in Waiting => call[u].lock \in Locks
      BY DEF Inv, StillAdmitted, Calls
    <3> QED BY <2>1, <2>2, <3>1 DEF Inv, WaitsForOthers
  <2> QED BY <2>4, <2>5, <2>7, <2>8, <2>9 DEF Inv
<1>2. CASE UnlockLast(t, l)
  <2>1. /\ count[l][t] = 1 /\ count' = [count EXCEPT ![l][t] = 0]
        /\ locking' = [locking EXCEPT ![l] = Without(@, t)]
        /\ Emptied({x \in {l} : locking'[x] = <<>>}, pc[t], t)
        /\ inRwlock' = [inRwlock EXCEPT ![t] = IF @ > 0 THEN @ - 1 ELSE @ + 1]
    BY <1>2 DEF UnlockLast
  <2>2. locking' = [x \in Locks |-> IF x \in {l} THEN Without(locking[x], t)
                                                 ELSE locking[x]]
    BY <1>0, <2>1
  <2>3. /\ count' \in [Locks -> [Threads -> Nat]]
        /\ \A x \in Locks : \A u \in Threads :
             count'[x][u] = IF x \in {l} /\ u = t THEN 0 ELSE count[x][u]
    BY <1>0, <2>1
  <2>4. /\ inRwlock' \in [Threads -> Int] /\ entries' \in [Threads -> Nat]
        /\ \A u \in Threads : u # t => inRwlock'[u] = inRwlock[u]
        /\ inRwlock'[t] = IF inRwlock[t] > 0 THEN inRwlock[t] - 1 ELSE inRwlock[t] + 1
    BY <1>0, <2>1 DEF clockVars
  <2>5. HeldBy(t)' = HeldBy(t) \ {l} /\ l \in HeldBy(t)
    BY <2>1, <2>3 DEF HeldBy
  <2>6. /\ inRwlock[t] \in Int
        /\ IsFiniteSet(HeldBy(t)) /\ Cardinality(HeldBy(t)) \in Nat
        /\ Cardinality(HeldBy(t)) <= Size(inRwlock[t])
        /\ t \notin nested => Cardinality(HeldBy(t)) = Size(inRwlock[t])
    BY ThreadFacts
  <2>7. /\ IsFiniteSet(HeldBy(t)')
        /\ Cardinality(HeldBy(t)') = Cardinality(HeldBy(t)) - 1
        /\ Cardinality(HeldBy(t)') \in Nat
    <3>1. /\ IsFiniteSet(HeldBy(t) \ {l})
          /\ Cardinality(HeldBy(t) \ {l}) =
               IF l \in HeldBy(t) THEN Cardinality(HeldBy(t)) - 1 ELSE Cardinality(HeldBy(t))
      BY ONLY <2>6, FS_RemoveElement
    <3>2. Cardinality(HeldBy(t) \ {l}) \in Nat
      BY <3>1, FS_CardinalityType
    <3> QED BY ONLY <2>5, <3>1, <3>2
  <2>8. inRwlock[t] # 0
    <3>1. IF l \in wrlock THEN inRwlock[t] > 0 ELSE inRwlock[t] < 0
      BY <2>5 DEF Inv, SignsMatchModes
    <3> QED BY <2>6, <3>1
  <2>9. Size(inRwlock'[t]) = Size(inRwlock[t]) - 1
    BY ONLY <2>4, <2>6, <2>8 DEF Size
  <2>10. /\ Cardinality(HeldBy(t)') <= Size(inRwlock'[t])
         /\ t \notin nested => Cardinality(HeldBy(t)') = Size(inRwlock'[t])
    <3>1. Size(inRwlock[t]) \in Nat
      BY ONLY <2>6 DEF Size
    <3> QED BY ONLY <2>6, <2>7, <2>9, <3>1
  <2>11. \A x \in HeldBy(t)' : IF x \in wrlock THEN inRwlock'[t] > 0
                                               ELSE inRwlock'[t] < 0
    <3>1. ASSUME NEW x \in HeldBy(t)'
          PROVE  IF x \in wrlock THEN inRwlock'[t] > 0 ELSE inRwlock'[t] < 0
      <4>1. IF x \in wrlock THEN inRwlock[t] > 0 ELSE inRwlock[t] < 0
        BY <2>5 DEF Inv, SignsMatchModes
      <4>2. Cardinality(HeldBy(t)') # 0
        BY <2>7, FS_EmptySet
      <4>3. inRwlock'[t] # 0
        <5>1. Size(inRwlock'[t]) # 0
          BY ONLY <2>4, <2>6, <2>7, <2>9, <2>10, <4>2 DEF Size
        <5> QED BY <5>1 DEF Size
      <4> QED BY <2>4, <2>6, <4>1, <4>3
    <3> QED BY <3>1
  <2>12. /\ \A x \in {l} : count[x][t] > 0
         /\ UNCHANGED <<exists, call, continueLoop, cancelled, expired, nested>>
         /\ {l} \in SUBSET Locks /\ pc[t] \in {"user", "cleanup", "done"}
    BY <2>1 DEF clockVars
  <2> DEFINE G == {l}
  <2> HIDE DEF G
  <2>13. /\ G \in SUBSET Locks /\ \A x \in G : count[x][t] > 0
         /\ locking' = [x \in Locks |-> IF x \in G THEN Without(locking[x], t)
                                                   ELSE locking[x]]
         /\ \A x \in Locks : \A u \in Threads :
              count'[x][u] = IF x \in G /\ u = t THEN 0 ELSE count[x][u]
         /\ Emptied({x \in G : locking'[x] = <<>>}, pc[t], t)
    BY <2>1, <2>2, <2>3, <2>12 DEF G
  <2> QED BY <2>3, <2>4, <2>7, <2>10, <2>11, <2>12, <2>13, ReleaseKeeps
<1> QED BY <1>1, <1>2

\* What the end of a thread preserves: it gives up every lock at once.
LEMMA ExitKeeps ==
  ASSUME Inv, NEW t \in Threads, Exit(t)
  PROVE  Inv'
<1> DEFINE G == HeldBy(t)
<1>0. /\ locking \in [Locks -> Seq(Threads)] /\ count \in [Locks -> [Threads -> Nat]]
      /\ inRwlock \in [Threads -> Int] /\ entries \in [Threads -> Nat]
  BY DEF Inv, TypeOK
<1>1. /\ pc[t] = "cleanup"
      /\ count' = [x \in Locks |-> [count[x] EXCEPT ![t] = 0]]
      /\ locking' = [x \in Locks |-> Without(locking[x], t)]
      /\ Emptied({x \in G : locking'[x] = <<>>}, "done", t)
      /\ inRwlock' = [inRwlock EXCEPT ![t] = 0]
      /\ entries' = [entries EXCEPT ![t] = 0]
      /\ UNCHANGED <<exists, call, continueLoop, cancelled, expired, nested>>
  BY DEF Exit
<1>2. G \in SUBSET Locks /\ \A x \in Locks : x \in G <=> count[x][t] > 0
  BY DEF HeldBy
<1>3. locking' = [x \in Locks |-> IF x \in G THEN Without(locking[x], t)
                                             ELSE locking[x]]
  <2>1. ASSUME NEW x \in Locks, x \notin G PROVE Without(locking[x], t) = locking[x]
    <3>1. t \notin On(locking[x])
      BY <1>2, <2>1, LockFacts
    <3> QED BY <3>1 DEF Without
  <2> QED BY <1>1, <2>1
<1>4. count' \in [Locks -> [Threads -> Nat]]
  BY <1>0, <1>1
<1>5. \A x \in Locks : \A u \in Threads :
        count'[x][u] = IF x \in G /\ u = t THEN 0 ELSE count[x][u]
  <2>1. \A x \in Locks : count[x][t] \in Nat
    BY <1>0
  <2>2. \A x \in Locks : x \notin G => count[x][t] = 0
    BY <1>2, <2>1
  <2> QED BY <1>0, <1>1, <2>2
<1>6. /\ inRwlock' \in [Threads -> Int] /\ entries' \in [Threads -> Nat]
      /\ \A u \in Threads : u # t => inRwlock'[u] = inRwlock[u]
      /\ inRwlock'[t] = 0
  BY <1>0, <1>1
<1>7. HeldBy(t)' = {}
  BY <1>0, <1>1 DEF HeldBy
<1>8. /\ IsFiniteSet(HeldBy(t)') /\ Cardinality(HeldBy(t)') = 0
      /\ Size(inRwlock'[t]) = 0
  BY <1>6, <1>7, FS_EmptySet DEF Size
<1>9. \A x \in G : count[x][t] > 0
  BY <1>2
<1>10. \A x \in HeldBy(t)' : IF x \in wrlock THEN inRwlock'[t] > 0 ELSE inRwlock'[t] < 0
  BY <1>7
<1>11. pc[t] \in {"user", "cleanup"} /\ "done" \in {"user", "cleanup", "done"}
  BY <1>1
<1> HIDE DEF G
<1>12. /\ Cardinality(HeldBy(t)') <= Size(inRwlock'[t])
       /\ t \notin nested => Cardinality(HeldBy(t)') = Size(inRwlock'[t])
  BY <1>8
<1> QED BY <1>1, <1>2, <1>3, <1>4, <1>5, <1>6, <1>8, <1>9, <1>10, <1>11, <1>12,
           ReleaseKeeps

\* What UC_thread_class::unblock of a thread preserves, wherever it sleeps.
LEMMA UnblockKeeps ==
  ASSUME Inv, NEW u \in Threads, Unblock(u),
         cancelled' \in SUBSET Threads, expired' \in SUBSET Threads,
         entries' \in [Threads -> Nat]
  PROVE  Inv'
<1>1. /\ blocked' = [l \in Locks |-> Without(blocked[l], u)]
      /\ pc' = Woken({u})
      /\ UNCHANGED lockVars /\ UNCHANGED <<exists, call, continueLoop>>
  BY DEF Unblock
<1>2. pc \in [Threads -> Points] /\ blocked \in [Locks -> Seq(Threads)]
  BY DEF Inv, TypeOK
<1>3. \A t \in Threads : pc'[t] = IF t = u THEN WokenAt(pc[t]) ELSE pc[t]
  BY <1>1 DEF Woken
<1>4. \A t \in Threads : pc'[t] \in Waiting <=> pc[t] \in Waiting
  BY <1>3 DEF WokenAt, Waiting
<1>5. ASSUME NEW l \in Locks
      PROVE  /\ blocked'[l] \in Seq(Threads)
             /\ On(blocked'[l]) = {t \in Threads : pc'[t] = "blocked" /\ call'[t].lock = l}
             /\ NoRepeat(blocked'[l])
             /\ locking'[l] = <<>> => blocked'[l] = <<>>
  <2>1. /\ blocked[l] \in Seq(Threads)
        /\ On(blocked[l]) \subseteq Threads /\ NoRepeat(blocked[l])
        /\ \A t \in Threads :
             t \in On(blocked[l]) <=> pc[t] = "blocked" /\ call[t].lock = l
        /\ locking[l] = <<>> => blocked[l] = <<>>
    BY LockFacts
  <2>2. blocked'[l] = Without(blocked[l], u)
    BY <1>1
  <2>3. /\ Without(blocked[l], u) \in Seq(Threads)
        /\ On(Without(blocked[l], u)) = On(blocked[l]) \ {u}
        /\ NoRepeat(Without(blocked[l], u))
    BY ONLY <2>1, WithoutErases, u \in Threads
  <2>4. \A t \in Threads :
          t \in On(blocked'[l]) <=> pc'[t] = "blocked" /\ call'[t].lock = l
    BY <1>1, <1>3, <2>1, <2>2, <2>3 DEF WokenAt
  <2>5. locking'[l] = <<>> => blocked'[l] = <<>>
    BY <1>1, <2>1, <2>2, EmptyList DEF lockVars, Without
  <2> QED BY <2>1, <2>2, <2>3, <2>4, <2>5
<1>6. TypeOK'
  <2>1. blocked' \in [Locks -> Seq(Threads)]
    BY <1>1, <1>5
  <2>2. pc' \in [Threads -> Points]
    <3>1. \A t \in Threads : pc'[t] \in Points
      BY <1>2, <1>3 DEF WokenAt, Points
    <3> QED BY <1>1, <3>1 DEF Woken
  <2>3. \A t \in Threads : pc'[t] \in Waiting => call'[t] # NoCall
    BY <1>1, <1>4 DEF Inv, TypeOK
  <2> QED BY <1>1, <2>1, <2>2, <2>3 DEF Inv, TypeOK, lockVars
<1>7. FlagsMatchHolders' /\ NumberCoversHoldings' /\ SignsMatchModes'
  BY <1>1, SameLocksKeep
<1>8. ListsMatchPoints' /\ NoSleeperOnFreeLock'
  BY <1>5 DEF ListsMatchPoints, NoSleeperOnFreeLock
<1>9. StillAdmitted' /\ WaitsForOthers'
  BY <1>1, <1>4 DEF Inv, StillAdmitted, WaitsForOthers, lockVars
<1> QED BY <1>6, <1>7, <1>8, <1>9 DEF Inv

\* A return from the start routine leaves the locks as they are.
LEMMA FinishKeeps ==
  ASSUME Inv, NEW t \in Threads, Finish(t) PROVE Inv'
<1>1. /\ pc[t] = "user" /\ pc' = [pc EXCEPT ![t] = "done"]
      /\ entries' = [entries EXCEPT ![t] = 0]
      /\ UNCHANGED <<lockVars, exists, blocked, call, continueLoop, cancelled, expired>>
  BY DEF Finish, InUser
<1>2. pc \in [Threads -> Points] /\ entries \in [Threads -> Nat]
  BY DEF Inv, TypeOK
<1>3. /\ \A u \in Threads : u # t => pc'[u] = pc[u] /\ call'[u] = call[u]
      /\ pc'[t] = "done"
  BY <1>1, <1>2
<1>4. TypeOK'
  <2>1. pc' \in [Threads -> Points] /\ entries' \in [Threads -> Nat]
    BY <1>1, <1>2 DEF Points
  <2>2. \A u \in Threads : pc'[u] \in Waiting => call'[u] # NoCall
    BY <1>1, <1>3 DEF Inv, TypeOK, Waiting
  <2> QED BY <1>1, <2>1, <2>2 DEF Inv, TypeOK, lockVars
<1>5. FlagsMatchHolders' /\ NumberCoversHoldings' /\ SignsMatchModes'
  BY <1>1, SameLocksKeep
<1>6. ListsMatchPoints' /\ NoSleeperOnFreeLock'
  BY <1>1, <1>3, MoveKeepsLists DEF Inv, NoSleeperOnFreeLock, lockVars
<1>7. StillAdmitted' /\ WaitsForOthers'
  BY <1>1, <1>3 DEF Inv, StillAdmitted, WaitsForOthers, Waiting, lockVars
<1> QED BY <1>4, <1>5, <1>6, <1>7 DEF Inv

\* A thread that leaves its call, or its user code, without a lock more or less.
LEMMA LeaveKeeps ==
  ASSUME Inv, NEW t \in Threads, pc[t] \in {"user", "woken", "timedWoken"},
         NEW point \in {"user", "cleanup"},
         pc' = [pc EXCEPT ![t] = point], call' = [call EXCEPT ![t] = NoCall],
         continueLoop' = continueLoop \ {t}, cancelled' \in SUBSET Threads,
         UNCHANGED <<lockVars, exists, blocked, clockVars>>
  PROVE  Inv'
<1>1. pc \in [Threads -> Points] /\ call \in [Threads -> Calls \cup {NoCall}]
  BY DEF Inv, TypeOK
<1>2. /\ \A u \in Threads : u # t => pc'[u] = pc[u] /\ call'[u] = call[u]
      /\ pc'[t] = point
  BY <1>1
<1>3. TypeOK'
  <2>1. pc' \in [Threads -> Points] /\ call' \in [Threads -> Calls \cup {NoCall}]
    BY <1>1 DEF Points
  <2>2. \A u \in Threads : pc'[u] \in Waiting => call'[u] # NoCall
    BY <1>2 DEF Inv, TypeOK, Waiting
  <2>3. continueLoop' \in SUBSET Threads
    BY DEF Inv, TypeOK
  <2> QED BY <2>1, <2>2, <2>3 DEF Inv, TypeOK, lockVars, clockVars
<1>4. FlagsMatchHolders' /\ NumberCoversHoldings' /\ SignsMatchModes'
  BY SameLocksKeep
<1>5. ListsMatchPoints' /\ NoSleeperOnFreeLock'
  BY <1>2, MoveKeepsLists DEF Inv, NoSleeperOnFreeLock, lockVars
<1>6. StillAdmitted' /\ WaitsForOthers'
  BY <1>2 DEF Inv, StillAdmitted, WaitsForOthers, Waiting, lockVars
<1> QED BY <1>3, <1>4, <1>5, <1>6 DEF Inv

----------------------------------------------------------------------------
\* The invariant holds of new locks with all threads in user code.
LEMMA InitInv == Init => Inv
<1> SUFFICES ASSUME Init PROVE Inv
  OBVIOUS
<1> USE DEF Init
<1>1. TypeOK
  BY DEF TypeOK, Points, Waiting
<1>2. FlagsMatchHolders /\ ListsMatchPoints /\ NoSleeperOnFreeLock
  BY EmptyList DEF FlagsMatchHolders, ListsMatchPoints, NoSleeperOnFreeLock
<1>3. NumberCoversHoldings
  <2>1. Size(0) = 0
    BY ONLY DEF Size
  <2>2. \A t \in Threads : HeldBy(t) = {} /\ Size(inRwlock[t]) = 0
    BY <2>1 DEF HeldBy
  <2> QED BY ONLY <2>2, FS_EmptySet DEF NumberCoversHoldings
<1>4. SignsMatchModes /\ StillAdmitted /\ WaitsForOthers
  BY DEF SignsMatchModes, HeldBy, StillAdmitted, WaitsForOthers, Waiting
<1> QED BY <1>1, <1>2, <1>3, <1>4 DEF Inv

\* One turn of the loops, of the plain calls and of the timed ones.
LEMMA TurnKeeps ==
  ASSUME Inv, NEW t \in Threads, NEW c \in Calls,
         \/ Turn(t, c) /\ pc[t] \in {"user", "woken"}
         \/ (TimedTurn(t, c) \/ LateTurn(t, c)) /\ pc[t] \in {"user", "timedWoken"},
         IF c.mode = "rd" THEN inRwlock[t] <= 0 ELSE inRwlock[t] >= 0
  PROVE  Inv'
<1>1. CASE Turn(t, c) /\ pc[t] \in {"user", "woken"}
  BY <1>1, TakeTurnKeeps, BlockTurnKeeps DEF Turn
<1>2. CASE TimedTurn(t, c) /\ pc[t] \in {"user", "timedWoken"}
  BY <1>2, TakeTurnKeeps, SleepOrSpinKeeps DEF TimedTurn, clockVars
<1>3. CASE LateTurn(t, c) /\ pc[t] \in {"user", "timedWoken"}
  <2>1. entries' \in [Threads -> Nat]
    BY <1>3 DEF LateTurn, clockVars, Inv, TypeOK
  <2> QED BY <1>3, <2>1, BackToLoopKeeps DEF LateTurn, clockVars
<1> QED BY <1>1, <1>2, <1>3

\* Every step keeps the invariant.
LEMMA StepInv == Inv /\ [Next]_vars => Inv'
<1> SUFFICES ASSUME Inv, [Next]_vars PROVE Inv'
  OBVIOUS
<1>a. /\ cancelled \in SUBSET Threads /\ expired \in SUBSET Threads
      /\ entries \in [Threads -> Nat]
  BY DEF Inv, TypeOK
<1>0. CASE UNCHANGED vars
  <2>1. UNCHANGED lockVars
    BY <1>0 DEF vars
  <2>2. FlagsMatchHolders' /\ NumberCoversHoldings' /\ SignsMatchModes'
    BY <2>1, SameLocksKeep
  <2>3. TypeOK'
    BY <1>0 DEF vars, lockVars, clockVars, Inv, TypeOK
  <2>4. /\ ListsMatchPoints' /\ NoSleeperOnFreeLock' /\ StillAdmitted'
        /\ WaitsForOthers'
    BY <1>0 DEF vars, lockVars, clockVars, Inv, ListsMatchPoints,
                NoSleeperOnFreeLock, StillAdmitted, WaitsForOthers
  <2> QED BY <2>2, <2>3, <2>4 DEF Inv
<1>1. ASSUME NEW t \in Threads, Lock(t) PROVE Inv'
  BY <1>1, TurnKeeps DEF Lock, InUser, Admitted
<1>2. ASSUME NEW t \in Threads, LockAgain(t) PROVE Inv'
  BY <1>2, TurnKeeps DEF LockAgain, Inv, StillAdmitted, Waiting
<1>3. ASSUME NEW t \in Threads, TryWrlock(t) PROVE Inv'
  <2>1. PICK l \in exists : TakeTurn(t, [lock |-> l, mode |-> "wr"])
    BY <1>3 DEF TryWrlock
  <2>2. l \in Locks
    BY DEF Inv, TypeOK
  <2> DEFINE c == [lock |-> l, mode |-> "wr"]
  <2>3. c \in Calls /\ c.mode = "wr"
    BY <2>2 DEF Calls, Modes
  <2> HIDE DEF c
  <2>4. TakeTurn(t, c)
    BY <2>1 DEF c
  <2>5. /\ pc[t] = "user" /\ inRwlock[t] >= 0
        /\ UNCHANGED <<exists, cancelled, clockVars>>
    BY <1>3 DEF TryWrlock, InUser
  <2> QED BY <2>3, <2>4, <2>5, TakeTurnKeeps
<1>4. ASSUME NEW t \in Threads, TimedLock(t) PROVE Inv'
  BY <1>4, TurnKeeps DEF TimedLock, InUser, Admitted
<1>5. ASSUME NEW t \in Threads, TimedOut(t) PROVE Inv'
  BY <1>5, <1>a, LeaveKeeps DEF TimedOut, Return
<1>6. ASSUME NEW t \in Threads, TimedAgain(t) PROVE Inv'
  BY <1>6, TurnKeeps DEF TimedAgain, Inv, StillAdmitted, Waiting
<1>7. ASSUME NEW t \in Threads, Unlock(t) PROVE Inv'
  <2>1. PICK l \in exists : UnlockInner(t, l) \/ UnlockLast(t, l)
    BY <1>7 DEF Unlock
  <2>2. l \in Locks /\ pc[t] \in {"user", "cleanup"}
    BY <1>7 DEF Inv, TypeOK, Unlock, MayCall, InUser
  <2> QED BY <1>7, <2>1, <2>2, UnlockKeeps DEF Unlock
<1>8. ASSUME NEW t \in Threads, Destroy(t) PROVE Inv'
  <2>1. /\ UNCHANGED lockVars /\ exists' \subseteq exists
        /\ UNCHANGED <<blocked, pc, call, continueLoop, cancelled, clockVars>>
    BY <1>8 DEF Destroy
  <2>2. FlagsMatchHolders' /\ NumberCoversHoldings' /\ SignsMatchModes'
    BY <2>1, SameLocksKeep
  <2>3. TypeOK'
    BY <2>1 DEF lockVars, clockVars, Inv, TypeOK
  <2>4. /\ ListsMatchPoints' /\ NoSleeperOnFreeLock' /\ StillAdmitted'
        /\ WaitsForOthers'
    BY <2>1 DEF lockVars, Inv, ListsMatchPoints,
                NoSleeperOnFreeLock, StillAdmitted, WaitsForOthers
  <2> QED BY <2>2, <2>3, <2>4 DEF Inv
<1>9. ASSUME NEW t \in Threads, BeginExit(t) PROVE Inv'
  BY <1>9, <1>a, LeaveKeeps DEF BeginExit
<1>10. ASSUME NEW t \in Threads, Exit(t) PROVE Inv'
  BY <1>10, ExitKeeps
<1>11. ASSUME NEW u \in Threads, SignalDelivered(u) PROVE Inv'
  BY <1>11, <1>a, UnblockKeeps DEF SignalDelivered, clockVars
<1>12. ASSUME NEW u \in Threads, EntryDue(u) PROVE Inv'
  <2>1. entries' \in [Threads -> Nat]
    BY <1>12, <1>a DEF EntryDue
  <2> QED BY <1>12, <1>a, <2>1, UnblockKeeps DEF EntryDue
<1>13. ASSUME NEW t \in Threads, NEW u \in Threads, Cancel(t, u) PROVE Inv'
  BY <1>13, <1>a, UnblockKeeps DEF Cancel, clockVars
<1>14. ASSUME NEW t \in Threads, Finish(t) PROVE Inv'
  BY <1>14, FinishKeeps
<1> QED
  BY <1>0, <1>1, <1>2, <1>3, <1>4, <1>5, <1>6, <1>7, <1>8, <1>9, <1>10, <1>11,
     <1>12, <1>13, <1>14 DEF Next, ThreadStep

\* The inductive invariant holds of every behaviour.
THEOREM Invariance == SafeSpec => []Inv
BY InitInv, StepInv, PTL DEF SafeSpec

\* Every variable keeps its domain.
THEOREM TypeCorrect == SafeSpec => []TypeOK
<1>1. Inv => TypeOK
  BY DEF Inv
<1> QED BY <1>1, Invariance, PTL

\* Readers together or one writer alone: the flags of a lock and its list of
\* holders agree with what the callers were told, through recursive locks,
\* interrupted waits, holders that end by pthread_exit, which releases what they
\* hold, and holders that return, which keep it for ever.
THEOREM ReadersOrOneWriter == SafeSpec => []FlagsMatchHolders
<1>1. Inv => FlagsMatchHolders
  BY DEF Inv
<1> QED BY <1>1, Invariance, PTL

\* The last unlock, and the exit of a holder, leave nobody asleep on a lock that
\* is free.
THEOREM NoSleeperForgotten == SafeSpec => []NoSleeperOnFreeLock
<1>1. Inv => NoSleeperOnFreeLock
  BY DEF Inv
<1> QED BY <1>1, Invariance, PTL

\* The lists hold exactly the blocked threads, once each.
THEOREM ListsAreExact == SafeSpec => []ListsMatchPoints
<1>1. Inv => ListsMatchPoints
  BY DEF Inv
<1> QED BY <1>1, Invariance, PTL

\* m_in_rwlock tells what a thread holds: it is exact until the first lock of
\* what is held already.
THEOREM NumberIsRight == SafeSpec => []NumberMatchesHoldings
<1>1. Inv => NumberMatchesHoldings
  <2> SUFFICES ASSUME Inv, NEW t \in Threads, HeldBy(t) = {}, inRwlock[t] # 0
               PROVE  t \in nested
    BY DEF Inv, SignsMatchModes, NumberMatchesHoldings
  <2>1. inRwlock[t] \in Int
    BY ThreadFacts
  <2>2. Cardinality(HeldBy(t)) = 0
    BY FS_EmptySet
  <2>3. Size(inRwlock[t]) # 0
    BY <2>1 DEF Size
  <2> QED BY <2>2, <2>3, ThreadFacts
<1> QED BY <1>1, Invariance, PTL

\* Nobody but a reader that locks again what it holds waits for itself.
THEOREM WaitingForOthers == SafeSpec => []WaitsForOthers
<1>1. Inv => WaitsForOthers
  BY DEF Inv
<1> QED BY <1>1, Invariance, PTL

----------------------------------------------------------------------------
\* Without signals a timed wait is woken for its timeout or for the thread's
\* end only, and both are tested before the loop goes round: continue_loop is
\* never read again once it is set.  Whoever spins does so at the first turn,
\* over a lock that stays taken, as nothing moves any more.
OnlyClockWakes ==
  "signal" \notin Disturbances =>
    \A t \in Threads :
      /\ pc[t] = "spin" => ~MayTake(t, call[t])
      /\ pc[t] = "timedWoken" => t \in expired \cup cancelled
      /\ t \in continueLoop => pc[t] \in {"timed", "timedWoken", "spin"}

\* A step in which t alone moves by itself, and others are at most woken from a
\* lock's list.
LEMMA OthersSleepOn ==
  ASSUME Inv, OnlyClockWakes, Running, NEW t \in Threads,
         \A u \in Threads \ {t} :
           \/ pc'[u] = pc[u]
           \/ pc[u] = "blocked" /\ pc'[u] = "woken" /\ u \notin continueLoop,
         expired' = expired, cancelled \subseteq cancelled',
         continueLoop' \subseteq continueLoop \cup {t},
         "signal" \notin Disturbances =>
           /\ pc'[t] = "spin" => ~MayTake(t, call[t])'
           /\ pc'[t] # "timedWoken"
           /\ t \in continueLoop' => pc'[t] \in {"timed", "spin"}
  PROVE  OnlyClockWakes'
<1> SUFFICES ASSUME "signal" \notin Disturbances, NEW u \in Threads
             PROVE  /\ pc'[u] = "spin" => ~MayTake(u, call[u])'
                    /\ pc'[u] = "timedWoken" => u \in expired' \cup cancelled'
                    /\ u \in continueLoop' => pc'[u] \in {"timed", "timedWoken", "spin"}
  BY DEF OnlyClockWakes
<1>1. CASE u = t
  BY <1>1
<1>2. CASE u # t
  BY <1>2 DEF OnlyClockWakes, Running
<1> QED BY <1>1, <1>2

\* UC_thread_class::unblock of a thread whose time or life is over.
LEMMA WokenForGood ==
  ASSUME Inv, OnlyClockWakes, NEW u \in Threads, Unblock(u),
         u \in expired' \cup cancelled',
         expired \subseteq expired', cancelled \subseteq cancelled'
  PROVE  OnlyClockWakes'
<1>1. pc \in [Threads -> Points] /\ Running /\ continueLoop' = continueLoop
  BY DEF Inv, TypeOK, Unblock
<1>2. \A t \in Threads : pc'[t] = IF t = u THEN WokenAt(pc[t]) ELSE pc[t]
  BY <1>1 DEF Unblock, Woken
<1>3. \A t \in Threads : pc'[t] # "spin"
  BY <1>1, <1>2 DEF Running, WokenAt
<1> QED BY <1>1, <1>2, <1>3 DEF OnlyClockWakes, WokenAt

\* The timed wait's turns, and the release of locks, under that condition.
LEMMA StepClock == Inv /\ OnlyClockWakes /\ [Next]_vars => OnlyClockWakes'
<1> SUFFICES ASSUME Inv, OnlyClockWakes, [Next]_vars PROVE OnlyClockWakes'
  OBVIOUS
<1>a. pc \in [Threads -> Points] /\ call \in [Threads -> Calls \cup {NoCall}]
      /\ exists \subseteq Locks
  BY DEF Inv, TypeOK
<1>b. ASSUME Running, "signal" \notin Disturbances, NEW t \in Threads, t \in continueLoop
      PROVE  pc[t] \in {"timed", "timedWoken"}
  BY <1>b DEF OnlyClockWakes, Running
<1>0. CASE UNCHANGED vars
  BY <1>0 DEF vars, lockVars, clockVars, OnlyClockWakes, MayTake, MayRead, MayWrite,
              Outranked, First
<1>1. ASSUME NEW t \in Threads, NEW c, TakeTurn(t, c) \/ BlockTurn(t, c), Running,
             pc[t] \in {"user", "woken"}, UNCHANGED <<cancelled, expired>>
      PROVE  OnlyClockWakes'
  <2>1. /\ \A u \in Threads \ {t} : pc'[u] = pc[u]
        /\ pc'[t] \in {"user", "blocked"} /\ continueLoop' \subseteq continueLoop
    BY <1>1, <1>a DEF TakeTurn, BlockTurn, Return
  <2>2. "signal" \notin Disturbances => t \notin continueLoop'
    BY <2>1, <1>1, <1>b
  <2> QED BY <2>1, <2>2, <1>1, OthersSleepOn
<1>2. ASSUME NEW t \in Threads, Lock(t) \/ LockAgain(t) \/ TryWrlock(t)
      PROVE  OnlyClockWakes'
  BY <1>1, <1>2 DEF Lock, InUser, LockAgain, Turn, TryWrlock, clockVars
<1>3. ASSUME NEW t \in Threads, TimedLock(t) PROVE OnlyClockWakes'
  <2>1. PICK c \in Calls : TimedTurn(t, c) \/ LateTurn(t, c)
    BY <1>3 DEF TimedLock
  <2>2. /\ \A u \in Threads \ {t} : pc'[u] = pc[u]
        /\ continueLoop' \subseteq continueLoop \cup {t}
        /\ UNCHANGED <<cancelled, expired>>
    BY <2>1, <1>a DEF TimedTurn, TakeTurn, SleepTurn, BackToLoop, SpinTurn, LateTurn,
                      Return, clockVars
  <2>3. Running /\ ("signal" \notin Disturbances => t \notin continueLoop)
    BY <1>3, <1>b DEF TimedLock, InUser
  <2>4. CASE TimedTurn(t, c)
    <3>1. "signal" \notin Disturbances =>
            /\ pc'[t] \notin {"spin", "timedWoken"}
            /\ t \in continueLoop' => pc'[t] = "timed"
      BY <2>3, <2>4, <1>a
         DEF TimedTurn, TakeTurn, SleepTurn, BackToLoop, SpinTurn, Return
    <3> QED BY <2>2, <2>3, <3>1, OthersSleepOn
  <2>5. CASE LateTurn(t, c)
    <3>1. /\ pc'[t] = "spin" /\ call'[t] = c /\ ~MayTake(t, c)
          /\ UNCHANGED <<lockVars, blocked>>
      BY <2>5, <1>a DEF LateTurn, BackToLoop
    <3>2. ~MayTake(t, call[t])'
      BY <3>1 DEF MayTake, MayRead, MayWrite, Outranked, First, lockVars
    <3> QED BY <2>2, <2>3, <3>1, <3>2, OthersSleepOn
  <2> QED BY <2>1, <2>4, <2>5
<1>4. ASSUME NEW t \in Threads, TimedAgain(t) PROVE OnlyClockWakes'
  BY <1>4 DEF TimedAgain, OnlyClockWakes
<1>5. ASSUME NEW t \in Threads, TimedOut(t) \/ BeginExit(t) \/ Finish(t)
      PROVE  OnlyClockWakes'
  <2>1. /\ \A u \in Threads \ {t} : pc'[u] = pc[u]
        /\ pc'[t] \in {"user", "cleanup", "done"} /\ continueLoop' \subseteq continueLoop
        /\ expired' = expired /\ cancelled \subseteq cancelled' /\ Running
    BY <1>5, <1>a DEF TimedOut, BeginExit, Finish, InUser, Return, clockVars
  <2>2. "signal" \notin Disturbances => t \notin continueLoop'
    <3>1. CASE TimedOut(t) \/ BeginExit(t)
      BY <3>1 DEF TimedOut, BeginExit, Return
    <3>2. CASE Finish(t)
      BY <3>2, <2>1, <1>b DEF Finish, InUser
    <3> QED BY <1>5, <3>1, <3>2
  <2> QED BY <2>1, <2>2, OthersSleepOn
<1>6. ASSUME NEW S \in SUBSET Locks, NEW p \in {"user", "cleanup", "done"}, NEW t \in Threads,
             pc[t] \in {"user", "cleanup"}, Emptied(S, p, t), Running,
             UNCHANGED <<continueLoop, cancelled, expired>>
      PROVE  OnlyClockWakes'
  <2> DEFINE sleepers == UNION {On(blocked[l]) : l \in S}
  <2>1. \A u \in sleepers : u \in Threads /\ pc[u] = "blocked"
    BY LockFacts
  <2>2. \A u \in Threads \ {t} :
          pc'[u] = IF u \in sleepers THEN WokenAt(pc[u]) ELSE pc[u]
    BY <1>6, <1>a DEF Emptied, Woken
  <2>3. pc'[t] = p
    BY <1>6 DEF Emptied, Woken
  <2> HIDE DEF sleepers
  <2>4. CASE "signal" \in Disturbances
    BY <2>4 DEF OnlyClockWakes
  <2>5. CASE "signal" \notin Disturbances
    <3>1. \A u \in Threads \ {t} :
            \/ pc'[u] = pc[u]
            \/ pc[u] = "blocked" /\ pc'[u] = "woken" /\ u \notin continueLoop
      BY <1>6, <2>1, <2>2, <2>5, <1>b DEF WokenAt
    <3>2. t \notin continueLoop
      BY <1>6, <1>b, <2>5
    <3> QED BY <3>1, <3>2, <2>3, <1>6, OthersSleepOn
  <2> QED BY <2>4, <2>5
<1>7. ASSUME NEW t \in Threads, Unlock(t) PROVE OnlyClockWakes'
  <2>0. Running /\ pc[t] \in {"user", "cleanup"}
    BY <1>7 DEF Unlock, MayCall, InUser
  <2>1. PICK l \in exists : UnlockInner(t, l) \/ UnlockLast(t, l)
    BY <1>7 DEF Unlock
  <2>2. CASE UnlockInner(t, l)
    BY <1>7, <2>0, <2>2 DEF Unlock, UnlockInner, clockVars, OnlyClockWakes, Running
  <2>3. CASE UnlockLast(t, l)
    <3>1. PICK S \in SUBSET Locks : Emptied(S, pc[t], t)
      BY <2>1, <2>3, <1>a DEF UnlockLast
    <3> QED BY <2>0, <3>1, <1>7, <1>6 DEF Unlock, clockVars
  <2> QED BY <2>1, <2>2, <2>3
<1>8. ASSUME NEW t \in Threads, Exit(t) PROVE OnlyClockWakes'
  <2>1. PICK S \in SUBSET Locks : Emptied(S, "done", t)
    BY <1>8 DEF Exit, HeldBy
  <2> QED BY <2>1, <1>8, <1>6 DEF Exit
<1>9. ASSUME NEW t \in Threads, Destroy(t) PROVE OnlyClockWakes'
  <2>1. Running /\ UNCHANGED <<pc, continueLoop, cancelled, expired>>
    BY <1>9 DEF Destroy, MayCall, InUser, clockVars
  <2> QED BY <2>1 DEF OnlyClockWakes, Running
<1>10. ASSUME NEW u \in Threads, SignalDelivered(u) PROVE OnlyClockWakes'
  BY <1>10 DEF SignalDelivered, OnlyClockWakes
<1>11. ASSUME NEW u \in Threads, EntryDue(u) PROVE OnlyClockWakes'
  BY <1>11, WokenForGood DEF EntryDue
<1>12. ASSUME NEW t \in Threads, NEW u \in Threads, Cancel(t, u) PROVE OnlyClockWakes'
  BY <1>12, WokenForGood DEF Cancel, clockVars
<1> QED
  BY <1>0, <1>2, <1>3, <1>4, <1>5, <1>7, <1>8, <1>9, <1>10, <1>11, <1>12
     DEF Next, ThreadStep

\* timedrdlock and timedwrlock turn for ever without a yield over a lock that is
\* taken, with a deadline that does not make them sleep, and only over such a
\* lock: however often the clock wakes a reader, it does not come to the turn
\* that continue_loop never lets it leave; a signal can bring it there.
THEOREM ClockWakesEnd == SafeSpec => []SpinsOnTakenLock
<1>1. Init => OnlyClockWakes
  BY DEF Init, OnlyClockWakes
<1>2. OnlyClockWakes => SpinsOnTakenLock
  BY DEF OnlyClockWakes, SpinsOnTakenLock
<1> QED BY <1>1, <1>2, StepClock, Invariance, PTL DEF SafeSpec

----------------------------------------------------------------------------
\* A thread comes out of the sleep in rdlock or wrlock by taking the lock, or
\* for its end.
LEMMA StepReturns ==
  Inv /\ [Next]_vars =>
    \A t \in Threads :
      pc[t] = "woken" /\ pc'[t] = "user" =>
        /\ count'[call[t].lock][t] > 0
        /\ call[t].lock \in IF call[t].mode = "rd" THEN rdlock' ELSE wrlock'
<1> SUFFICES ASSUME Inv, [Next]_vars, NEW t \in Threads,
                    pc[t] = "woken", pc'[t] = "user"
             PROVE  /\ count'[call[t].lock][t] > 0
                    /\ call[t].lock \in IF call[t].mode = "rd" THEN rdlock' ELSE wrlock'
  OBVIOUS
<1>a. pc \in [Threads -> Points] /\ call[t] \in Calls
  BY DEF Inv, TypeOK, StillAdmitted, Waiting
<1>b. \A S : Woken(S)[t] # "user" /\ t \in DOMAIN Woken(S)
  BY DEF Woken, WokenAt
<1>1. CASE LockAgain(t)
  <2>1. Turn(t, call[t])
    BY <1>1 DEF LockAgain
  <2>2. Record(t, call[t])
    BY <1>a, <2>1 DEF Turn, TakeTurn, BlockTurn
  <2>3. call[t].lock \in Locks /\ call[t].mode \in Modes
    BY <1>a DEF Calls
  <2>4. count[call[t].lock][t] \in Nat
    BY <2>3, ThreadFacts
  <2>5. count'[call[t].lock][t] = count[call[t].lock][t] + 1
    BY <1>a, <2>2, <2>3, RecordWrites
  <2> QED BY <2>2, <2>3, <2>4, <2>5 DEF Record, Modes
<1>2. ASSUME NEW u \in Threads, NEW p, pc' = [pc EXCEPT ![u] = p],
             u # t \/ p # "user"
      PROVE  FALSE
  BY <1>2, <1>a
<1>3. ASSUME NEW S, NEW p, NEW u \in Threads, u # t \/ p # "user",
             pc' = [Woken(S) EXCEPT ![u] = p]
      PROVE  FALSE
  BY <1>3, <1>b
<1>4. ASSUME NEW u \in Threads, Unblock(u) PROVE FALSE
  BY <1>4, <1>b DEF Unblock
<1>5. ASSUME NEW u \in Threads, NEW c, u # t,
             Turn(u, c) \/ TimedTurn(u, c) \/ LateTurn(u, c) \/ TakeTurn(u, c)
      PROVE  FALSE
  BY <1>5, <1>2 DEF Turn, TimedTurn, TakeTurn, BlockTurn, SleepTurn, LateTurn,
                    BackToLoop, SpinTurn, Return
<1>6. ASSUME NEW u \in Threads, Lock(u) \/ TryWrlock(u) \/ TimedLock(u) \/ TimedAgain(u)
      PROVE  FALSE
  BY <1>6, <1>5 DEF Lock, TryWrlock, TimedLock, TimedAgain, InUser
<1>7. ASSUME NEW u \in Threads, LockAgain(u), u # t PROVE FALSE
  BY <1>7, <1>5 DEF LockAgain
<1>8. ASSUME NEW u \in Threads, TimedOut(u) \/ BeginExit(u) \/ Finish(u) PROVE FALSE
  BY <1>8, <1>2 DEF TimedOut, Return, BeginExit, Finish
<1>9. ASSUME NEW u \in Threads, Unlock(u) PROVE FALSE
  <2>1. PICK l \in exists : UnlockInner(u, l) \/ UnlockLast(u, l)
    BY <1>9 DEF Unlock
  <2>2. u # t
    BY <1>9 DEF Unlock, MayCall, InUser
  <2>3. CASE UnlockInner(u, l)
    BY <2>3 DEF UnlockInner
  <2>4. CASE UnlockLast(u, l)
    BY <1>3, <2>2, <2>4 DEF UnlockLast, Emptied
  <2> QED BY <2>1, <2>3, <2>4
<1>10. ASSUME NEW u \in Threads, Exit(u) PROVE FALSE
  BY <1>3, <1>10 DEF Exit, Emptied
<1>11. ASSUME NEW u \in Threads, Destroy(u) PROVE FALSE
  BY <1>11 DEF Destroy
<1>12. CASE UNCHANGED vars
  BY <1>12 DEF vars
<1> QED
  BY <1>1, <1>4, <1>6, <1>7, <1>8, <1>9, <1>10, <1>11, <1>12
     DEF Next, ThreadStep, SignalDelivered, EntryDue, Cancel

\* rdlock and wrlock return to a caller that slept with the lock, in the mode
\* it asked for.
THEOREM SleepersReturnAsHolders == SafeSpec => SleeperReturnsAsHolder
BY Invariance, StepReturns, PTL DEF SafeSpec, SleeperReturnsAsHolder

----------------------------------------------------------------------------
\* What the service sees of a state.
ReadersOf == [l \in Locks |-> IF l \in rdlock THEN On(locking[l]) ELSE {}]
WritersOf == [l \in Locks |-> IF l \in wrlock THEN On(locking[l]) ELSE {}]
AskingOf == [l \in Locks |-> {t \in Threads : pc[t] \in Waiting /\ call[t].lock = l}]

\* A thread that waits asks for the lock of its call; when it stops waiting,
\* nobody else's wishes change.
LEMMA AskingMoves ==
  ASSUME Inv, NEW t \in Threads, NEW l \in Locks, pc[t] \in Waiting => call[t].lock = l,
         \A u \in Threads : u # t => pc'[u] = pc[u] /\ call'[u] = call[u]
  PROVE  /\ pc'[t] \notin Waiting => AskingOf' = [AskingOf EXCEPT ![l] = @ \ {t}]
         /\ pc'[t] \in Waiting /\ call'[t].lock = l =>
              AskingOf' = [AskingOf EXCEPT ![l] = @ \cup {t}]
         /\ pc[t] \notin Waiting /\ pc'[t] \notin Waiting => AskingOf' = AskingOf
         /\ pc[t] \in Waiting /\ pc'[t] \in Waiting /\ call'[t].lock = l =>
              AskingOf' = AskingOf
BY DEF AskingOf

\* A call that gets the lock is a grant of the service, or locks again what the
\* thread holds.
LEMMA TakeTurnRefines ==
  ASSUME Inv, NEW t \in Threads, NEW c \in Calls, TakeTurn(t, c),
         pc[t] \in Waiting => call[t] = c,
         IF c.mode = "rd" THEN inRwlock[t] <= 0 ELSE inRwlock[t] >= 0
  PROVE  [Service!Next]_(Service!svars)
<1> DEFINE l == c.lock
<1>1. l \in Locks /\ c.mode \in Modes
  BY DEF Calls
<1>2. MayTake(t, c) /\ Record(t, c)
  BY DEF TakeTurn
<1>3. /\ \A u \in Threads : u # t => pc'[u] = pc[u] /\ call'[u] = call[u]
      /\ pc'[t] = "user"
  BY DEF TakeTurn, Return, Inv, TypeOK
<1>4. AskingOf' = [AskingOf EXCEPT ![l] = @ \ {t}]
  BY <1>1, <1>3, AskingMoves DEF Waiting
<1>5. /\ locking[l] \in Seq(Threads) /\ NoRepeat(locking[l])
      /\ \A u \in Threads : u \in On(locking[l]) <=> count[l][u] > 0
      /\ locking[l] = <<>> <=> l \notin rdlock \cup wrlock
      /\ l \in wrlock => l \notin rdlock
  BY <1>1, LockFacts
<1>6. count[l][t] \in Nat
  BY <1>1, ThreadFacts
<1>7. /\ \A x \in Locks : x # l => locking'[x] = locking[x]
      /\ locking'[l] = IF count[l][t] = 0 THEN Append(locking[l], t) ELSE locking[l]
      /\ rdlock' = IF c.mode = "rd" THEN rdlock \cup {l} ELSE rdlock
      /\ wrlock' = IF c.mode = "wr" THEN wrlock \cup {l} ELSE wrlock
  BY <1>2, RecordWrites DEF Record
<1>8. On(locking'[l]) = On(locking[l]) \cup {t}
  <2>1. CASE count[l][t] = 0
    <3>1. t \notin On(locking[l])
      BY <1>5, <2>1
    <3>2. On(Append(locking[l], t)) = On(locking[l]) \cup {t}
      BY ONLY <1>5, <3>1, AppendAdds, t \in Threads
    <3> QED BY <1>7, <2>1, <3>2
  <2>2. CASE count[l][t] # 0
    BY <1>5, <1>6, <1>7, <2>2
  <2> QED BY <2>1, <2>2
<1> HIDE DEF l
<1>9. CASE c.mode = "rd"
  <2>1. l \notin wrlock
    BY <1>2, <1>9 DEF MayTake, MayRead, l
  <2>2. l \notin rdlock => On(locking[l]) = {}
    BY <1>5, <2>1, EmptyList
  <2>3. ReadersOf' = [ReadersOf EXCEPT ![l] = @ \cup {t}]
    BY <1>1, <1>7, <1>8, <1>9, <2>2 DEF ReadersOf
  <2>4. WritersOf' = WritersOf /\ WritersOf[l] = {}
    BY <1>1, <1>7, <1>9, <2>1 DEF WritersOf
  <2>5. Service!GrantRead(t, l)
    BY <1>4, <2>3, <2>4
       DEF Service!GrantRead, Service!Answered, ReadersOf, WritersOf, AskingOf
  <2> QED BY <1>1, <2>5 DEF Service!Next
<1>10. CASE c.mode = "wr" /\ locking[l] = <<>>
  <2>1. l \notin rdlock /\ l \notin wrlock /\ On(locking[l]) = {}
    BY <1>5, <1>10, EmptyList
  <2>2. ReadersOf' = ReadersOf /\ ReadersOf[l] = {} /\ WritersOf[l] = {}
    BY <1>1, <1>7, <1>10, <2>1 DEF ReadersOf, WritersOf
  <2>3. WritersOf' = [WritersOf EXCEPT ![l] = {t}]
    BY <1>1, <1>7, <1>8, <1>10, <2>1 DEF WritersOf
  <2>4. Service!GrantWrite(t, l)
    BY <1>4, <2>2, <2>3 DEF Service!GrantWrite, Service!Free, Service!Answered,
                            ReadersOf, WritersOf, AskingOf
  <2> QED BY <1>1, <2>4 DEF Service!Next
<1>11. CASE c.mode = "wr" /\ locking[l] # <<>>
  <2>1. l \notin rdlock /\ count[l][t] > 0 /\ l \in wrlock
    BY <1>1, <1>2, <1>5, <1>11, WriterAlone DEF MayTake, l
  <2>2. pc[t] \notin Waiting
    BY <1>11, <2>1 DEF Inv, WaitsForOthers, l
  <2>3. AskingOf' = AskingOf
    BY <1>1, <1>3, <2>2, AskingMoves DEF Waiting
  <2>4. /\ rdlock' = rdlock /\ wrlock' = wrlock
        /\ \A x \in Locks : locking'[x] = locking[x]
    BY <1>1, <1>6, <1>7, <1>11, <2>1
  <2>5. ReadersOf' = ReadersOf /\ WritersOf' = WritersOf
    BY <2>4 DEF ReadersOf, WritersOf
  <2> QED BY <2>3, <2>5 DEF Service!svars, ReadersOf, WritersOf, AskingOf
<1> QED BY <1>1, <1>9, <1>10, <1>11 DEF Modes

\* A step that leaves the locks alone shows in the wishes only.
LEMMA SameLocksMap ==
  ASSUME UNCHANGED lockVars PROVE ReadersOf' = ReadersOf /\ WritersOf' = WritersOf
BY DEF lockVars, ReadersOf, WritersOf

\* A call that goes to sleep asks for a lock somebody holds; a thread that is
\* turned away again is still asking.
LEMMA SleepRefines ==
  ASSUME Inv, NEW t \in Threads, NEW c \in Calls, ~MayTake(t, c),
         pc[t] \in Waiting => call[t] = c,
         NEW point \in {"blocked", "timed"}, UNCHANGED lockVars,
         pc' = [pc EXCEPT ![t] = point], call' = [call EXCEPT ![t] = c]
  PROVE  [Service!Next]_(Service!svars)
<1> DEFINE l == c.lock
<1>1. l \in Locks
  BY DEF Calls
<1>2. /\ \A u \in Threads : u # t => pc'[u] = pc[u] /\ call'[u] = call[u]
      /\ pc'[t] \in Waiting /\ call'[t].lock = l
  BY DEF Inv, TypeOK, Waiting
<1>3. ReadersOf' = ReadersOf /\ WritersOf' = WritersOf
  BY SameLocksMap
<1>4. AskingOf' = [AskingOf EXCEPT ![l] = @ \cup {t}]
  BY <1>1, <1>2, AskingMoves
<1>5. ~(ReadersOf[l] = {} /\ WritersOf[l] = {})
  <2>1. locking[l] # <<>>
    BY TurnedAway
  <2>2. l \in rdlock \cup wrlock /\ locking[l] \in Seq(Threads)
    BY <1>1, <2>1, LockFacts
  <2>3. On(locking[l]) # {}
    BY <2>1, <2>2, FirstIsOn
  <2> QED BY <1>1, <2>2, <2>3 DEF ReadersOf, WritersOf
<1> HIDE DEF l
<1>6. Service!Ask(t, l)
  BY <1>3, <1>4, <1>5
     DEF Service!Ask, Service!Free, ReadersOf, WritersOf, AskingOf
<1> QED BY <1>1, <1>6 DEF Service!Next

\* A thread that leaves its call without the lock gives up, one in user code
\* was not asking.
LEMMA LeaveRefines ==
  ASSUME Inv, NEW t \in Threads, NEW point \in {"user", "cleanup", "spin", "done"},
         UNCHANGED lockVars, pc' = [pc EXCEPT ![t] = point],
         \A u \in Threads : u # t => call'[u] = call[u]
  PROVE  [Service!Next]_(Service!svars)
<1>1. /\ \A u \in Threads : u # t => pc'[u] = pc[u] /\ call'[u] = call[u]
      /\ pc'[t] \notin Waiting
  BY DEF Inv, TypeOK, Waiting
<1>2. ReadersOf' = ReadersOf /\ WritersOf' = WritersOf
  BY SameLocksMap
<1>3. CASE pc[t] \in Waiting
  <2>1. PICK l \in Locks : call[t].lock = l
    BY <1>3 DEF Inv, StillAdmitted, Calls
  <2>2. AskingOf' = [AskingOf EXCEPT ![l] = @ \ {t}] /\ t \in AskingOf[l]
    <3>1. t \in AskingOf[l]
      BY <1>3, <2>1 DEF AskingOf
    <3> QED BY <1>1, <2>1, <3>1, AskingMoves
  <2>3. Service!GiveUp(t, l)
    BY <1>2, <2>2 DEF Service!GiveUp, Service!Answered, ReadersOf, WritersOf, AskingOf
  <2> QED BY <2>3 DEF Service!Next
<1>4. CASE pc[t] \notin Waiting
  <2>1. AskingOf' = AskingOf
    BY <1>1, <1>4 DEF AskingOf
  <2> QED BY <1>2, <2>1 DEF Service!svars, ReadersOf, WritersOf, AskingOf
<1> QED BY <1>3, <1>4

\* Giving up the locks of G is one release of the service.
LEMMA ReleaseRefines ==
  ASSUME Inv, NEW t \in Threads, pc[t] \in {"user", "cleanup"},
         NEW point \in {"user", "cleanup", "done"}, NEW G \in SUBSET Locks,
         locking' = [x \in Locks |-> IF x \in G THEN Without(locking[x], t)
                                                ELSE locking[x]],
         Emptied({x \in G : locking'[x] = <<>>}, point, t), UNCHANGED call
  PROVE  [Service!Next]_(Service!svars)
<1> DEFINE S == {x \in G : locking'[x] = <<>>}
           U == UNION {On(blocked[x]) : x \in S}
<1>1. /\ rdlock' = rdlock \ S /\ wrlock' = wrlock \ S
      /\ pc' = [Woken(U) EXCEPT ![t] = point]
  BY DEF Emptied
<1>2. \A x \in S : x \in G /\ locking'[x] = <<>>
  OBVIOUS
<1> HIDE DEF S, U
<1>3. AskingOf' = AskingOf
  <2>1. ASSUME NEW u \in Threads PROVE pc'[u] \in Waiting <=> pc[u] \in Waiting
    <3>1. CASE u = t
      BY <1>1, <3>1 DEF Woken, Waiting
    <3>2. CASE u # t
      BY <1>1, <3>2 DEF Woken, WokenAt, Waiting
    <3> QED BY <3>1, <3>2
  <2> QED BY <2>1 DEF AskingOf
<1>4. ASSUME NEW x \in Locks
      PROVE  /\ x \in G => On(locking'[x]) = On(locking[x]) \ {t}
             /\ x \notin G => locking'[x] = locking[x] /\ x \notin S
             /\ x \in S => On(locking'[x]) = {}
  <2>1. locking[x] \in Seq(Threads) /\ NoRepeat(locking[x])
    BY LockFacts
  <2>2. On(Without(locking[x], t)) = On(locking[x]) \ {t}
    BY ONLY <2>1, WithoutErases, t \in Threads
  <2> QED BY <1>2, <2>2, EmptyList
<1>5. /\ ReadersOf' = [x \in Locks |-> IF x \in G THEN ReadersOf[x] \ {t} ELSE ReadersOf[x]]
      /\ WritersOf' = [x \in Locks |-> IF x \in G THEN WritersOf[x] \ {t} ELSE WritersOf[x]]
  BY <1>1, <1>4 DEF ReadersOf, WritersOf
<1>6. Service!Release(t, G)
  BY <1>3, <1>5 DEF Service!Release, ReadersOf, WritersOf, AskingOf
<1> QED BY <1>6 DEF Service!Next

\* A step the service does not see.
LEMMA UnseenStep ==
  ASSUME locking' = locking, rdlock' = rdlock, wrlock' = wrlock, call' = call,
         \A u \in Threads : pc'[u] \in Waiting <=> pc[u] \in Waiting
  PROVE  UNCHANGED Service!svars
BY DEF Service!svars

\* Every step of the locks is a step, or a stutter, of the service.
LEMMA StepRefines == Inv /\ [Next]_vars => [Service!Next]_(Service!svars)
<1> SUFFICES ASSUME Inv, [Next]_vars PROVE [Service!Next]_(Service!svars)
  OBVIOUS
<1>0. CASE UNCHANGED vars
  <2>1. /\ locking' = locking /\ rdlock' = rdlock /\ wrlock' = wrlock /\ call' = call
        /\ pc' = pc
    BY <1>0 DEF vars, lockVars
  <2> QED BY <2>1, UnseenStep
<1>1. ASSUME NEW t \in Threads, NEW c \in Calls, Turn(t, c) \/ TimedTurn(t, c),
             pc[t] \in Waiting => call[t] = c,
             IF c.mode = "rd" THEN inRwlock[t] <= 0 ELSE inRwlock[t] >= 0
      PROVE  [Service!Next]_(Service!svars)
  <2>1. CASE TakeTurn(t, c)
    BY <1>1, <2>1, TakeTurnRefines
  <2>2. CASE BlockTurn(t, c)
    BY <1>1, <2>2, SleepRefines DEF BlockTurn
  <2>3. CASE SleepTurn(t, c)
    BY <1>1, <2>3, SleepRefines DEF SleepTurn, BackToLoop
  <2>4. CASE SpinTurn(t, c)
    BY <2>4, LeaveRefines DEF SpinTurn
  <2> QED BY <1>1, <2>1, <2>2, <2>3, <2>4 DEF Turn, TimedTurn
<1>10. ASSUME NEW t \in Threads, NEW c \in Calls, LateTurn(t, c)
       PROVE  [Service!Next]_(Service!svars)
  <2>1. /\ UNCHANGED lockVars /\ pc' = [pc EXCEPT ![t] = "spin"]
        /\ call' = [call EXCEPT ![t] = c]
    BY <1>10 DEF LateTurn, BackToLoop
  <2>2. \A u \in Threads : u # t => call'[u] = call[u]
    BY <2>1 DEF Inv, TypeOK
  <2> QED BY <2>1, <2>2, LeaveRefines
<1>2. ASSUME NEW t \in Threads, Lock(t) \/ TimedLock(t)
      PROVE  [Service!Next]_(Service!svars)
  BY <1>1, <1>2, <1>10 DEF Lock, TimedLock, InUser, Admitted, Waiting
<1>3. ASSUME NEW t \in Threads, LockAgain(t) \/ TimedAgain(t)
      PROVE  [Service!Next]_(Service!svars)
  BY <1>1, <1>3 DEF LockAgain, TimedAgain, Inv, StillAdmitted, Waiting
<1>4. ASSUME NEW t \in Threads, TryWrlock(t) PROVE [Service!Next]_(Service!svars)
  <2>1. PICK l \in exists : TakeTurn(t, [lock |-> l, mode |-> "wr"])
    BY <1>4 DEF TryWrlock
  <2>2. l \in Locks
    BY DEF Inv, TypeOK
  <2> DEFINE c == [lock |-> l, mode |-> "wr"]
  <2>3. c \in Calls /\ c.mode = "wr"
    BY <2>2 DEF Calls, Modes
  <2> HIDE DEF c
  <2>4. TakeTurn(t, c)
    BY <2>1 DEF c
  <2>5. pc[t] \notin Waiting /\ inRwlock[t] >= 0
    BY <1>4 DEF TryWrlock, InUser, Waiting
  <2> QED BY <2>3, <2>4, <2>5, TakeTurnRefines
<1>5. ASSUME NEW t \in Threads, TimedOut(t) \/ BeginExit(t)
      PROVE  [Service!Next]_(Service!svars)
  <2>1. /\ UNCHANGED lockVars /\ \E p \in {"user", "cleanup"} : pc' = [pc EXCEPT ![t] = p]
        /\ call' = [call EXCEPT ![t] = NoCall]
    BY <1>5 DEF TimedOut, BeginExit, Return
  <2>2. \A u \in Threads : u # t => call'[u] = call[u]
    BY <2>1 DEF Inv, TypeOK
  <2> QED BY <2>1, <2>2, LeaveRefines
<1>11. ASSUME NEW t \in Threads, Finish(t) PROVE [Service!Next]_(Service!svars)
  BY <1>11, LeaveRefines DEF Finish
<1>6. ASSUME NEW t \in Threads, Unlock(t) PROVE [Service!Next]_(Service!svars)
  <2>1. PICK l \in exists : UnlockInner(t, l) \/ UnlockLast(t, l)
    BY <1>6 DEF Unlock
  <2>2. l \in Locks /\ pc[t] \in {"user", "cleanup"} /\ UNCHANGED call
    BY <1>6 DEF Inv, TypeOK, Unlock, MayCall, InUser
  <2>3. CASE UnlockInner(t, l)
    BY <2>2, <2>3, UnseenStep DEF UnlockInner
  <2>4. CASE UnlockLast(t, l)
    <3> DEFINE G == {l}
    <3>1. locking' = [x \in Locks |-> IF x \in G THEN Without(locking[x], t)
                                                 ELSE locking[x]]
      BY <2>2, <2>4 DEF UnlockLast, Inv, TypeOK
    <3>2. Emptied({x \in G : locking'[x] = <<>>}, pc[t], t)
      BY <2>4 DEF UnlockLast
    <3>3. G \in SUBSET Locks /\ pc[t] \in {"user", "cleanup", "done"}
      BY <2>2
    <3> HIDE DEF G
    <3> QED BY <2>2, <3>1, <3>2, <3>3, ReleaseRefines
  <2> QED BY <2>1, <2>3, <2>4
<1>7. ASSUME NEW t \in Threads, Exit(t) PROVE [Service!Next]_(Service!svars)
  <2> DEFINE G == HeldBy(t)
  <2>1. /\ Emptied({x \in G : locking'[x] = <<>>}, "done", t)
        /\ locking' = [x \in Locks |-> Without(locking[x], t)]
        /\ pc[t] \in {"user", "cleanup"} /\ UNCHANGED call
        /\ "done" \in {"user", "cleanup", "done"}
    BY <1>7 DEF Exit
  <2>2. G \in SUBSET Locks
    BY DEF HeldBy
  <2>3. ASSUME NEW x \in Locks, x \notin G PROVE Without(locking[x], t) = locking[x]
    <3>1. t \notin On(locking[x])
      BY <2>3, LockFacts DEF HeldBy
    <3> QED BY <3>1 DEF Without
  <2>4. locking' = [x \in Locks |-> IF x \in G THEN Without(locking[x], t)
                                               ELSE locking[x]]
    BY <2>1, <2>3
  <2> HIDE DEF G
  <2> QED BY <2>1, <2>2, <2>4, ReleaseRefines
<1>8. ASSUME NEW t \in Threads, Destroy(t) PROVE [Service!Next]_(Service!svars)
  BY <1>8, UnseenStep DEF Destroy, lockVars
<1>9. ASSUME NEW u \in Threads, Unblock(u) PROVE [Service!Next]_(Service!svars)
  <2>1. /\ UNCHANGED lockVars /\ UNCHANGED call
        /\ \A t \in Threads : pc'[t] = IF t = u THEN WokenAt(pc[t]) ELSE pc[t]
    BY <1>9 DEF Unblock, Woken
  <2>2. \A t \in Threads : pc'[t] \in Waiting <=> pc[t] \in Waiting
    BY <2>1 DEF WokenAt, Waiting
  <2> QED BY <2>1, <2>2, UnseenStep DEF lockVars
<1> QED
  BY <1>0, <1>2, <1>3, <1>4, <1>5, <1>6, <1>7, <1>8, <1>9, <1>11
     DEF Next, ThreadStep, SignalDelivered, EntryDue, Cancel

\* The locks implement the safety part of their service.
THEOREM Refinement == SafeSpec => Service!SafeSpec
<1>1. Init => Service!Init
  BY EmptyList DEF Init, Service!Init, Waiting
<1> QED BY <1>1, Invariance, StepRefines, PTL DEF SafeSpec, Service!SafeSpec
=============================================================================
