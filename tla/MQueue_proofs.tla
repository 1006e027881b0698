--------------------------- MODULE MQueue_proofs ---------------------------
(***************************************************************************)
(* Proofs about MQueue for any threads and processes, any priorities, any  *)
(* capacity and any disturbances.                                          *)
(***************************************************************************)
EXTENDS MQueue, WaitList_proofs, FiniteSetTheorems

\* The inductive invariant: the safety invariants of MQueue together.  Only
\* together do they tell that a send or a receive wakes all that slept.
Inv == TypeOK /\ WithinCapacity /\ NoSleeperOnWork /\ ListsMatchPoints

USE MaxMsgAssumption, CallsAssumption, ThreadsAssumption

----------------------------------------------------------------------------
\* Insert makes the list one message longer, wherever the message goes.
LEMMA InsertAdds ==
  ASSUME NEW q \in Seq(Messages), NEW m \in Messages
  PROVE  /\ Insert(q, m) \in Seq(Messages)
         /\ Len(Insert(q, m)) = Len(q) + 1
<1> DEFINE n == Place(q, m.priority)
<1>1. n \in 0..Len(q)
  <2> DEFINE S == {i \in DOMAIN q : \A j \in 1..i : q[j].priority >= m.priority}
  <2>1. IsFiniteSet(1..Len(q)) /\ Cardinality(1..Len(q)) = Len(q)
    BY FS_Interval
  <2>2. S \subseteq 1..Len(q)
    OBVIOUS
  <2>3. Cardinality(S) \in Nat /\ Cardinality(S) <= Len(q)
    BY <2>1, <2>2, FS_Subset, FS_CardinalityType
  <2> QED BY <2>3 DEF Place
<1> HIDE DEF n
<1>2. /\ SubSeq(q, 1, n) \in Seq(Messages) /\ Len(SubSeq(q, 1, n)) = n
      /\ SubSeq(q, n + 1, Len(q)) \in Seq(Messages)
      /\ Len(SubSeq(q, n + 1, Len(q))) = Len(q) - n
  BY <1>1
<1>3. Insert(q, m) = SubSeq(q, 1, n) \o <<m>> \o SubSeq(q, n + 1, Len(q))
  BY DEF Insert, n
<1> DEFINE front == SubSeq(q, 1, n)
           back == SubSeq(q, n + 1, Len(q))
<1>4. front \in Seq(Messages) /\ Len(front) = n
      /\ back \in Seq(Messages) /\ Len(back) = Len(q) - n
  BY <1>2
<1>5. Insert(q, m) = (front \o <<m>>) \o back
  BY <1>3
<1> HIDE DEF front, back
<1>6. <<m>> \in Seq(Messages) /\ Len(<<m>>) = 1
  OBVIOUS
<1>7. front \o <<m>> \in Seq(Messages) /\ Len(front \o <<m>>) = n + 1
  BY <1>4, <1>6, <1>1
<1>8. /\ (front \o <<m>>) \o back \in Seq(Messages)
      /\ Len((front \o <<m>>) \o back) = (n + 1) + (Len(q) - n)
  BY <1>4, <1>7, <1>1
<1>9. (n + 1) + (Len(q) - n) = Len(q) + 1
  BY <1>1
<1> QED BY <1>5, <1>8, <1>9

\* A non-empty list of messages loses one by Tail.
LEMMA TailTakes ==
  ASSUME NEW q \in Seq(Messages), q # <<>>
  PROVE  Tail(q) \in Seq(Messages) /\ Len(Tail(q)) = Len(q) - 1
OBVIOUS

\* The parts of the invariant that the step lemmas use again and again.
LEMMA Facts ==
  ASSUME Inv
  PROVE  /\ messages \in Seq(Messages) /\ Len(messages) \in Nat
         /\ curmsgs = Len(messages) /\ Len(messages) <= MaxMsg
         /\ receivers \in Seq(Threads) /\ senders \in Seq(Threads)
         /\ NoRepeat(receivers) /\ NoRepeat(senders)
         /\ pc \in [Threads -> Points] /\ call \in [Threads -> Calls \cup {NoCall}]
         /\ \A t \in Threads : pc[t] \in Waiting <=> call[t] # NoCall
         /\ On(receivers) = {t \in Threads : pc[t] = "blocked" /\ call[t] = Receive}
         /\ On(senders) = {t \in Threads : pc[t] = "blocked" /\ call[t] # Receive}
BY DEF Inv, TypeOK, WithinCapacity, ListsMatchPoints

\* A list with nobody on it is empty.
LEMMA NobodyOn ==
  ASSUME NEW list \in Seq(Threads), On(list) = {} PROVE list = <<>>
<1> SUFFICES ASSUME list # <<>> PROVE FALSE
  OBVIOUS
<1>1. 1 \in 1..Len(list)
  OBVIOUS
<1> QED BY <1>1 DEF On

\* Waking threads leaves everybody waiting who waited.
LEMMA WokenStays ==
  ASSUME Inv, NEW S, NEW t \in Threads
  PROVE  /\ Woken(S) \in [Threads -> Points]
         /\ Woken(S)[t] \in Waiting <=> pc[t] \in Waiting
         /\ Woken(S)[t] = "blocked" <=> pc[t] = "blocked" /\ t \notin S
BY Facts DEF Woken, WokenAt, Points, Waiting

\* A call that returns waits no longer; whom it woke still waits.
LEMMA ReturnTypes ==
  ASSUME Inv, NEW t \in Threads, NEW S, Return(t, S)
  PROVE  /\ pc' \in [Threads -> Points] /\ call' \in [Threads -> Calls \cup {NoCall}]
         /\ \A u \in Threads : pc'[u] \in Waiting <=> call'[u] # NoCall
         /\ \A u \in Threads : pc'[u] = "blocked" <=> pc[u] = "blocked" /\ u \notin S /\ u # t
         /\ \A u \in Threads : u # t => call'[u] = call[u]
<1> USE DEF Return
<1>1. ASSUME NEW u \in Threads PROVE pc'[u] \in Waiting <=> call'[u] # NoCall
  <2>1. CASE u = t
    BY <2>1, Facts, WokenStays DEF Waiting
  <2>2. CASE u # t
    BY <2>2, Facts, WokenStays
  <2> QED BY <2>1, <2>2
<1>2. Woken(S) \in [Threads -> Points]
  BY WokenStays
<1>3. pc' \in [Threads -> Points]
  BY <1>2 DEF Points
<1>4. call' \in [Threads -> Calls \cup {NoCall}]
  BY Facts
<1>5. ASSUME NEW u \in Threads
      PROVE  pc'[u] = "blocked" <=> pc[u] = "blocked" /\ u \notin S /\ u # t
  BY <1>2, WokenStays
<1>6. \A u \in Threads : u # t => call'[u] = call[u]
  BY Facts
<1> QED BY <1>1, <1>3, <1>4, <1>5, <1>6

\* A step that touches neither messages nor lists, and nobody who is blocked.
LEMMA QuietKeeps ==
  ASSUME Inv, TypeOK', UNCHANGED <<messages, curmsgs, receivers, senders>>,
         \A u \in Threads : pc'[u] = "blocked" <=> pc[u] = "blocked",
         \A u \in Threads : pc[u] = "blocked" => call'[u] = call[u]
  PROVE  Inv'
<1>1. WithinCapacity' /\ NoSleeperOnWork'
  BY DEF Inv, WithinCapacity, NoSleeperOnWork
<1>2. ListsMatchPoints'
  BY Facts DEF ListsMatchPoints
<1> QED BY <1>1, <1>2 DEF Inv

----------------------------------------------------------------------------
\* The message goes in, or the first comes out, and the other side is woken.
LEMMA ServeKeeps ==
  ASSUME Inv, NEW t \in Threads, NEW c \in Calls, Serve(t, c), pc[t] # "blocked",
         UNCHANGED <<descVars, cancelled, expired>>,
         entries' \in [Threads -> Nat]
  PROVE  Inv'
<1> USE DEF Serve, Calls
<1>1. CASE c = Receive
  <2> USE <1>1 DEF Fetch, CanGo
  <2>1. messages' \in Seq(Messages) /\ Len(messages') = Len(messages) - 1
    BY Facts, TailTakes
  <2>2. TypeOK'
    <3>1. /\ pc' \in [Threads -> Points] /\ call' \in [Threads -> Calls \cup {NoCall}]
          /\ \A u \in Threads : pc'[u] \in Waiting <=> call'[u] # NoCall
      BY ReturnTypes
    <3>2. /\ curmsgs' \in Nat
          /\ receivers' \in Seq(Threads) /\ senders' \in Seq(Threads)
      BY <2>1, Facts
    <3> QED BY <2>1, <3>1, <3>2 DEF Inv, TypeOK, descVars
  <2>3. WithinCapacity' /\ NoSleeperOnWork'
    BY <2>1, Facts DEF Inv, WithinCapacity, NoSleeperOnWork
  <2>4. ListsMatchPoints'
    <3>1. \A u \in Threads : pc'[u] = "blocked" <=> pc[u] = "blocked" /\ u \notin On(senders)
      BY ReturnTypes
    <3>2. \A u \in Threads : pc'[u] = "blocked" => call'[u] = call[u]
      BY ReturnTypes
    <3>3. On(receivers') = {u \in Threads : pc'[u] = "blocked" /\ call'[u] = Receive}
      BY Facts, <3>1, <3>2
    <3>4. On(senders') = {u \in Threads : pc'[u] = "blocked" /\ call'[u] # Receive}
      BY Facts, <3>1, <3>2, EmptyList
    <3> QED BY <3>3, <3>4, Facts, EmptyList DEF ListsMatchPoints
  <2> QED BY <2>2, <2>3, <2>4 DEF Inv
<1>2. CASE c \in Prios /\ c # Receive
  <2> USE <1>2 DEF Put, CanGo
  <2>1. messages' \in Seq(Messages) /\ Len(messages') = Len(messages) + 1
    <3>1. [priority |-> c, from |-> ProcessOf[t]] \in Messages
      BY DEF Messages
    <3> QED BY <3>1, Facts, InsertAdds
  <2>2. TypeOK'
    <3>1. /\ pc' \in [Threads -> Points] /\ call' \in [Threads -> Calls \cup {NoCall}]
          /\ \A u \in Threads : pc'[u] \in Waiting <=> call'[u] # NoCall
      BY ReturnTypes
    <3>2. /\ curmsgs' \in Nat
          /\ receivers' \in Seq(Threads) /\ senders' \in Seq(Threads)
      BY <2>1, Facts
    <3> QED BY <2>1, <3>1, <3>2 DEF Inv, TypeOK, descVars
  <2>3. WithinCapacity' /\ NoSleeperOnWork'
    BY <2>1, Facts DEF Inv, WithinCapacity, NoSleeperOnWork
  <2>4. ListsMatchPoints'
    <3>1. \A u \in Threads : pc'[u] = "blocked" <=> pc[u] = "blocked" /\ u \notin On(receivers)
      BY ReturnTypes
    <3>2. \A u \in Threads : pc'[u] = "blocked" => call'[u] = call[u]
      BY ReturnTypes
    <3>3. On(receivers') = {u \in Threads : pc'[u] = "blocked" /\ call'[u] = Receive}
      BY Facts, <3>1, <3>2, EmptyList
    <3>4. On(senders') = {u \in Threads : pc'[u] = "blocked" /\ call'[u] # Receive}
      BY Facts, <3>1, <3>2
    <3> QED BY <3>3, <3>4, Facts, EmptyList DEF ListsMatchPoints
  <2> QED BY <2>2, <2>3, <2>4 DEF Inv
<1> QED BY <1>1, <1>2

\* EAGAIN.
LEMMA RefuseKeeps ==
  ASSUME Inv, NEW t \in Threads, NEW c \in Calls, Refuse(t, c), pc[t] # "blocked",
         UNCHANGED <<descVars, cancelled, clockVars>>
  PROVE  Inv'
<1> USE DEF Refuse
<1>1. TypeOK'
  BY ReturnTypes DEF Inv, TypeOK, descVars, clockVars
<1>2. /\ \A u \in Threads : pc'[u] = "blocked" <=> pc[u] = "blocked"
      /\ \A u \in Threads : pc[u] = "blocked" => call'[u] = call[u]
  BY ReturnTypes
<1> QED BY <1>1, <1>2, QuietKeeps

\* The thread joins the list of its side; there is nothing for it to do.
LEMMA BlockKeeps ==
  ASSUME Inv, NEW t \in Threads, NEW c \in Calls, Block(t, c), pc[t] # "blocked",
         UNCHANGED <<descVars, cancelled, clockVars>>
  PROVE  Inv'
<1> USE DEF Block
<1>1. t \notin On(receivers) /\ t \notin On(senders)
  BY Facts
<1>2. /\ receivers' \in Seq(Threads) /\ NoRepeat(receivers')
      /\ On(receivers') = IF c = Receive THEN On(receivers) \cup {t} ELSE On(receivers)
  BY <1>1, Facts, AppendAdds
<1>3. /\ senders' \in Seq(Threads) /\ NoRepeat(senders')
      /\ On(senders') = IF c = Receive THEN On(senders) ELSE On(senders) \cup {t}
  BY <1>1, Facts, AppendAdds
<1>4. TypeOK'
  <2>1. pc' \in [Threads -> Points] /\ call' \in [Threads -> Calls \cup {NoCall}]
    BY Facts DEF Points
  <2>2. \A u \in Threads : pc'[u] \in Waiting <=> call'[u] # NoCall
    BY Facts DEF Waiting
  <2> QED BY <1>2, <1>3, <2>1, <2>2 DEF Inv, TypeOK, descVars, clockVars
<1>5. WithinCapacity'
  BY DEF Inv, WithinCapacity
<1>6. NoSleeperOnWork'
  BY DEF Inv, NoSleeperOnWork, Waits, CanGo
<1>7. ListsMatchPoints'
  <2>1. On(receivers') = {u \in Threads : pc'[u] = "blocked" /\ call'[u] = Receive}
    BY <1>2, Facts
  <2>2. On(senders') = {u \in Threads : pc'[u] = "blocked" /\ call'[u] # Receive}
    BY <1>3, Facts
  <2> QED BY <1>2, <1>3, <2>1, <2>2 DEF ListsMatchPoints
<1> QED BY <1>4, <1>5, <1>6, <1>7 DEF Inv

\* A timed caller sleeps on the clock.
LEMMA SleepKeeps ==
  ASSUME Inv, NEW t \in Threads, NEW c \in Calls, Sleep(t, c), pc[t] # "blocked",
         UNCHANGED <<descVars, cancelled, expired>>
  PROVE  Inv'
<1> USE DEF Sleep
<1>1. TypeOK'
  <2>1. pc' \in [Threads -> Points] /\ call' \in [Threads -> Calls \cup {NoCall}]
    BY Facts DEF Points
  <2>2. \A u \in Threads : pc'[u] \in Waiting <=> call'[u] # NoCall
    BY Facts DEF Waiting
  <2>3. entries' \in [Threads -> Nat]
    BY DEF Inv, TypeOK
  <2> QED BY <2>1, <2>2, <2>3 DEF Inv, TypeOK, descVars
<1>2. /\ \A u \in Threads : pc'[u] = "blocked" <=> pc[u] = "blocked"
      /\ \A u \in Threads : pc[u] = "blocked" => call'[u] = call[u]
  BY Facts
<1> QED BY <1>1, <1>2, QuietKeeps

\* One turn of the loop of timedsend or timedreceive, without and with a deadline.
LEMMA TurnKeeps ==
  ASSUME Inv, NEW t \in Threads, NEW c \in Calls, pc[t] # "blocked",
         Turn(t, c) \/ TimedTurn(t, c)
  PROVE  Inv'
<1>1. CASE Turn(t, c)
  <2>1. entries' \in [Threads -> Nat] /\ UNCHANGED expired
    BY <1>1 DEF Turn, clockVars, Inv, TypeOK
  <2> QED BY <1>1, <2>1, ServeKeeps, RefuseKeeps, BlockKeeps DEF Turn
<1>2. CASE TimedTurn(t, c)
  <2>1. CASE Sleep(t, c)
    BY <1>2, <2>1, SleepKeeps DEF TimedTurn
  <2>2. CASE (Serve(t, c) \/ Refuse(t, c)) /\ UNCHANGED entries
    <3>1. entries' \in [Threads -> Nat] /\ UNCHANGED clockVars
      BY <1>2, <2>2 DEF TimedTurn, clockVars, Inv, TypeOK
    <3> QED BY <1>2, <2>2, <3>1, ServeKeeps, RefuseKeeps DEF TimedTurn
  <2> QED BY <1>2, <2>1, <2>2 DEF TimedTurn
<1> QED BY <1>1, <1>2

\* A woken thread leaves with ETIMEDOUT.
LEMMA TimedOutKeeps ==
  ASSUME Inv, NEW t \in Threads, TimedOut(t) PROVE Inv'
<1> USE DEF TimedOut
<1>1. TypeOK'
  BY ReturnTypes DEF Inv, TypeOK, descVars, clockVars
<1>2. /\ \A u \in Threads : pc'[u] = "blocked" <=> pc[u] = "blocked"
      /\ \A u \in Threads : pc[u] = "blocked" => call'[u] = call[u]
  BY ReturnTypes
<1> QED BY <1>1, <1>2, QuietKeeps

\* mq_setattr, mq_open and mq_close move no message and no thread.
LEMMA DescriptorKeeps ==
  ASSUME Inv, NEW t \in Threads, Setattr(t) \/ Open(t) \/ Close(t) PROVE Inv'
<1>1. UNCHANGED <<messages, curmsgs, receivers, senders, pc, call, cancelled, clockVars>>
  BY DEF Setattr, Open, Close
<1>2. ProcessOf[t] \in Processes
  OBVIOUS
<1>3. listed' \in BOOLEAN /\ opened' \in SUBSET Processes /\ nonblock' \in SUBSET Processes
  BY <1>2 DEF Setattr, Open, Close, Inv, TypeOK
<1>4. access' \in [Processes -> SUBSET {"read", "write"}]
  <2>1. access \in [Processes -> SUBSET {"read", "write"}]
    BY DEF Inv, TypeOK
  <2>2. CASE \E a \in Accesses : access' = [access EXCEPT ![ProcessOf[t]] = a]
    BY <2>1, <2>2, AccessesAssumption
  <2>3. CASE UNCHANGED access
    BY <2>1, <2>3
  <2> QED BY <2>2, <2>3 DEF Setattr, Open, Close
<1>5. TypeOK'
  BY <1>1, <1>3, <1>4 DEF Inv, TypeOK, clockVars
<1> QED BY <1>1, <1>5, QuietKeeps

\* UC_thread_class::unblock by anybody but the queue: the thread is taken off
\* the list it is on, and no other.
LEMMA UnblockKeeps ==
  ASSUME Inv, NEW u \in Threads, Unblock(u), cancelled' \in SUBSET Threads,
         expired' \in SUBSET Threads, entries' \in [Threads -> Nat]
  PROVE  Inv'
<1> USE DEF Unblock
<1>1. /\ pc' \in [Threads -> Points]
      /\ \A t \in Threads : pc'[t] \in Waiting <=> pc[t] \in Waiting
      /\ \A t \in Threads : pc'[t] = "blocked" <=> pc[t] = "blocked" /\ t # u
  BY WokenStays
<1>2. /\ receivers' \in Seq(Threads) /\ NoRepeat(receivers')
      /\ On(receivers') = On(receivers) \ {u}
      /\ senders' \in Seq(Threads) /\ NoRepeat(senders')
      /\ On(senders') = On(senders) \ {u}
  BY Facts, WithoutErases
<1>3. TypeOK'
  BY <1>1, <1>2, Facts DEF Inv, TypeOK, descVars
<1>4. NoSleeperOnWork'
  <2>1. receivers = <<>> => receivers' = <<>>
    BY <1>2, EmptyList, NobodyOn
  <2>2. senders = <<>> => senders' = <<>>
    BY <1>2, EmptyList, NobodyOn
  <2> QED BY <2>1, <2>2 DEF Inv, NoSleeperOnWork
<1>5. WithinCapacity'
  BY DEF Inv, WithinCapacity
<1>6. ListsMatchPoints'
  BY <1>1, <1>2, Facts DEF ListsMatchPoints
<1> QED BY <1>3, <1>4, <1>5, <1>6 DEF Inv

\* The end of a thread.
LEMMA ExitKeeps ==
  ASSUME Inv, NEW t \in Threads, BeginExit(t) \/ Exit(t) PROVE Inv'
<1>1. /\ \A u \in Threads : pc'[u] = "blocked" <=> pc[u] = "blocked"
      /\ \A u \in Threads : pc[u] = "blocked" => call'[u] = call[u]
      /\ UNCHANGED <<messages, curmsgs, receivers, senders, descVars, expired>>
  BY Facts DEF BeginExit, Exit, clockVars
<1>2. TypeOK'
  <2>1. pc' \in [Threads -> Points] /\ call' \in [Threads -> Calls \cup {NoCall}]
    BY Facts DEF BeginExit, Exit, Points
  <2>2. \A u \in Threads : pc'[u] \in Waiting <=> call'[u] # NoCall
    <3>1. pc[t] = "cleanup" => call[t] = NoCall
      BY Facts DEF Waiting
    <3>2. ASSUME NEW u \in Threads PROVE pc'[u] \in Waiting <=> call'[u] # NoCall
      <4>1. CASE u = t
        BY <3>1, <4>1, Facts DEF BeginExit, Exit, Waiting
      <4>2. CASE u # t
        BY <4>2, Facts DEF BeginExit, Exit
      <4> QED BY <4>1, <4>2
    <3> QED BY <3>2
  <2>3. entries' \in [Threads -> Nat] /\ cancelled' \in SUBSET Threads
    <3>1. entries \in [Threads -> Nat] /\ cancelled \in SUBSET Threads
      BY DEF Inv, TypeOK
    <3>2. entries' \in [Threads -> Nat]
      BY <3>1 DEF BeginExit, Exit, clockVars
    <3>3. cancelled' \in SUBSET Threads
      BY <3>1 DEF BeginExit, Exit
    <3> QED BY <3>2, <3>3
  <2> QED BY <1>1, <2>1, <2>2, <2>3 DEF Inv, TypeOK, descVars
<1> QED BY <1>1, <1>2, QuietKeeps

----------------------------------------------------------------------------
\* The empty queue, just created, with nobody waiting.
LEMMA InitInv == Init => Inv
<1> SUFFICES ASSUME Init PROVE Inv
  OBVIOUS
<1> USE DEF Init
<1>1. TypeOK
  <2>1. PICK p \in Processes, a \in Accesses :
          opened = {p} /\ access = [r \in Processes |-> IF r = p THEN a ELSE {}]
    OBVIOUS
  <2>2. access \in [Processes -> SUBSET {"read", "write"}]
    BY <2>1, AccessesAssumption
  <2>3. /\ pc \in [Threads -> Points] /\ call \in [Threads -> Calls \cup {NoCall}]
        /\ \A t \in Threads : pc[t] \in Waiting <=> call[t] # NoCall
    BY DEF Points, Waiting
  <2> QED BY <2>1, <2>2, <2>3 DEF TypeOK
<1>2. WithinCapacity /\ NoSleeperOnWork
  BY DEF WithinCapacity, NoSleeperOnWork
<1>3. ListsMatchPoints
  BY EmptyList DEF ListsMatchPoints
<1> QED BY <1>1, <1>2, <1>3 DEF Inv

\* One step per action.
LEMMA StepInv == Inv /\ [Next]_vars => Inv'
<1> SUFFICES ASSUME Inv, [Next]_vars PROVE Inv'
  OBVIOUS
<1>1. CASE UNCHANGED vars
  <2>1. UNCHANGED <<messages, curmsgs, receivers, senders, pc, call>>
    BY <1>1 DEF vars
  <2>2. TypeOK'
    BY <1>1 DEF vars, descVars, clockVars, Inv, TypeOK
  <2> QED BY <2>1, <2>2, QuietKeeps
<1>2. ASSUME NEW t \in Threads, ThreadStep(t) PROVE Inv'
  <2>1. ASSUME Start(t) \/ StartTimed(t) PROVE Inv'
    BY <2>1, TurnKeeps DEF Start, StartTimed, InUser
  <2>2. ASSUME Again(t) \/ TimedAgain(t) PROVE Inv'
    <3>1. pc[t] \in {"woken", "timedWoken"} /\ call[t] \in Calls
      BY <2>2, Facts DEF Again, TimedAgain, Waiting
    <3> QED BY <2>2, <3>1, TurnKeeps DEF Again, TimedAgain
  <2> QED BY <1>2, <2>1, <2>2, TimedOutKeeps, DescriptorKeeps, ExitKeeps DEF ThreadStep
<1>3. ASSUME NEW u \in Threads, SignalDelivered(u) PROVE Inv'
  BY <1>3, UnblockKeeps DEF SignalDelivered, clockVars, Inv, TypeOK
<1>4. ASSUME NEW u \in Threads, EntryDue(u) PROVE Inv'
  BY <1>4, UnblockKeeps DEF EntryDue, Inv, TypeOK
<1>5. ASSUME NEW t \in Threads, NEW u \in Threads, Cancel(t, u) PROVE Inv'
  BY <1>5, UnblockKeeps DEF Cancel, clockVars, Inv, TypeOK
<1> QED BY <1>1, <1>2, <1>3, <1>4, <1>5 DEF Next

\* The invariant holds in every reachable state.
LEMMA Invariance == Spec => []Inv
BY InitInv, StepInv, PTL DEF Spec

\* Every variable keeps its type, and exactly the threads inside a call that
\* has not returned have a call recorded.
THEOREM TypeCorrect == Spec => []TypeOK
BY Invariance, PTL DEF Inv

\* The queue never exceeds mq_maxmsg and mq_curmsgs counts its messages, for
\* any number of senders that one mq_receive wakes at once.
THEOREM CapacityKept == Spec => []WithinCapacity
BY Invariance, PTL DEF Inv

\* No wake-up is lost: nobody is left on blocked_threads with a message there
\* nor on wr_blocked_threads with room, whatever is cancelled or interrupted.
THEOREM NobodySleepsOnWork == Spec => []NoSleeperOnWork
BY Invariance, PTL DEF Inv

\* The two lists are exactly the blocked receivers and the blocked senders.
THEOREM ListsAreExact == Spec => []ListsMatchPoints
BY Invariance, PTL DEF Inv

----------------------------------------------------------------------------
\* A thread that leaves the loop of a call it slept in has been served, or
\* found its process's descriptor non-blocking.
LEMMA ReturnIsServed ==
  ASSUME Inv, Next, NEW t \in Threads, pc[t] = "woken", pc'[t] = "user"
  PROVE  \/ ProcessOf[t] \in nonblock
         \/ IF call[t] = Receive THEN Len(messages') < Len(messages)
                                 ELSE Len(messages') > Len(messages)
<1>1. ASSUME NEW u \in Threads, u # t, NEW S, Return(u, S) PROVE FALSE
  <2>1. pc'[t] = Woken(S)[t]
    BY <1>1, Facts, WokenStays DEF Return
  <2> QED BY <2>1, Facts DEF Woken, WokenAt
<1>2. ASSUME NEW S, pc' = Woken(S) PROVE FALSE
  BY <1>2 DEF Woken, WokenAt
<1>3. ASSUME NEW u \in Threads, NEW c \in Calls, Turn(u, c) \/ TimedTurn(u, c)
      PROVE  u = t /\ ~Block(u, c)
  <2>1. CASE Serve(u, c) \/ Refuse(u, c)
    <3>1. PICK S : Return(u, S)
      BY <2>1 DEF Serve, Refuse, Put, Fetch
    <3>2. u = t
      BY <3>1, <1>1
    <3>3. pc'[t] = "user" /\ (Block(u, c) => pc'[u] = "blocked")
      BY Facts DEF Block
    <3> QED BY <3>2, <3>3
  <2>2. CASE Block(u, c) \/ Sleep(u, c)
    BY <2>2, Facts DEF Block, Sleep
  <2> QED BY <1>3, <2>1, <2>2 DEF Turn, TimedTurn
<1>4. Again(t)
  <2>1. PICK u \in Threads : \/ ThreadStep(u)
                             \/ SignalDelivered(u) \/ EntryDue(u)
                             \/ \E v \in Threads : Cancel(u, v)
    BY DEF Next
  <2>2. ~SignalDelivered(u) /\ ~EntryDue(u) /\ ~\E v \in Threads : Cancel(u, v)
    BY <1>2 DEF SignalDelivered, EntryDue, Cancel, Unblock
  <2>3. ~Start(u) /\ ~StartTimed(u)
    BY <1>3 DEF Start, StartTimed, InUser
  <2>4. TimedAgain(u) => FALSE
    <3> SUFFICES ASSUME TimedAgain(u) PROVE FALSE
      OBVIOUS
    <3>1. pc[u] = "timedWoken" /\ call[u] \in Calls
      BY Facts DEF TimedAgain, Waiting
    <3> QED BY <3>1, <1>3 DEF TimedAgain
  <2>5. ~TimedOut(u)
    BY <1>1 DEF TimedOut
  <2>6. ~Setattr(u) /\ ~Open(u) /\ ~Close(u) /\ ~BeginExit(u) /\ ~Exit(u)
    BY Facts DEF Setattr, Open, Close, BeginExit, Exit
  <2>7. Again(u)
    BY <2>1, <2>2, <2>3, <2>4, <2>5, <2>6 DEF ThreadStep
  <2>8. call[u] \in Calls
    BY <2>7, Facts DEF Again, Waiting
  <2> QED BY <2>7, <2>8, <1>3 DEF Again
<1>5. call[t] \in Calls
  BY Facts DEF Waiting
<1>6. Serve(t, call[t]) \/ Refuse(t, call[t])
  BY <1>3, <1>4, <1>5 DEF Again, Turn
<1>7. CASE Refuse(t, call[t])
  BY <1>7 DEF Refuse
<1>8. CASE Serve(t, call[t]) /\ call[t] = Receive
  <2>1. Len(messages') = Len(messages) - 1
    BY <1>8, Facts, TailTakes DEF Serve, CanGo, Fetch
  <2> QED BY <2>1, <1>8, Facts
<1>9. CASE Serve(t, call[t]) /\ call[t] # Receive
  <2>1. call[t] \in Prios
    BY <1>5, <1>9 DEF Calls
  <2>2. [priority |-> call[t], from |-> ProcessOf[t]] \in Messages
    BY <2>1 DEF Messages
  <2>3. Len(messages') = Len(messages) + 1
    BY <1>9, <2>2, Facts, InsertAdds DEF Serve, Put
  <2> QED BY <2>3, <1>9, Facts
<1> QED BY <1>6, <1>7, <1>8, <1>9

\* Nobody is woken for nothing and sent home: a thread that blocked in mq_send
\* or mq_receive returns with its message sent or received, or because its
\* process's descriptor was made non-blocking meanwhile.
THEOREM SleepersReturnServed == Spec => SleeperReturnsServed
<1>1. ASSUME Inv, [Next]_vars, NEW t \in Threads, pc[t] = "woken", pc'[t] = "user"
      PROVE  \/ ProcessOf[t] \in nonblock
             \/ IF call[t] = Receive THEN Len(messages') < Len(messages)
                                     ELSE Len(messages') > Len(messages)
  BY <1>1, ReturnIsServed DEF vars
<1>2. Inv /\ [Next]_vars =>
        [\A t \in Threads :
           pc[t] = "woken" /\ pc'[t] = "user" =>
             \/ ProcessOf[t] \in nonblock
             \/ IF call[t] = Receive THEN Len(messages') < Len(messages)
                                     ELSE Len(messages') > Len(messages)]_vars
  BY <1>1
<1> QED BY Invariance, <1>2, PTL DEF Spec, SleeperReturnsServed
=============================================================================
