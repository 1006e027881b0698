-------------------------- MODULE WaitList_proofs --------------------------
(***************************************************************************)
(* What the operations of block() and unblock() do to a list of blocked    *)
(* threads, for lists of any length over any set of threads; and what the  *)
(* proofs about loops over lists rest on.                                  *)
(***************************************************************************)
EXTENDS WaitList, TLAPS, WellFoundedInduction

\* Erasing a thread from a list without repetitions takes it, and nothing
\* else, off the list (the loop at the end of UC_thread_class::unblock).
LEMMA WithoutErases ==
  ASSUME NEW Threads, NEW list \in Seq(Threads), NEW t \in Threads, NoRepeat(list)
  PROVE  /\ Without(list, t) \in Seq(Threads)
         /\ On(Without(list, t)) = On(list) \ {t}
         /\ NoRepeat(Without(list, t))
         /\ Len(Without(list, t)) = IF t \in On(list) THEN Len(list) - 1
                                                     ELSE Len(list)
<1>1. CASE t \notin On(list)
  BY <1>1 DEF Without
<1>2. CASE t \in On(list)
  <2> DEFINE First(k) == list[k] = t /\ \A j \in 1..(k - 1) : list[j] # t
             i == CHOOSE k \in 1..Len(list) : First(k)
             rest == [j \in 1..(Len(list) - 1) |->
                        IF j < i THEN list[j] ELSE list[j + 1]]
  <2>1. \E k \in 1..Len(list) : First(k)
    BY <1>2 DEF On, NoRepeat
  <2>2. i \in 1..Len(list) /\ list[i] = t
    BY <2>1
  <2>3. Without(list, t) = rest
    BY <1>2 DEF Without
  <2> HIDE DEF i
  <2>4. rest \in Seq(Threads) /\ Len(rest) = Len(list) - 1
    BY <2>2
  <2>5. On(rest) = On(list) \ {t}
    <3>1. ASSUME NEW u \in On(rest) PROVE u \in On(list) \ {t}
      <4>1. PICK j \in 1..(Len(list) - 1) : rest[j] = u
        BY <2>4 DEF On
      <4>2. PICK k \in 1..Len(list) : list[k] = u /\ k # i
        <5>1. CASE j < i
          BY <4>1, <5>1, <2>2
        <5>2. CASE ~(j < i)
          <6>1. j + 1 \in 1..Len(list) /\ list[j + 1] = u /\ j + 1 # i
            BY <4>1, <5>2, <2>2
          <6> QED BY <6>1
        <5> QED BY <5>1, <5>2
      <4> QED BY <4>2, <2>2 DEF On, NoRepeat
    <3>2. ASSUME NEW u \in On(list) \ {t} PROVE u \in On(rest)
      <4>1. PICK k \in 1..Len(list) : list[k] = u
        BY DEF On
      <4>2. k # i
        BY <4>1, <3>2, <2>2
      <4>3. CASE k < i
        BY <4>1, <4>3, <2>2, <2>4 DEF On
      <4>4. CASE k > i
        <5>1. k - 1 \in 1..(Len(list) - 1) /\ rest[k - 1] = u
          BY <4>1, <4>4, <2>2
        <5> QED BY <5>1, <2>4 DEF On
      <4> QED BY <4>2, <4>3, <4>4, <2>2
    <3> QED BY <3>1, <3>2
  <2>6. NoRepeat(rest)
    BY <2>2, <2>4 DEF NoRepeat
  <2> QED BY <1>2, <2>3, <2>4, <2>5, <2>6
<1> QED BY <1>1, <1>2

\* A thread blocking on an object appears once on its list.
LEMMA AppendAdds ==
  ASSUME NEW Threads, NEW list \in Seq(Threads), NEW t \in Threads,
         NoRepeat(list), t \notin On(list)
  PROVE  /\ Append(list, t) \in Seq(Threads)
         /\ On(Append(list, t)) = On(list) \cup {t}
         /\ NoRepeat(Append(list, t))
         /\ Len(Append(list, t)) = Len(list) + 1
<1> DEFINE new == Append(list, t)
<1>1. /\ new \in Seq(Threads) /\ Len(new) = Len(list) + 1
      /\ \A i \in 1..Len(list) : new[i] = list[i]
      /\ new[Len(list) + 1] = t
  OBVIOUS
<1>2. On(new) = On(list) \cup {t}
  BY <1>1 DEF On
<1>3. NoRepeat(new)
  BY <1>1 DEF On, NoRepeat
<1> QED BY <1>1, <1>2, <1>3

\* Waking the first waiter takes it, and nothing else, off the list.
LEMMA TailRemovesHead ==
  ASSUME NEW Threads, NEW list \in Seq(Threads), NoRepeat(list), list # <<>>
  PROVE  /\ Head(list) \in Threads /\ Tail(list) \in Seq(Threads)
         /\ On(Tail(list)) = On(list) \ {Head(list)}
         /\ NoRepeat(Tail(list))
<1> DEFINE rest == Tail(list)
<1>1. /\ rest \in Seq(Threads) /\ Len(rest) = Len(list) - 1
      /\ \A i \in 1..(Len(list) - 1) : rest[i] = list[i + 1]
      /\ Head(list) = list[1] /\ Len(list) \in Nat \ {0}
      /\ Head(list) \in Threads
  OBVIOUS
<1>2. On(rest) = On(list) \ {Head(list)}
  <2>1. ASSUME NEW u \in On(rest) PROVE u \in On(list) \ {Head(list)}
    BY <1>1 DEF On, NoRepeat
  <2>2. ASSUME NEW u \in On(list) \ {Head(list)} PROVE u \in On(rest)
    <3>1. PICK k \in 1..Len(list) : list[k] = u
      BY DEF On
    <3>2. k - 1 \in 1..Len(rest) /\ rest[k - 1] = u
      BY <3>1, <2>2, <1>1
    <3> QED BY <3>2 DEF On
  <2> QED BY <2>1, <2>2
<1>3. NoRepeat(rest)
  BY <1>1 DEF NoRepeat
<1> QED BY <1>1, <1>2, <1>3

\* An emptied list has nobody on it.
LEMMA EmptyList == On(<<>>) = {} /\ NoRepeat(<<>>)
BY DEF On, NoRepeat

\* A list of threads has only threads on it.
LEMMA OnInThreads ==
  ASSUME NEW Threads, NEW list \in Seq(Threads) PROVE On(list) \subseteq Threads
BY DEF On

\* Every set of numbers has a smallest one.
LEMMA SmallestNumber ==
  ASSUME NEW N, N \subseteq Nat, N # {}
  PROVE  \E n \in N : \A k \in N : n <= k
<1>1. PICK R : /\ IsWellFoundedOn(R, Nat)
               /\ \A x, y \in Nat : x < y => <<x, y>> \in R
  <2>1. \A x, y \in Nat : x < y => <<x, y>> \in OpToRel(<, Nat)
    BY DEF OpToRel
  <2> QED BY <2>1, NatLessThanWellFounded
<1>2. \E x \in N : \A y \in N : ~ (<<y, x>> \in R)
  <2>1. IsWellFoundedOn(R, Nat)
    BY <1>1
  <2> QED BY <2>1, WFMin, Zenon
<1>3. PICK n \in N : \A y \in N : ~ (<<y, n>> \in R)
  BY <1>2, Zenon
<1>4. ASSUME NEW k \in N PROVE n <= k
  <2>1. n \in Nat /\ k \in Nat
    BY <1>3
  <2>2. ~ (k < n)
    BY <1>1, <1>3, <2>1, Zenon
  <2> QED BY <2>1, <2>2
<1> QED BY <1>4
=============================================================================
