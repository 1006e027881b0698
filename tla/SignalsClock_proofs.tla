------------------------- MODULE SignalsClock_proofs -------------------------
(***************************************************************************)
(* Proofs about TicTimer, for any threads, timers, times and widths of the *)
(* counters, and about Signals, for any threads, any signals, handlers and *)
(* masks and any number of signals sent.                                   *)
(***************************************************************************)
EXTENDS Signals, TicTimer, WaitList_proofs, FiniteSetTheorems, SequenceTheorems

----------------------------------------------------------------------------
\* The clock: sleeps and timers.

Entries == [thread : Sleepers, counter : 0..(Wide - 1), abs : BOOLEAN, stale : BOOLEAN]

\* Entry i is the one of the sleep t is in.
IsMine(list, t, i) == list[i].thread = t /\ ~list[i].stale

\* r is list with e at place n.
InsertedAt(list, r, e, n) ==
  /\ n \in 1..(Len(list) + 1) /\ Len(r) = Len(list) + 1
  /\ \A j \in 1..Len(r) : r[j] = IF j < n THEN list[j] ELSE IF j = n THEN e ELSE list[j - 1]

\* r is list without its place n.
RemovedAt(list, r, n) ==
  /\ n \in 1..Len(list) /\ Len(r) = Len(list) - 1
  /\ \A j \in 1..Len(r) : r[j] = IF j < n THEN list[j] ELSE list[j + 1]

\* A set of numbers has a minimum.
LEMMA MinIsIn ==
  ASSUME NEW S, S \subseteq Nat, S # {}
  PROVE  Min(S) \in S /\ \A x \in S : Min(S) <= x
<1>1. PICK m \in S : \A x \in S : m <= x
  BY SmallestNumber
<1> QED BY <1>1 DEF Min

\* Insert puts an entry at its place, and nothing else.
LEMMA InsertPuts ==
  ASSUME NEW S, NEW list \in Seq(S), NEW e \in S, NEW i \in 0..Len(list)
  PROVE  /\ Insert(list, e, i) \in Seq(S)
         /\ InsertedAt(list, Insert(list, e, i), e, IF i = 0 THEN Len(list) + 1 ELSE i)
<1> DEFINE n == IF i = 0 THEN Len(list) + 1 ELSE i
           a == SubSeq(list, 1, n - 1)
           b == SubSeq(list, n, Len(list))
<1>1. n \in 1..(Len(list) + 1) /\ Len(list) \in Nat /\ n \in Nat
  OBVIOUS
<1>2. Insert(list, e, i) = a \o <<e>> \o b
  BY DEF Insert, InsertAt
<1> HIDE DEF n
<1>3. /\ a \in Seq(S) /\ Len(a) = n - 1 /\ \A j \in 1..(n - 1) : a[j] = list[j]
  BY <1>1
<1>4. /\ b \in Seq(S) /\ Len(b) = Len(list) - n + 1
      /\ \A j \in 1..(Len(list) - n + 1) : b[j] = list[n + j - 1]
  BY <1>1
<1> HIDE DEF a, b
<1> DEFINE c == a \o <<e>>
<1>5. c \in Seq(S) /\ Len(c) = n /\ c[n] = e /\ \A j \in 1..(n - 1) : c[j] = list[j]
  BY <1>1, <1>3
<1> HIDE DEF c
<1> DEFINE r == c \o b
<1>6. r \in Seq(S) /\ Len(r) = Len(list) + 1
  <2>1. r \in Seq(S) /\ Len(r) = Len(c) + Len(b)
    BY <1>4, <1>5, ConcatProperties
  <2> QED BY <1>1, <1>4, <1>5, <2>1
<1>7. ASSUME NEW j \in 1..Len(r)
      PROVE  r[j] = IF j < n THEN list[j] ELSE IF j = n THEN e ELSE list[j - 1]
  <2>1. CASE j <= n
    <3>1. j \in 1..n /\ r[j] = c[j]
      BY <1>1, <1>4, <1>5, <1>6, <2>1
    <3> QED BY <1>1, <1>5, <3>1
  <2>2. CASE j > n
    <3>1. j - n \in 1..(Len(list) - n + 1) /\ n + (j - n) - 1 = j - 1
      BY <1>1, <1>6, <2>2
    <3>2. r[j] = b[j - n]
      BY <1>1, <1>4, <1>5, <1>6, <2>2
    <3> QED BY <1>1, <1>4, <2>2, <3>1, <3>2
  <2> QED BY <1>1, <2>1, <2>2
<1>8. Insert(list, e, i) = r
  BY <1>2 DEF c
<1> HIDE DEF r
<1> QED BY <1>1, <1>6, <1>7, <1>8 DEF InsertedAt, n

\* RemoveAt takes one place out, and nothing else.
LEMMA RemoveTakes ==
  ASSUME NEW S, NEW list \in Seq(S), NEW n \in 1..Len(list)
  PROVE  /\ RemoveAt(list, n) \in Seq(S)
         /\ RemovedAt(list, RemoveAt(list, n), n)
<1> DEFINE a == SubSeq(list, 1, n - 1)
           b == SubSeq(list, n + 1, Len(list))
<1>1. Len(list) \in Nat /\ n \in Nat
  OBVIOUS
<1>2. RemoveAt(list, n) = a \o b
  BY DEF RemoveAt
<1>3. /\ a \in Seq(S) /\ Len(a) = n - 1 /\ \A j \in 1..(n - 1) : a[j] = list[j]
  BY <1>1
<1>4. /\ b \in Seq(S) /\ Len(b) = Len(list) - n
      /\ \A j \in 1..(Len(list) - n) : b[j] = list[n + j]
  BY <1>1
<1> HIDE DEF a, b
<1> DEFINE r == a \o b
<1>5. r \in Seq(S) /\ Len(r) = Len(list) - 1
  <2>1. r \in Seq(S) /\ Len(r) = Len(a) + Len(b)
    BY <1>3, <1>4, ConcatProperties
  <2> QED BY <1>1, <1>3, <1>4, <2>1
<1>6. ASSUME NEW j \in 1..Len(r) PROVE r[j] = IF j < n THEN list[j] ELSE list[j + 1]
  <2>1. CASE j < n
    BY <1>1, <1>3, <1>4, <1>5, <2>1
  <2>2. CASE j >= n
    <3>1. j - (n - 1) \in 1..(Len(list) - n) /\ n + (j - (n - 1)) = j + 1
      BY <1>1, <1>5, <2>2
    <3>2. r[j] = b[j - (n - 1)]
      BY <1>1, <1>3, <1>4, <1>5, <2>2
    <3> QED BY <1>1, <1>4, <2>2, <3>1, <3>2
  <2> QED BY <1>1, <2>1, <2>2
<1> HIDE DEF r
<1> QED BY <1>2, <1>5, <1>6 DEF RemovedAt, r

\* The entry of the sleep a thread is in, if there is one.
LEMMA MineFinds ==
  ASSUME NEW list \in Seq(Entries), NEW t
  PROVE  \/ /\ Mine(t, list) = 0
            /\ \A i \in 1..Len(list) : ~IsMine(list, t, i)
            /\ WithoutMine(t, list) = list
         \/ /\ Mine(t, list) \in 1..Len(list)
            /\ IsMine(list, t, Mine(t, list))
            /\ WithoutMine(t, list) \in Seq(Entries)
            /\ RemovedAt(list, WithoutMine(t, list), Mine(t, list))
<1> DEFINE I == {i \in 1..Len(list) : IsMine(list, t, i)}
<1>1. Mine(t, list) = IF I # {} THEN Min(I) ELSE 0
  BY DEF Mine, SelectInSeq, IsMine
<1>2. WithoutMine(t, list) = IF I # {} THEN RemoveAt(list, Mine(t, list)) ELSE list
  BY DEF WithoutMine, RemoveFirstMatch, Mine, IsMine
<1>3. I \subseteq Nat
  OBVIOUS
<1>4. CASE I = {}
  BY <1>1, <1>2, <1>4
<1>5. CASE I # {}
  <2>1. Mine(t, list) \in I
    <3> HIDE DEF I
    <3> QED BY <1>1, <1>3, <1>5, MinIsIn
  <2>2. Mine(t, list) \in 1..Len(list) /\ IsMine(list, t, Mine(t, list))
    BY <2>1
  <2>3. WithoutMine(t, list) = RemoveAt(list, Mine(t, list))
    BY <1>2, <1>5
  <2> QED BY <2>2, <2>3, RemoveTakes
<1> QED BY <1>4, <1>5

\* What unblock does to a timed wait: at most one of its entries counts zero.
ZeroedAt(list, r, t) ==
  /\ r \in Seq(Entries) /\ Len(r) = Len(list)
  /\ \A i \in 1..Len(list) :
       /\ r[i].thread = list[i].thread /\ r[i].abs = list[i].abs /\ r[i].stale = list[i].stale
       /\ r[i] = list[i] \/ (r[i].counter = 0 /\ list[i].thread = t /\ t \in timed)

\* unblock: the only entry of a thread in a timed wait counts zero then.
LEMMA ZeroedZeroes ==
  ASSUME NEW list \in Seq(Entries), NEW t, Wide \in Nat \ {0}
  PROVE  /\ ZeroedAt(list, Zeroed(list, t), t)
         /\ t \in timed => \A i \in 1..Len(list) :
              (/\ list[i].thread = t
               /\ \A j \in 1..Len(list) : list[j].thread = t => i = j)
                 => Zeroed(list, t)[i].counter = 0
<1> DEFINE I == {i \in 1..Len(list) : list[i].thread = t}
           n == IF I # {} THEN Min(I) ELSE 0
<1>1. Zeroed(list, t) = IF n = 0 \/ t \notin timed THEN list
                        ELSE [list EXCEPT ![n].counter = 0]
  BY DEF Zeroed, SelectInSeq
<1>2. I \subseteq Nat /\ 0 \notin I
  OBVIOUS
<1>3. I # {} => n \in I
  <2> HIDE DEF I
  <2> QED BY <1>2, MinIsIn
<1>4. CASE n = 0 \/ t \notin timed
  <2>1. Zeroed(list, t) = list
    BY <1>1, <1>4
  <2>2. ZeroedAt(list, list, t)
    BY DEF ZeroedAt
  <2> QED BY <1>2, <1>3, <1>4, <2>1, <2>2
<1>5. CASE n # 0 /\ t \in timed
  <2>1. n \in 1..Len(list) /\ list[n].thread = t /\ list[n] \in Entries
    BY <1>3, <1>5
  <2> HIDE DEF n
  <2> DEFINE e == [list[n] EXCEPT !.counter = 0]
             r == [list EXCEPT ![n] = e]
  <2>2. Zeroed(list, t) = r
    BY <1>1, <1>5
  <2>3. /\ e \in Entries /\ e.counter = 0 /\ e.thread = list[n].thread
        /\ e.abs = list[n].abs /\ e.stale = list[n].stale
    BY <2>1 DEF Entries
  <2> HIDE DEF e
  <2>4. /\ r \in Seq(Entries) /\ Len(r) = Len(list)
        /\ \A i \in 1..Len(list) : r[i] = IF i = n THEN e ELSE list[i]
    BY <2>1, <2>3
  <2> HIDE DEF r
  <2>5. ZeroedAt(list, r, t)
    BY <1>5, <2>1, <2>3, <2>4 DEF ZeroedAt
  <2> QED BY <2>1, <2>2, <2>3, <2>4, <2>5
<1> QED BY <1>4, <1>5

----------------------------------------------------------------------------
\* The loops of add_clock_time.

\* c is what is left of list after p turns of the loop over the sleeps.
Fired(list, c, p) ==
  /\ p \in 0..Len(list) /\ c.list \in Seq(Entries) /\ Len(c.list) = Len(list) - p
  /\ c.woken = {list[q].thread : q \in 1..p}
  /\ \A q \in 1..p : list[q].counter = 0 \/ list[q].thread \in timed
  /\ \A q \in 1..Len(c.list) :
       /\ c.list[q].thread = list[p + q].thread /\ c.list[q].abs = list[p + q].abs
       /\ c.list[q].stale = list[p + q].stale
       /\ \/ c.list[q].counter = list[p + q].counter
          \/ c.list[q].counter = 0 /\ list[p + q].thread \in c.woken \cap timed

\* One turn of the loop over the sleeps.
LEMMA FireSleepFires ==
  ASSUME NEW list \in Seq(Entries), NEW c, NEW p, Fired(list, c, p), SleepDue(c),
         Wide \in Nat \ {0}
  PROVE  Fired(list, FireSleep(c), p + 1)
<1> DEFINE rest == Tail(c.list)
           t == Head(c.list).thread
           new == Zeroed(rest, t)
<1>1. /\ p \in 0..Len(list) /\ c.list \in Seq(Entries) /\ Len(c.list) = Len(list) - p
      /\ c.woken = {list[q].thread : q \in 1..p}
      /\ \A q \in 1..p : list[q].counter = 0 \/ list[q].thread \in timed
  BY DEF Fired
<1>2. ASSUME NEW q \in 1..Len(c.list)
      PROVE  /\ c.list[q].thread = list[p + q].thread /\ c.list[q].abs = list[p + q].abs
             /\ c.list[q].stale = list[p + q].stale
             /\ \/ c.list[q].counter = list[p + q].counter
                \/ c.list[q].counter = 0 /\ list[p + q].thread \in c.woken \cap timed
  BY DEF Fired
<1>3. c.list # <<>> /\ Head(c.list).counter = 0
  BY DEF SleepDue
<1>4. /\ rest \in Seq(Entries) /\ Len(rest) = Len(c.list) - 1 /\ Head(c.list) = c.list[1]
      /\ \A q \in 1..Len(rest) : rest[q] = c.list[q + 1]
      /\ Len(c.list) \in Nat \ {0}
  BY <1>1, <1>3
<1>5. t = list[p + 1].thread /\ (list[p + 1].counter = 0 \/ t \in timed)
  BY <1>2, <1>3, <1>4
<1> HIDE DEF rest, t
<1>6. ZeroedAt(rest, new, t)
  BY <1>4, ZeroedZeroes
<1>7. /\ FireSleep(c).list = new /\ FireSleep(c).woken = c.woken \cup {t}
  BY DEF FireSleep, rest, t
<1> HIDE DEF new
<1>8. /\ p + 1 \in 0..Len(list) /\ new \in Seq(Entries) /\ Len(new) = Len(list) - (p + 1)
  BY <1>1, <1>4, <1>6 DEF ZeroedAt
<1>9. c.woken \cup {t} = {list[q].thread : q \in 1..(p + 1)}
  <2>1. 1..(p + 1) = 1..p \cup {p + 1}
    BY <1>1
  <2> QED BY <1>1, <1>5, <2>1
<1>10. \A q \in 1..(p + 1) : list[q].counter = 0 \/ list[q].thread \in timed
  <2>1. 1..(p + 1) = 1..p \cup {p + 1}
    BY <1>1
  <2> QED BY <1>1, <1>5, <2>1
<1>11. ASSUME NEW q \in 1..Len(new)
       PROVE  /\ new[q].thread = list[(p + 1) + q].thread /\ new[q].abs = list[(p + 1) + q].abs
              /\ new[q].stale = list[(p + 1) + q].stale
              /\ \/ new[q].counter = list[(p + 1) + q].counter
                 \/ new[q].counter = 0 /\ list[(p + 1) + q].thread \in (c.woken \cup {t}) \cap timed
  <2>1. /\ q + 1 \in 1..Len(c.list) /\ (p + 1) + q = p + (q + 1) /\ q \in 1..Len(rest)
    <3> DEFINE k == Len(c.list)
               m == Len(rest)
               o == Len(new)
    <3>1. k \in Nat /\ k # 0 /\ m = k - 1
      BY <1>4
    <3>2. o = m
      BY <1>6 DEF ZeroedAt
    <3>3. p \in 0..Len(list) /\ Len(list) \in Nat
      BY <1>1
    <3>4. p \in Nat
      BY <3>3
    <3>5. q \in 1..o
      OBVIOUS
    <3> HIDE DEF k, m, o
    <3>6. q \in Nat /\ q \in 1..m /\ q + 1 \in 1..k
      BY <3>1, <3>2, <3>5
    <3>7. (p + 1) + q = p + (q + 1)
      BY <3>4, <3>6
    <3> QED BY <3>6, <3>7 DEF k, m
  <2>2. rest[q] = c.list[q + 1]
    BY <1>4, <2>1
  <2>3. /\ new[q].thread = rest[q].thread /\ new[q].abs = rest[q].abs
        /\ new[q].stale = rest[q].stale
        /\ \/ new[q].counter = rest[q].counter
           \/ new[q].counter = 0 /\ rest[q].thread = t /\ t \in timed
    BY <1>6, <2>1 DEF ZeroedAt
  <2>4. PICK m : m = q + 1
    OBVIOUS
  <2>5. /\ c.list[m].thread = list[p + m].thread /\ c.list[m].abs = list[p + m].abs
        /\ c.list[m].stale = list[p + m].stale
        /\ \/ c.list[m].counter = list[p + m].counter
           \/ c.list[m].counter = 0 /\ list[p + m].thread \in c.woken \cap timed
    BY <1>2, <2>1, <2>4
  <2>6. rest[q] = c.list[m] /\ (p + 1) + q = p + m
    BY <2>1, <2>2, <2>4
  <2> QED BY <2>3, <2>5, <2>6
<1> QED BY <1>7, <1>8, <1>9, <1>10, <1>11 DEF Fired

\* The loop over the sleeps takes entries off the head until one still counts.
LEMMA FireSleepsFires ==
  ASSUME NEW list \in Seq(Entries), Wide \in Nat \ {0}
  PROVE  \E p \in 0..Len(list) :
           /\ Fired(list, FireSleeps(list), p)
           /\ p < Len(list) => FireSleeps(list).list[1].counter # 0
<1> DEFINE c0 == [list |-> list, woken |-> {}]
           Rec(f, m) == f = [i \in 0..m |-> IF i = 0 THEN c0 ELSE SleepsTurn(f[i - 1])]
           n == Len(list)
           Undefined == {m \in Nat : ~ (\E f : Rec(f, m))}
<1>1. n \in Nat
  OBVIOUS
<1> HIDE DEF n
<1>2. Undefined = {}
  <2> SUFFICES ASSUME Undefined # {} PROVE FALSE
    OBVIOUS
  <2>1. PICK m \in Undefined : \A j \in Undefined : m <= j
    BY SmallestNumber
  <2>2. m \in Nat /\ ~ (\E f : Rec(f, m))
    BY <2>1
  <2>3. CASE m = 0
    <3>1. Rec([i \in 0..0 |-> c0], 0)
      OBVIOUS
    <3> QED BY <2>2, <2>3, <3>1
  <2>4. CASE m # 0
    <3>1. m - 1 \in Nat /\ ~ (m <= m - 1)
      BY <2>2, <2>4
    <3>2. m - 1 \notin Undefined
      BY <2>1, <3>1
    <3>3. PICK f : Rec(f, m - 1)
      BY <3>1, <3>2
    <3> DEFINE g == [i \in 0..m |-> IF i = 0 THEN c0 ELSE SleepsTurn(f[i - 1])]
    <3>4. ASSUME NEW j \in 0..(m - 1) PROVE g[j] = f[j]
      <4>1. j \in 0..m
        BY <2>2
      <4>2. g[j] = IF j = 0 THEN c0 ELSE SleepsTurn(f[j - 1])
        BY <4>1
      <4>3. f[j] = IF j = 0 THEN c0 ELSE SleepsTurn(f[j - 1])
        BY <3>3
      <4> QED BY <4>2, <4>3
    <3>5. ASSUME NEW i \in 0..m, i # 0 PROVE g[i - 1] = f[i - 1]
      <4>1. i - 1 \in 0..(m - 1)
        BY <2>2, <3>5
      <4> QED BY <3>4, <4>1
    <3>6. Rec(g, m)
      BY <3>5
    <3> QED BY <2>2, <3>6
  <2> QED BY <2>3, <2>4
<1>3. PICK f : FireSleeps(list) = f[n] /\ Rec(f, n)
  <2>1. \E f : Rec(f, n)
    BY <1>1, <1>2
  <2>2. Rec(CHOOSE f : Rec(f, n), n)
    BY <2>1
  <2>3. FireSleeps(list) = (CHOOSE f : Rec(f, n))[n]
    BY DEF FireSleeps, n
  <2> QED BY <2>2, <2>3
<1> DEFINE Reached(i) == \E p \in 0..n : /\ Fired(list, f[i], p)
                                         /\ p = i \/ ~SleepDue(f[i])
           Unreached == {i \in 0..n : ~Reached(i)}
<1>4. Unreached = {}
  <2> SUFFICES ASSUME Unreached # {} PROVE FALSE
    OBVIOUS
  <2>1. PICK i \in Unreached : \A j \in Unreached : i <= j
    <3>1. Unreached \subseteq Nat
      BY <1>1
    <3> HIDE DEF Unreached
    <3> QED BY <3>1, SmallestNumber
  <2>2. i \in Nat /\ i \in 0..n /\ ~Reached(i)
    BY <1>1, <2>1
  <2>3. f[i] = IF i = 0 THEN c0 ELSE SleepsTurn(f[i - 1])
    BY <1>3, <2>2
  <2>4. CASE i = 0
    <3>1. Fired(list, c0, 0)
      BY DEF Fired
    <3>2. 0 \in 0..n
      BY <1>1
    <3> QED BY <2>2, <2>3, <2>4, <3>1, <3>2
  <2>5. CASE i # 0
    <3>1. i - 1 \in 0..n /\ ~ (i <= i - 1)
      BY <1>1, <2>2, <2>5
    <3>2. Reached(i - 1)
      BY <2>1, <3>1
    <3>3. PICK c : c = f[i - 1]
      OBVIOUS
    <3>4. PICK p \in 0..n : Fired(list, c, p) /\ (p = i - 1 \/ ~SleepDue(c))
      BY <3>2, <3>3
    <3>5. f[i] = SleepsTurn(c)
      BY <2>3, <2>5, <3>3
    <3>6. CASE SleepDue(c)
      <4>1. f[i] = FireSleep(c) /\ p = i - 1
        BY <3>4, <3>5, <3>6 DEF SleepsTurn
      <4>2. Fired(list, f[i], p + 1)
        BY <3>4, <3>6, <4>1, FireSleepFires
      <4>3. p + 1 = i
        BY <2>2, <4>1
      <4> QED BY <2>2, <4>2, <4>3
    <3>7. CASE ~SleepDue(c)
      <4>1. f[i] = c
        BY <3>5, <3>7 DEF SleepsTurn
      <4> QED BY <2>2, <3>4, <3>7, <4>1
    <3> QED BY <3>6, <3>7
  <2> QED BY <2>4, <2>5
<1>5. PICK p \in 0..n : Fired(list, f[n], p) /\ (p = n \/ ~SleepDue(f[n]))
  <2>1. Reached(n)
    BY <1>1, <1>4
  <2> QED BY <2>1
<1>6. PICK c : c = FireSleeps(list)
  OBVIOUS
<1>7. Fired(list, c, p) /\ (p = n \/ ~SleepDue(c))
  BY <1>3, <1>5, <1>6
<1>8. p < n => c.list[1].counter # 0
  <2> SUFFICES ASSUME p < n PROVE c.list[1].counter # 0
    OBVIOUS
  <2>1. c.list \in Seq(Entries) /\ Len(c.list) = Len(list) - p
    BY <1>7 DEF Fired
  <2>2. Len(c.list) # 0
    BY <1>1, <2>1 DEF n
  <2>3. c.list # <<>> /\ Head(c.list) = c.list[1]
    BY <2>1, <2>2
  <2> QED BY <1>1, <1>7, <2>3 DEF SleepDue
<1> QED BY <1>6, <1>7, <1>8 DEF n

----------------------------------------------------------------------------
\* The inductive invariant of the sleeps.

\* Every deadline lies within the range of the counters.
InRange == \A n \in Delays \cup Offsets : n < Wide

\* A thread is in one sleep at most.
Single(list) ==
  \A i, j \in 1..Len(list) :
    list[i].thread = list[j].thread /\ ~list[i].stale /\ ~list[j].stale => i = j

\* The counters ascend, but for those that a wake-up has zeroed.
Ascending(list) ==
  \A i, j \in 1..Len(list) :
    i < j => list[j].counter = 0 \/ list[i].counter <= list[j].counter

\* Who is awake has no entry but stale ones.
AwakeFits(list, t) ==
  at[t] \in {"user", "done"} =>
    t \notin timed \cup owed \cup back /\ \A i \in 1..Len(list) : ~IsMine(list, t, i)

\* Who left an entry behind was signalled, and so leaves every later sleep too.
StaleFits(list, t) ==
  \A i \in 1..Len(list) : list[i].thread = t /\ list[i].stale => t \in signalled

\* Whose timed wait was woken finds his counter at zero, or is signalled.
OwedFits(list, t) ==
  t \in owed =>
    /\ t \in timed /\ at[t] = "woken"
    /\ t \in signalled \/ \A i \in 1..Len(list) : IsMine(list, t, i) => list[i].counter = 0

\* A counter that runs does not run longer than the sleep, and a sleeper has one.
CounterFits(list, t) ==
  ~jumped =>
    /\ \A i \in 1..Len(list) :
         IsMine(list, t, i) /\ list[i].counter > 0 =>
           left[t] # 0 /\ (left[t] > 0 => list[i].counter <= left[t])
    /\ at[t] = "asleep" => \E i \in 1..Len(list) : IsMine(list, t, i) /\ list[i].counter > 0

\* Nor shorter.
DeadlineFits(list, t) ==
  /\ InRange /\ t \notin timed \cup signalled \cup back
  /\ at[t] \in {"asleep", "woken"} /\ left[t] > 0
  => \E i \in 1..Len(list) : IsMine(list, t, i) /\ list[i].counter = left[t]

Fits(list, t) == /\ AwakeFits(list, t) /\ StaleFits(list, t) /\ OwedFits(list, t)
                 /\ CounterFits(list, t) /\ DeadlineFits(list, t)

SleepTypes ==
  /\ sleeps \in Seq(Entries)
  /\ at \in [Sleepers -> {"user", "asleep", "woken", "done"}]
  /\ timed \subseteq Sleepers /\ signalled \subseteq Sleepers
  /\ left \in [Sleepers -> Int]
  /\ owed \subseteq Sleepers /\ back \subseteq Sleepers /\ jumped \in BOOLEAN

SleepInv ==
  /\ SleepTypes /\ Single(sleeps) /\ (~jumped => Ascending(sleeps))
  /\ \A t \in Sleepers : Fits(sleeps, t)

----------------------------------------------------------------------------
\* What changes one sleep leaves the others alone.

\* r has the entries of u that list has.
SameEntries(list, r, u) ==
  /\ \A i \in 1..Len(list) : list[i].thread = u => \E j \in 1..Len(r) : r[j] = list[i]
  /\ \A j \in 1..Len(r) : r[j].thread = u => \E i \in 1..Len(list) : list[i] = r[j]

LeavesAlone(u) ==
  /\ at'[u] = at[u] /\ left'[u] = left[u]
  /\ u \in timed' <=> u \in timed
  /\ u \in signalled' <=> u \in signalled
  /\ u \in owed' <=> u \in owed
  /\ u \in back' <=> u \in back
  /\ jumped' = jumped

\* A thread that a step leaves alone, with its entries, stays as it was.
LEMMA OthersFit ==
  ASSUME NEW u, Fits(sleeps, u), LeavesAlone(u), SameEntries(sleeps, sleeps', u)
  PROVE  Fits(sleeps, u)'
<1>1. AwakeFits(sleeps, u)'
  BY DEF Fits, AwakeFits, LeavesAlone, SameEntries, IsMine
<1>2. StaleFits(sleeps, u)'
  BY DEF Fits, StaleFits, LeavesAlone, SameEntries
<1>3. OwedFits(sleeps, u)'
  BY DEF Fits, OwedFits, LeavesAlone, SameEntries, IsMine
<1>4. CounterFits(sleeps, u)'
  <2> SUFFICES ASSUME ~jumped
               PROVE  /\ \A i \in 1..Len(sleeps') :
                           IsMine(sleeps', u, i) /\ sleeps'[i].counter > 0 =>
                             left'[u] # 0 /\ (left'[u] > 0 => sleeps'[i].counter <= left'[u])
                      /\ at'[u] = "asleep" => \E i \in 1..Len(sleeps') :
                           IsMine(sleeps', u, i) /\ sleeps'[i].counter > 0
    BY DEF CounterFits, LeavesAlone, IsMine
  <2> QED BY DEF Fits, CounterFits, LeavesAlone, SameEntries, IsMine
<1>5. DeadlineFits(sleeps, u)'
  BY DEF Fits, DeadlineFits, LeavesAlone, SameEntries, IsMine, InRange
<1> QED BY <1>1, <1>2, <1>3, <1>4, <1>5 DEF Fits

\* r is list with some entries taken out and some counters zeroed.
Thinned(list, r) ==
  \E f \in [1..Len(r) -> 1..Len(list)] :
    /\ \A i, j \in 1..Len(r) : i < j => f[i] < f[j]
    /\ \A i \in 1..Len(r) :
         /\ r[i].thread = list[f[i]].thread
         /\ ~r[i].stale => ~list[f[i]].stale
         /\ r[i].counter \in {list[f[i]].counter, 0}

\* What the fields of an entry are.
LEMMA EntryFields ==
  ASSUME NEW list \in Seq(Entries), NEW i \in 1..Len(list)
  PROVE  /\ list[i] \in Entries
         /\ list[i].thread \in Sleepers /\ list[i].counter \in 0..(Wide - 1)
         /\ list[i].counter \in Nat
         /\ list[i].abs \in BOOLEAN /\ list[i].stale \in BOOLEAN
<1>1. list[i] \in Entries
  OBVIOUS
<1> QED BY <1>1, TimesAssumption DEF Entries

\* What is left of a list is in order, with one sleep for a thread.
LEMMA ThinnedKeeps ==
  ASSUME NEW list \in Seq(Entries), NEW r \in Seq(Entries), Thinned(list, r)
  PROVE  (Single(list) => Single(r)) /\ (Ascending(list) => Ascending(r))
<1>1. PICK f \in [1..Len(r) -> 1..Len(list)] :
        /\ \A i, j \in 1..Len(r) : i < j => f[i] < f[j]
        /\ \A i \in 1..Len(r) :
             /\ r[i].thread = list[f[i]].thread
             /\ ~r[i].stale => ~list[f[i]].stale
             /\ r[i].counter \in {list[f[i]].counter, 0}
  BY DEF Thinned
<1>2. ASSUME Single(list) PROVE Single(r)
  <2> SUFFICES ASSUME NEW i \in 1..Len(r), NEW j \in 1..Len(r),
                      r[i].thread = r[j].thread, ~r[i].stale, ~r[j].stale
               PROVE  i = j
    BY DEF Single
  <2>1. f[i] = f[j]
    BY <1>1, <1>2 DEF Single
  <2>2. ~ (i < j) /\ ~ (j < i)
    <3>1. f[i] \in Int /\ ~ (f[i] < f[i])
      OBVIOUS
    <3> QED BY <1>1, <2>1, <3>1
  <2> QED BY <2>2
<1>3. ASSUME Ascending(list) PROVE Ascending(r)
  <2> SUFFICES ASSUME NEW i \in 1..Len(r), NEW j \in 1..Len(r), i < j
               PROVE  r[j].counter = 0 \/ r[i].counter <= r[j].counter
    BY DEF Ascending
  <2>1. f[i] < f[j] /\ f[i] \in 1..Len(list) /\ f[j] \in 1..Len(list)
    BY <1>1
  <2>2. list[f[j]].counter = 0 \/ list[f[i]].counter <= list[f[j]].counter
    BY <1>3, <2>1 DEF Ascending
  <2>3. /\ r[i].counter \in {list[f[i]].counter, 0}
        /\ r[j].counter \in {list[f[j]].counter, 0}
    BY <1>1
  <2>4. list[f[j]].counter \in Nat /\ list[f[i]].counter \in Nat
    BY <2>1, EntryFields
  <2> QED BY <2>2, <2>3, <2>4
<1> QED BY <1>2, <1>3

\* Erasing an entry is such a change.
LEMMA RemovedThinned ==
  ASSUME NEW list, NEW r, NEW n, RemovedAt(list, r, n), Len(list) \in Nat
  PROVE  Thinned(list, r)
<1> DEFINE f == [i \in 1..Len(r) |-> IF i < n THEN i ELSE i + 1]
<1>1. f \in [1..Len(r) -> 1..Len(list)]
  BY DEF RemovedAt
<1>2. \A i, j \in 1..Len(r) : i < j => f[i] < f[j]
  BY DEF RemovedAt
<1>3. \A i \in 1..Len(r) : r[i] = list[f[i]]
  BY DEF RemovedAt
<1> HIDE DEF f
<1> QED BY <1>1, <1>2, <1>3 DEF Thinned

\* Zeroing one of its counters is such a change.
LEMMA ZeroedThinned ==
  ASSUME NEW list, NEW r, NEW t, ZeroedAt(list, r, t), Len(list) \in Nat
  PROVE  Thinned(list, r)
<1> DEFINE f == [i \in 1..Len(r) |-> i]
<1>1. f \in [1..Len(r) -> 1..Len(list)] /\ \A i \in 1..Len(r) : f[i] = i
  BY DEF ZeroedAt
<1>2. \A i, j \in 1..Len(r) : i < j => f[i] < f[j]
  BY <1>1
<1>3. \A i \in 1..Len(r) :
        /\ r[i].thread = list[f[i]].thread
        /\ ~r[i].stale => ~list[f[i]].stale
        /\ r[i].counter \in {list[f[i]].counter, 0}
  BY <1>1 DEF ZeroedAt
<1> HIDE DEF f
<1> QED BY <1>1, <1>2, <1>3 DEF Thinned

\* An entry that is put in is no matter to other threads.
LEMMA InsertedSame ==
  ASSUME NEW list, NEW r, NEW e, NEW n, NEW u, InsertedAt(list, r, e, n), Len(list) \in Nat,
         e.thread # u
  PROVE  SameEntries(list, r, u)
<1>1. ASSUME NEW i \in 1..Len(list) PROVE \E j \in 1..Len(r) : r[j] = list[i]
  <2>1. CASE i < n
    <3>1. i \in 1..Len(r) /\ r[i] = list[i]
      BY <2>1 DEF InsertedAt
    <3> QED BY <3>1
  <2>2. CASE ~(i < n)
    <3>1. i + 1 \in 1..Len(r) /\ r[i + 1] = list[i]
      BY <2>2 DEF InsertedAt
    <3> QED BY <3>1
  <2> QED BY <2>1, <2>2
<1>2. ASSUME NEW j \in 1..Len(r), r[j].thread = u PROVE \E i \in 1..Len(list) : list[i] = r[j]
  <2>1. CASE j < n
    <3>1. j \in 1..Len(list) /\ r[j] = list[j]
      BY <2>1 DEF InsertedAt
    <3> QED BY <3>1
  <2>2. CASE ~(j < n)
    <3>1. j - 1 \in 1..Len(list) /\ r[j] = list[j - 1]
      BY <2>2, <1>2 DEF InsertedAt
    <3> QED BY <3>1
  <2> QED BY <2>1, <2>2
<1> QED BY <1>1, <1>2 DEF SameEntries

\* The same of an entry that leaves.
LEMMA RemovedSame ==
  ASSUME NEW list, NEW r, NEW n, NEW u, RemovedAt(list, r, n), Len(list) \in Nat,
         list[n].thread # u
  PROVE  SameEntries(list, r, u)
<1>1. ASSUME NEW i \in 1..Len(list), list[i].thread = u PROVE \E j \in 1..Len(r) : r[j] = list[i]
  <2>1. CASE i < n
    <3>1. i \in 1..Len(r) /\ r[i] = list[i]
      BY <2>1 DEF RemovedAt
    <3> QED BY <3>1
  <2>2. CASE ~(i < n)
    <3>1. i - 1 \in 1..Len(r) /\ r[i - 1] = list[i]
      BY <2>2, <1>1 DEF RemovedAt
    <3> QED BY <3>1
  <2> QED BY <2>1, <2>2
<1>2. ASSUME NEW j \in 1..Len(r) PROVE \E i \in 1..Len(list) : list[i] = r[j]
  <2>1. CASE j < n
    <3>1. j \in 1..Len(list) /\ r[j] = list[j]
      BY <2>1 DEF RemovedAt
    <3> QED BY <3>1
  <2>2. CASE ~(j < n)
    <3>1. j + 1 \in 1..Len(list) /\ r[j] = list[j + 1]
      BY <2>2 DEF RemovedAt
    <3> QED BY <3>1
  <2> QED BY <2>1, <2>2
<1> QED BY <1>1, <1>2 DEF SameEntries

\* The same of an entry that is zeroed.
LEMMA ZeroedSame ==
  ASSUME NEW list, NEW r, NEW t, NEW u, ZeroedAt(list, r, t), u # t
  PROVE  SameEntries(list, r, u)
BY DEF ZeroedAt, SameEntries

\* A step that concerns one thread needs a look at that thread alone.
LEMMA OneSleep ==
  ASSUME SleepInv, NEW t \in Sleepers,
         SleepTypes', Single(sleeps'), ~jumped => Ascending(sleeps'), jumped' = jumped,
         \A u \in Sleepers \ {t} : LeavesAlone(u) /\ SameEntries(sleeps, sleeps', u),
         AwakeFits(sleeps, t)', StaleFits(sleeps, t)', OwedFits(sleeps, t)',
         CounterFits(sleeps, t)', DeadlineFits(sleeps, t)'
  PROVE  SleepInv'
<1>1. Fits(sleeps, t)'
  BY DEF Fits
<1>2. \A u \in Sleepers \ {t} : Fits(sleeps, u)'
  BY OthersFit DEF SleepInv
<1>3. Single(sleeps)' /\ (~jumped => Ascending(sleeps))'
  BY DEF Single, Ascending
<1> QED BY <1>1, <1>2, <1>3 DEF SleepInv

\* The counter of a new entry: an unsigned n.
LEMMA CounterOf ==
  ASSUME NEW n \in Int
  PROVE  /\ n % Wide \in 0..(Wide - 1)
         /\ n = 0 => n % Wide = 0
         /\ n > 0 => n % Wide <= n
         /\ n \in 0..(Wide - 1) => n % Wide = n
BY TimesAssumption

\* place_sleep: the place is behind all that end sooner.
LEMMA PlaceIsFound ==
  ASSUME NEW list \in Seq(Entries), NEW c \in Nat, NEW i,
         i = SelectInSeq(list, LAMBDA f : f.counter >= c)
  PROVE  /\ i \in 0..Len(list)
         /\ i = 0 => \A j \in 1..Len(list) : list[j].counter < c
         /\ i # 0 => list[i].counter >= c /\ \A j \in 1..(i - 1) : list[j].counter < c
<1> DEFINE I == {j \in 1..Len(list) : list[j].counter >= c}
<1>1. i = IF I # {} THEN Min(I) ELSE 0
  BY DEF SelectInSeq
<1>2. I \subseteq Nat /\ Len(list) \in Nat
  OBVIOUS
<1>3. \A j \in 1..Len(list) : j \notin I => list[j].counter < c
  BY EntryFields
<1>4. CASE I = {}
  <2>1. i = 0
    BY <1>1, <1>4
  <2>2. \A j \in 1..Len(list) : j \notin I
    BY <1>4
  <2> HIDE DEF I
  <2>3. \A j \in 1..Len(list) : list[j].counter < c
    BY <1>3, <2>2
  <2> QED BY <1>2, <2>1, <2>3
<1>5. CASE I # {}
  <2>1. i \in I /\ \A j \in I : i <= j
    <3> HIDE DEF I
    <3> QED BY <1>1, <1>2, <1>5, MinIsIn
  <2>2. i \in 1..Len(list) /\ list[i].counter >= c /\ i # 0
    BY <2>1
  <2> HIDE DEF I
  <2>3. ASSUME NEW j \in 1..(i - 1) PROVE list[j].counter < c
    <3>1. j \in 1..Len(list) /\ ~ (i <= j)
      BY <1>2, <2>2
    <3>2. j \notin I
      BY <2>1, <3>1
    <3> QED BY <1>3, <3>1, <3>2
  <2>4. i \in 0..Len(list)
    BY <1>2, <2>2
  <2>5. i # 0 => list[i].counter >= c /\ \A j \in 1..(i - 1) : list[j].counter < c
    BY <2>2, <2>3
  <2> QED BY <2>2, <2>4, <2>5
<1> QED BY <1>4, <1>5

\* A step on timers leaves the sleeps alone.
LEMMA SleepsStay ==
  ASSUME SleepInv, sleeps' = sleeps, at' = at, timed' = timed, signalled' = signalled,
         left' = left, owed' = owed, back' = back, jumped' = jumped
  PROVE  SleepInv'
<1>1. SleepTypes' /\ Single(sleeps)' /\ (~jumped => Ascending(sleeps))'
  BY DEF SleepInv, SleepTypes, Single, Ascending
<1>2. \A t \in Sleepers : Fits(sleeps, t)'
  BY DEF SleepInv, Fits, AwakeFits, StaleFits, OwedFits, CounterFits, DeadlineFits, IsMine
<1> QED BY <1>1, <1>2 DEF SleepInv

\* place_sleep keeps the counters in order.
LEMMA PlaceSleepPuts ==
  ASSUME sleeps \in Seq(Entries), NEW e \in Entries
  PROVE  \E k : /\ PlaceSleep(e) \in Seq(Entries)
                /\ InsertedAt(sleeps, PlaceSleep(e), e, k)
                /\ Ascending(sleeps) /\ e.counter > 0 => Ascending(PlaceSleep(e))
<1>1. PICK i : i = SelectInSeq(sleeps, LAMBDA f : f.counter >= e.counter)
  OBVIOUS
<1>2. PICK c : c = e.counter
  OBVIOUS
<1>3. c \in Nat
  BY <1>2, TimesAssumption DEF Entries
<1>4. /\ i \in 0..Len(sleeps)
      /\ i = 0 => \A j \in 1..Len(sleeps) : sleeps[j].counter < c
      /\ i # 0 => sleeps[i].counter >= c /\ \A j \in 1..(i - 1) : sleeps[j].counter < c
  <2>1. i = SelectInSeq(sleeps, LAMBDA f : f.counter >= c)
    BY <1>1, <1>2
  <2> QED BY <1>3, <2>1, PlaceIsFound
<1>5. PICK r : r = PlaceSleep(e)
  OBVIOUS
<1> DEFINE k == IF i = 0 THEN Len(sleeps) + 1 ELSE i
<1>6. r \in Seq(Entries) /\ InsertedAt(sleeps, r, e, k)
  <2>1. r = Insert(sleeps, e, i)
    BY <1>1, <1>5 DEF PlaceSleep
  <2> QED BY <1>4, <2>1, InsertPuts
<1>7. /\ k \in 1..(Len(sleeps) + 1) /\ Len(sleeps) \in Nat
      /\ \A j \in 1..(k - 1) : sleeps[j].counter < c
      /\ k <= Len(sleeps) => sleeps[k].counter >= c
  <2>1. Len(sleeps) \in Nat
    OBVIOUS
  <2>2. CASE i = 0
    <3>1. k = Len(sleeps) + 1
      BY <2>2
    <3> HIDE DEF k
    <3>2. \A j \in 1..(k - 1) : sleeps[j].counter < c
      BY <1>4, <2>1, <2>2, <3>1
    <3> QED BY <2>1, <3>1, <3>2
  <2>3. CASE i # 0
    <3>1. k = i
      BY <2>3
    <3> HIDE DEF k
    <3>2. \A j \in 1..(k - 1) : sleeps[j].counter < c
      BY <1>4, <2>3, <3>1
    <3>3. sleeps[k].counter >= c
      BY <1>4, <2>3, <3>1
    <3>4. k \in 1..(Len(sleeps) + 1)
      BY <1>4, <2>1, <2>3, <3>1
    <3> QED BY <2>1, <3>2, <3>3, <3>4
  <2> QED BY <2>2, <2>3
<1> HIDE DEF k
<1>8. ASSUME Ascending(sleeps), c > 0, NEW i1 \in 1..Len(r), NEW j1 \in 1..Len(r), i1 < j1
      PROVE  r[j1].counter = 0 \/ r[i1].counter <= r[j1].counter
  <2>1. /\ r[i1] = IF i1 < k THEN sleeps[i1] ELSE IF i1 = k THEN e ELSE sleeps[i1 - 1]
        /\ r[j1] = IF j1 < k THEN sleeps[j1] ELSE IF j1 = k THEN e ELSE sleeps[j1 - 1]
        /\ Len(r) = Len(sleeps) + 1
    BY <1>6 DEF InsertedAt
  <2>2. \A x, y \in 1..Len(sleeps) :
          x < y => sleeps[y].counter = 0 \/ sleeps[x].counter <= sleeps[y].counter
    BY <1>8 DEF Ascending
  <2>3. \A x \in 1..Len(sleeps) : sleeps[x].counter \in Nat
    BY EntryFields
  <2>4. CASE j1 < k
    <3>1. i1 \in 1..Len(sleeps) /\ j1 \in 1..Len(sleeps) /\ i1 < k
      BY <1>7, <2>1, <2>4, <1>8
    <3>2. r[i1] = sleeps[i1] /\ r[j1] = sleeps[j1]
      BY <2>1, <2>4, <3>1
    <3> QED BY <1>8, <2>2, <3>1, <3>2
  <2>5. CASE j1 = k
    <3>1. i1 \in 1..(k - 1) /\ i1 < k /\ ~ (j1 < k) /\ i1 \in 1..Len(sleeps)
      BY <1>7, <1>8, <2>5
    <3>2. r[i1] = sleeps[i1] /\ r[j1] = e
      BY <2>1, <2>5, <3>1
    <3>3. sleeps[i1].counter < c
      BY <1>7, <3>1
    <3>4. sleeps[i1].counter \in Nat
      BY <2>3, <3>1
    <3> QED BY <1>2, <1>3, <3>2, <3>3, <3>4
  <2>6. CASE j1 > k
    <3>1. /\ j1 - 1 \in 1..Len(sleeps) /\ ~ (j1 < k) /\ j1 # k
      BY <1>7, <2>1, <2>6
    <3>2. PICK y : y = j1 - 1
      OBVIOUS
    <3>3. r[j1] = sleeps[y] /\ y \in 1..Len(sleeps) /\ y >= k /\ k <= Len(sleeps)
      BY <1>7, <2>1, <2>6, <3>1, <3>2
    <3>4. CASE i1 < k
      <4>1. r[i1] = sleeps[i1] /\ i1 \in 1..Len(sleeps) /\ i1 < y
        BY <1>7, <2>1, <3>3, <3>4
      <4> QED BY <2>2, <3>3, <4>1
    <3>5. CASE i1 = k
      <4>1. r[i1] = e /\ sleeps[k].counter >= c
        BY <1>7, <2>1, <3>3, <3>5
      <4>2. y = k \/ (k \in 1..Len(sleeps) /\ k < y)
        BY <1>7, <3>3
      <4>3. sleeps[y].counter = 0 \/ sleeps[y].counter >= c
        <5>1. CASE y = k
          BY <4>1, <5>1
        <5>2. CASE k \in 1..Len(sleeps) /\ k < y
          <6>1. sleeps[y].counter = 0 \/ sleeps[k].counter <= sleeps[y].counter
            BY <2>2, <3>3, <5>2
          <6>2. sleeps[y].counter \in Nat /\ sleeps[k].counter \in Nat
            BY <2>3, <3>3, <5>2
          <6> QED BY <1>3, <4>1, <6>1, <6>2
        <5> QED BY <4>2, <5>1, <5>2
      <4>4. sleeps[y].counter \in Nat
        BY <2>3, <3>3
      <4> QED BY <1>2, <1>3, <3>3, <4>1, <4>3, <4>4
    <3>6. CASE i1 > k
      <4>1. i1 - 1 \in 1..Len(sleeps) /\ i1 - 1 < y /\ ~ (i1 < k) /\ i1 # k
        BY <1>7, <1>8, <2>1, <3>2, <3>6
      <4>2. r[i1] = sleeps[i1 - 1]
        BY <2>1, <4>1
      <4> QED BY <2>2, <3>3, <4>1, <4>2
    <3> QED BY <1>7, <3>4, <3>5, <3>6
  <2> QED BY <1>7, <2>4, <2>5, <2>6
<1>9. Ascending(sleeps) /\ c > 0 => Ascending(r)
  BY <1>8 DEF Ascending
<1> QED BY <1>2, <1>5, <1>6, <1>9

\* clock_nanosleep and the timed wait, up to block().
LEMMA SleepKeeps ==
  ASSUME SleepInv, NEW t \in Sleepers, NEW n \in Delays \cup Offsets, NEW abs \in BOOLEAN, NEW wait \in BOOLEAN,
         Sleep(t, n, abs, wait)
  PROVE  SleepInv'
<1> DEFINE e == Entry(t, abs, n % Wide)
<1> n \in Int
  BY TimesAssumption
<1>1. /\ e \in Entries /\ e.thread = t /\ e.counter = n % Wide /\ e.stale = FALSE
      /\ e.counter \in Nat
  BY CounterOf DEF Entry, Entries
<1>2. SleepTypes
  BY DEF SleepInv
<1>3. CASE e.counter = 0
  BY <1>3, SleepsStay DEF Sleep
<1>4. CASE e.counter # 0
  <2>1. /\ at[t] = "user" /\ sleeps' = PlaceSleep(e) /\ at' = [at EXCEPT ![t] = "asleep"]
        /\ timed' = IF wait THEN timed \cup {t} ELSE timed
        /\ left' = [left EXCEPT ![t] = n]
        /\ signalled' = signalled /\ owed' = owed /\ back' = back /\ jumped' = jumped
    BY <1>4 DEF Sleep
  <2> HIDE DEF e
  <2>2. PICK k : /\ sleeps' \in Seq(Entries) /\ InsertedAt(sleeps, sleeps', e, k)
                 /\ Ascending(sleeps) /\ e.counter > 0 => Ascending(sleeps')
    BY <1>1, <1>2, <2>1, PlaceSleepPuts DEF SleepTypes
  <2>3. Fits(sleeps, t)
    BY DEF SleepInv
  <2>4. t \notin timed \cup owed \cup back /\ \A i \in 1..Len(sleeps) : ~IsMine(sleeps, t, i)
    BY <2>1, <2>3 DEF Fits, AwakeFits
  <2>5. /\ k \in 1..Len(sleeps') /\ sleeps'[k] = e
        /\ \A j \in 1..Len(sleeps') :
             j # k => \E i \in 1..Len(sleeps) : sleeps'[j] = sleeps[i]
    <3>1. Len(sleeps) \in Nat
      BY <1>2 DEF SleepTypes
    <3>2. k \in 1..Len(sleeps') /\ sleeps'[k] = e
      BY <2>2, <3>1 DEF InsertedAt
    <3>3. ASSUME NEW j \in 1..Len(sleeps'), j # k
          PROVE  \E i \in 1..Len(sleeps) : sleeps'[j] = sleeps[i]
      <4>1. CASE j < k
        <5>1. j \in 1..Len(sleeps) /\ sleeps'[j] = sleeps[j]
          BY <2>2, <3>1, <4>1 DEF InsertedAt
        <5> QED BY <5>1
      <4>2. CASE ~ (j < k)
        <5>1. j - 1 \in 1..Len(sleeps) /\ sleeps'[j] = sleeps[j - 1]
          BY <2>2, <3>1, <3>3, <4>2 DEF InsertedAt
        <5> QED BY <5>1
      <4> QED BY <4>1, <4>2
    <3> QED BY <3>2, <3>3
  <2>6. \A j \in 1..Len(sleeps') : IsMine(sleeps', t, j) => j = k
    BY <2>4, <2>5 DEF IsMine
  <2>7. IsMine(sleeps', t, k)
    BY <1>1, <2>5 DEF IsMine
  <2>8. /\ n % Wide \in 0..(Wide - 1)
        /\ n = 0 => n % Wide = 0
        /\ n > 0 => n % Wide <= n
        /\ n \in 0..(Wide - 1) => n % Wide = n
    BY CounterOf
  <2>9. sleeps'[k].counter = n % Wide /\ sleeps'[k].counter > 0 /\ n # 0
    BY <1>1, <1>4, <2>5, <2>8
  <2>10. at'[t] = "asleep" /\ left'[t] = n
    BY <1>2, <2>1 DEF SleepTypes
  <2>11. SleepTypes'
    BY <1>2, <2>1, <2>2 DEF SleepTypes
  <2>12. Single(sleeps')
    <3> SUFFICES ASSUME NEW i \in 1..Len(sleeps'), NEW j \in 1..Len(sleeps'),
                        sleeps'[i].thread = sleeps'[j].thread,
                        ~sleeps'[i].stale, ~sleeps'[j].stale, i < j
                 PROVE  FALSE
      BY DEF Single
    <3>1. sleeps'[i].thread # t
      <4>1. sleeps'[i].thread = t => i = k /\ j = k
        BY <2>6 DEF IsMine
      <4> QED BY <4>1
    <3>2. i # k /\ j # k
      BY <1>1, <2>5, <3>1
    <3>3. PICK x \in 1..Len(sleeps) : sleeps[x] = sleeps'[i] /\ (x = i \/ x = i - 1) /\ (i < k <=> x = i)
      <4>1. Len(sleeps) \in Nat
        BY <1>2 DEF SleepTypes
      <4>2. CASE i < k
        <5>1. i \in 1..Len(sleeps) /\ sleeps'[i] = sleeps[i]
          BY <2>2, <4>1, <4>2 DEF InsertedAt
        <5> QED BY <4>2, <5>1
      <4>3. CASE ~ (i < k)
        <5>1. i - 1 \in 1..Len(sleeps) /\ sleeps'[i] = sleeps[i - 1] /\ i - 1 # i
          BY <2>2, <3>2, <4>1, <4>3 DEF InsertedAt
        <5> QED BY <4>3, <5>1
      <4> QED BY <4>2, <4>3
    <3>4. PICK y \in 1..Len(sleeps) : sleeps[y] = sleeps'[j] /\ (y = j \/ y = j - 1) /\ (j < k <=> y = j)
      <4>1. Len(sleeps) \in Nat
        BY <1>2 DEF SleepTypes
      <4>2. CASE j < k
        <5>1. j \in 1..Len(sleeps) /\ sleeps'[j] = sleeps[j]
          BY <2>2, <4>1, <4>2 DEF InsertedAt
        <5> QED BY <4>2, <5>1
      <4>3. CASE ~ (j < k)
        <5>1. j - 1 \in 1..Len(sleeps) /\ sleeps'[j] = sleeps[j - 1] /\ j - 1 # j
          BY <2>2, <3>2, <4>1, <4>3 DEF InsertedAt
        <5> QED BY <4>3, <5>1
      <4> QED BY <4>2, <4>3
    <3>5. x = y
      BY <3>3, <3>4 DEF SleepInv, Single
    <3>6. k \in Nat /\ i \in Nat /\ j \in Nat
      BY <2>5
    <3> QED BY <3>2, <3>3, <3>4, <3>5, <3>6
  <2>13. ~jumped => Ascending(sleeps')
    BY <1>1, <1>4, <2>2 DEF SleepInv
  <2>14. ASSUME NEW u \in Sleepers \ {t}
         PROVE  LeavesAlone(u) /\ SameEntries(sleeps, sleeps', u)
    <3>1. LeavesAlone(u)
      BY <1>2, <2>1 DEF SleepTypes, LeavesAlone
    <3>2. SameEntries(sleeps, sleeps', u)
      <4>1. Len(sleeps) \in Nat
        BY <1>2 DEF SleepTypes
      <4> QED BY <1>1, <2>2, <4>1, InsertedSame
    <3> QED BY <3>1, <3>2
  <2>15. AwakeFits(sleeps, t)'
    BY <2>10 DEF AwakeFits
  <2>16. StaleFits(sleeps, t)'
    <3> SUFFICES ASSUME NEW j \in 1..Len(sleeps'), sleeps'[j].thread = t, sleeps'[j].stale
                 PROVE  t \in signalled
      BY <2>1 DEF StaleFits
    <3>1. j # k
      BY <1>1, <2>5
    <3>2. PICK i \in 1..Len(sleeps) : sleeps'[j] = sleeps[i]
      BY <2>5, <3>1
    <3> QED BY <2>3, <3>2 DEF Fits, StaleFits
  <2>17. OwedFits(sleeps, t)'
    BY <2>1, <2>4 DEF OwedFits
  <2>18. CounterFits(sleeps, t)'
    <3>1. ASSUME NEW i \in 1..Len(sleeps'), IsMine(sleeps', t, i)
          PROVE  left'[t] # 0 /\ (left'[t] > 0 => sleeps'[i].counter <= left'[t])
      BY <2>6, <2>8, <2>9, <2>10, <3>1
    <3>2. \E i \in 1..Len(sleeps') : IsMine(sleeps', t, i) /\ sleeps'[i].counter > 0
      BY <2>5, <2>7, <2>9
    <3> QED BY <3>1, <3>2 DEF CounterFits, IsMine
  <2>19. DeadlineFits(sleeps, t)'
    <3> SUFFICES ASSUME InRange, n > 0 PROVE n % Wide = n
      BY <2>5, <2>7, <2>9, <2>10 DEF DeadlineFits, IsMine, InRange
    <3>1. n < Wide
      BY DEF InRange
    <3> QED BY <2>8, <3>1, TimesAssumption
  <2> QED BY <2>1, <2>11, <2>12, <2>13, <2>14, <2>15, <2>16, <2>17, <2>18, <2>19, OneSleep
<1> QED BY <1>3, <1>4

\* A thread that was woken, and leaves the call or sleeps again.
LEMMA TurnKeeps ==
  ASSUME SleepInv, NEW t \in Sleepers, Turn(t)
  PROVE  SleepInv'
<1>1. /\ at[t] = "woken" /\ signalled' = signalled /\ jumped' = jumped
  BY DEF Turn
<1>2. SleepTypes /\ Single(sleeps) /\ Fits(sleeps, t) /\ Len(sleeps) \in Nat
  BY DEF SleepInv, SleepTypes
<1>3. ASSUME Returns(t), sleeps' \in Seq(Entries), Thinned(sleeps, sleeps'),
             StaleFits(sleeps, t)',
             \A j \in 1..Len(sleeps') : ~IsMine(sleeps', t, j),
             \A u \in Sleepers \ {t} : SameEntries(sleeps, sleeps', u)
      PROVE  SleepInv'
  <2>1. /\ at' = [at EXCEPT ![t] = "user"] /\ left' = [left EXCEPT ![t] = 0]
        /\ timed' = timed \ {t} /\ owed' = owed \ {t} /\ back' = back \ {t}
    BY <1>3 DEF Returns, Leaves
  <2>2. SleepTypes'
    BY <1>1, <1>2, <1>3, <2>1 DEF SleepTypes
  <2>3. Single(sleeps') /\ (~jumped => Ascending(sleeps'))
    BY <1>2, <1>3, ThinnedKeeps DEF SleepInv, SleepTypes
  <2>4. \A u \in Sleepers \ {t} : LeavesAlone(u)
    BY <1>1, <1>2, <2>1 DEF SleepTypes, LeavesAlone
  <2>5. at'[t] = "user" /\ left'[t] = 0
    BY <1>2, <2>1 DEF SleepTypes
  <2>6. AwakeFits(sleeps, t)'
    BY <1>3, <2>1 DEF AwakeFits, IsMine
  <2>7. OwedFits(sleeps, t)'
    BY <2>1 DEF OwedFits
  <2>8. CounterFits(sleeps, t)'
    BY <1>3, <2>5 DEF CounterFits, IsMine
  <2>9. DeadlineFits(sleeps, t)'
    BY <2>5 DEF DeadlineFits
  <2> QED BY <1>1, <1>3, <2>2, <2>3, <2>4, <2>6, <2>7, <2>8, <2>9, OneSleep
<1>4. CASE /\ Interrupted(t) /\ Returns(t)
           /\ sleeps' = [i \in DOMAIN sleeps |->
                           IF sleeps[i].thread = t THEN [sleeps[i] EXCEPT !.stale = TRUE]
                           ELSE sleeps[i]]
  <2>1. DOMAIN sleeps = 1..Len(sleeps) /\ sleeps \in Seq(Entries)
    BY <1>2 DEF SleepTypes
  <2>2. ASSUME NEW i \in 1..Len(sleeps)
        PROVE  /\ sleeps'[i] \in Entries
               /\ sleeps'[i].thread = sleeps[i].thread
               /\ sleeps'[i].counter = sleeps[i].counter
               /\ sleeps[i].thread = t => sleeps'[i].stale
               /\ sleeps[i].thread # t => sleeps'[i] = sleeps[i]
    <3>1. sleeps[i] \in Entries
      BY <2>1
    <3>2. PICK f : f = sleeps[i]
      OBVIOUS
    <3>3. PICK g : g = [f EXCEPT !.stale = TRUE]
      OBVIOUS
    <3>4. /\ g \in Entries /\ g.thread = f.thread /\ g.counter = f.counter /\ g.stale = TRUE
      BY ONLY <3>1, <3>2, <3>3 DEF Entries
    <3>5. sleeps'[i] = IF f.thread = t THEN g ELSE f
      BY <1>4, <2>1, <3>2, <3>3
    <3> QED BY <3>1, <3>2, <3>4, <3>5
  <2>3. Len(sleeps') = Len(sleeps) /\ sleeps' \in Seq(Entries)
    <3>1. sleeps' \in [1..Len(sleeps) -> Entries]
      BY <1>4, <2>1, <2>2
    <3> QED BY <1>2, <3>1
  <2>4. Thinned(sleeps, sleeps')
    <3> DEFINE f == [i \in 1..Len(sleeps') |-> i]
    <3>1. f \in [1..Len(sleeps') -> 1..Len(sleeps)] /\ \A i \in 1..Len(sleeps') : f[i] = i
      BY <2>3
    <3>2. \A i, j \in 1..Len(sleeps') : i < j => f[i] < f[j]
      BY <3>1
    <3>3. ASSUME NEW i \in 1..Len(sleeps')
          PROVE  /\ sleeps'[i].thread = sleeps[i].thread
                 /\ ~sleeps'[i].stale => ~sleeps[i].stale
                 /\ sleeps'[i].counter \in {sleeps[i].counter, 0}
      <4>1. i \in 1..Len(sleeps)
        BY <2>3
      <4> QED BY <2>2, <4>1
    <3> HIDE DEF f
    <3> QED BY <3>1, <3>2, <3>3 DEF Thinned
  <2>5. \A j \in 1..Len(sleeps') : ~IsMine(sleeps', t, j)
    BY <2>2, <2>3 DEF IsMine
  <2>6. \A u \in Sleepers \ {t} : SameEntries(sleeps, sleeps', u)
    BY <2>2, <2>3 DEF SameEntries
  <2>7. StaleFits(sleeps, t)'
    BY <1>1, <1>4 DEF StaleFits, Interrupted
  <2> QED BY <1>3, <1>4, <2>3, <2>4, <2>5, <2>6, <2>7
<1>5. CASE /\ Counter(t) = 0 /\ Returns(t) /\ sleeps' = WithoutMine(t, sleeps)
  <2>1. \/ /\ \A i \in 1..Len(sleeps) : ~IsMine(sleeps, t, i)
           /\ sleeps' = sleeps
        \/ /\ Mine(t, sleeps) \in 1..Len(sleeps)
           /\ IsMine(sleeps, t, Mine(t, sleeps))
           /\ sleeps' \in Seq(Entries)
           /\ RemovedAt(sleeps, sleeps', Mine(t, sleeps))
    BY <1>2, <1>5, MineFinds DEF SleepTypes
  <2>2. CASE /\ \A i \in 1..Len(sleeps) : ~IsMine(sleeps, t, i)
             /\ sleeps' = sleeps
    <3>1. Thinned(sleeps, sleeps')
      <4> DEFINE f == [i \in 1..Len(sleeps) |-> i]
      <4>1. /\ f \in [1..Len(sleeps') -> 1..Len(sleeps)]
            /\ \A i \in 1..Len(sleeps') : f[i] = i
            /\ \A i, j \in 1..Len(sleeps') : i < j => f[i] < f[j]
        BY <1>2, <2>2
      <4> HIDE DEF f
      <4> QED BY <2>2, <4>1 DEF Thinned
    <3>2. StaleFits(sleeps, t)'
      BY <1>1, <1>2, <2>2 DEF Fits, StaleFits
    <3>3. \A u \in Sleepers \ {t} : SameEntries(sleeps, sleeps', u)
      BY <2>2 DEF SameEntries
    <3> QED BY <1>2, <1>3, <1>5, <2>2, <3>1, <3>2, <3>3 DEF SleepTypes, IsMine
  <2>3. CASE /\ Mine(t, sleeps) \in 1..Len(sleeps)
             /\ IsMine(sleeps, t, Mine(t, sleeps))
             /\ sleeps' \in Seq(Entries)
             /\ RemovedAt(sleeps, sleeps', Mine(t, sleeps))
    <3>1. PICK n \in 1..Len(sleeps) :
            IsMine(sleeps, t, n) /\ RemovedAt(sleeps, sleeps', n)
      BY <2>3
    <3>2. Thinned(sleeps, sleeps')
      BY <1>2, <3>1, RemovedThinned
    <3>3. ASSUME NEW j \in 1..Len(sleeps')
          PROVE  \E i \in 1..Len(sleeps) : i # n /\ sleeps'[j] = sleeps[i]
      <4>1. CASE j < n
        <5>1. j \in 1..Len(sleeps) /\ j # n /\ sleeps'[j] = sleeps[j]
          BY <1>2, <3>1, <4>1 DEF RemovedAt
        <5> QED BY <5>1
      <4>2. CASE ~ (j < n)
        <5>1. j + 1 \in 1..Len(sleeps) /\ j + 1 # n /\ sleeps'[j] = sleeps[j + 1]
          BY <1>2, <3>1, <4>2 DEF RemovedAt
        <5> QED BY <5>1
      <4> QED BY <4>1, <4>2
    <3>4. \A j \in 1..Len(sleeps') : ~IsMine(sleeps', t, j)
      BY <1>2, <3>1, <3>3 DEF Single, IsMine
    <3>5. \A u \in Sleepers \ {t} : SameEntries(sleeps, sleeps', u)
      <4>1. sleeps[n].thread = t
        BY <3>1 DEF IsMine
      <4> QED BY <1>2, <3>1, <4>1, RemovedSame
    <3>6. StaleFits(sleeps, t)'
      BY <1>1, <1>2, <3>3 DEF Fits, StaleFits
    <3> QED BY <1>3, <1>5, <2>3, <3>2, <3>4, <3>5, <3>6
  <2> QED BY <2>1, <2>2, <2>3
<1>6. CASE /\ ~Interrupted(t) /\ Counter(t) > 0 /\ at' = [at EXCEPT ![t] = "asleep"]
           /\ UNCHANGED <<sleeps, timed, owed, back, left>>
  <2>1. PICK n \in 1..Len(sleeps) : IsMine(sleeps, t, n) /\ sleeps[n].counter > 0
    <3>1. Mine(t, sleeps) # 0 /\ sleeps[Mine(t, sleeps)].counter > 0
      BY <1>6 DEF Counter
    <3> QED BY <1>2, <3>1, MineFinds DEF SleepTypes
  <2>2. t \notin owed
    <3>1. t \notin signalled
      BY <1>6 DEF Interrupted
    <3> QED BY <1>2, <2>1, <3>1 DEF Fits, OwedFits
  <2>3. SleepTypes' /\ at'[t] = "asleep"
    BY <1>1, <1>2, <1>6 DEF SleepTypes
  <2>4. Single(sleeps') /\ (~jumped => Ascending(sleeps'))
    BY <1>6 DEF SleepInv
  <2>5. \A u \in Sleepers \ {t} : LeavesAlone(u) /\ SameEntries(sleeps, sleeps', u)
    BY <1>1, <1>2, <1>6 DEF SleepTypes, LeavesAlone, SameEntries
  <2>6. AwakeFits(sleeps, t)' /\ OwedFits(sleeps, t)'
    BY <1>6, <2>2, <2>3 DEF AwakeFits, OwedFits
  <2>7. StaleFits(sleeps, t)'
    BY <1>1, <1>2, <1>6 DEF Fits, StaleFits
  <2>8. CounterFits(sleeps, t)'
    BY <1>1, <1>2, <1>6, <2>1 DEF Fits, CounterFits, IsMine
  <2>9. DeadlineFits(sleeps, t)'
    BY <1>1, <1>2, <1>6 DEF Fits, DeadlineFits, IsMine, InRange
  <2> QED BY <1>1, <2>3, <2>4, <2>5, <2>6, <2>7, <2>8, <2>9, OneSleep
<1> QED BY <1>4, <1>5, <1>6 DEF Turn

\* unblock by anything but this clock, and by a signal.
LEMMA UnblockKeeps ==
  ASSUME SleepInv, NEW t \in Sleepers, Unblock(t) \/ Signal(t)
  PROVE  SleepInv'
<1>1. /\ sleeps' = Zeroed(sleeps, t) /\ at' = Roused({t}) /\ timed' = timed /\ left' = left
      /\ back' = back /\ jumped' = jumped /\ signalled' \in {signalled, signalled \cup {t}}
      /\ owed' \in {owed, owed \cup {t}}
  BY DEF Unblock, Signal
<1>2. SleepTypes /\ Single(sleeps) /\ Fits(sleeps, t) /\ Len(sleeps) \in Nat
  BY DEF SleepInv, SleepTypes
<1>3. ZeroedAt(sleeps, sleeps', t)
  BY <1>1, <1>2, ZeroedZeroes, TimesAssumption DEF SleepTypes
<1>4. \A u \in Sleepers : at'[u] = IF u = t /\ at[u] = "asleep" THEN "woken" ELSE at[u]
  BY <1>1 DEF Roused
<1>5. SleepTypes'
  <2>1. at' \in [Sleepers -> {"user", "asleep", "woken", "done"}]
    BY <1>1, <1>2 DEF Roused, SleepTypes
  <2> QED BY <1>1, <1>2, <1>3, <2>1 DEF SleepTypes, ZeroedAt
<1>6. Single(sleeps') /\ (~jumped => Ascending(sleeps'))
  BY <1>2, <1>3, <1>5, ZeroedThinned, ThinnedKeeps DEF SleepInv, SleepTypes
<1>7. \A u \in Sleepers \ {t} : LeavesAlone(u) /\ SameEntries(sleeps, sleeps', u)
  <2>1. \A u \in Sleepers \ {t} : LeavesAlone(u)
    BY <1>1, <1>4 DEF LeavesAlone
  <2> QED BY <1>3, <2>1, ZeroedSame
<1>8. at'[t] # "asleep" /\ (at'[t] \in {"user", "done"} => at'[t] = at[t])
  BY <1>4
<1>9. ASSUME NEW i \in 1..Len(sleeps')
      PROVE  /\ i \in 1..Len(sleeps) /\ sleeps'[i].thread = sleeps[i].thread
             /\ sleeps'[i].stale = sleeps[i].stale
             /\ sleeps'[i].counter \in {sleeps[i].counter, 0}
             /\ t \notin timed => sleeps'[i] = sleeps[i]
  BY <1>3 DEF ZeroedAt
<1>10. AwakeFits(sleeps, t)'
  <2>1. at'[t] \in {"user", "done"} => t \notin timed' \cup owed' \cup back'
    <3>1. CASE Unblock(t)
      BY <1>4, <3>1 DEF Unblock
    <3>2. CASE Signal(t)
      BY <1>2, <1>8, <3>2 DEF Signal, Fits, AwakeFits
    <3> QED BY <3>1, <3>2
  <2>2. at'[t] \in {"user", "done"} => \A i \in 1..Len(sleeps') : ~IsMine(sleeps', t, i)
    BY <1>2, <1>8, <1>9 DEF Fits, AwakeFits, IsMine
  <2> QED BY <2>1, <2>2 DEF AwakeFits, IsMine
<1>11. StaleFits(sleeps, t)'
  <2>1. t \in signalled => t \in signalled'
    BY <1>1
  <2> QED BY <1>2, <1>9, <2>1 DEF Fits, StaleFits
<1>12. OwedFits(sleeps, t)'
  <2>1. CASE Signal(t)
    BY <1>2, <1>4, <2>1 DEF Signal, Fits, OwedFits
  <2>2. CASE Unblock(t) /\ t \notin timed
    BY <1>2, <2>2 DEF Unblock, Fits, OwedFits
  <2>3. CASE Unblock(t) /\ t \in timed
    <3>1. at'[t] = "woken" /\ timed' = timed /\ signalled' = signalled
      BY <1>4, <2>3 DEF Unblock
    <3>2. ASSUME t \notin signalled, NEW i \in 1..Len(sleeps'), IsMine(sleeps', t, i)
          PROVE  sleeps'[i].counter = 0
      <4>1. i \in 1..Len(sleeps) /\ sleeps[i].thread = t
        BY <1>9, <3>2 DEF IsMine
      <4>2. \A j \in 1..Len(sleeps) : sleeps[j].thread = t => ~sleeps[j].stale
        BY <1>2, <3>2 DEF Fits, StaleFits
      <4>3. \A j \in 1..Len(sleeps) : sleeps[j].thread = t => i = j
        BY <1>2, <4>1, <4>2 DEF Single
      <4> QED BY <1>1, <1>2, <2>3, <4>1, <4>3, ZeroedZeroes, TimesAssumption DEF SleepTypes
    <3> QED BY <2>3, <3>1, <3>2 DEF OwedFits, IsMine
  <2> QED BY <2>1, <2>2, <2>3
<1>13. CounterFits(sleeps, t)'
  <2> SUFFICES ASSUME ~jumped, NEW i \in 1..Len(sleeps'), IsMine(sleeps', t, i),
                      sleeps'[i].counter > 0
               PROVE  left[t] # 0 /\ (left[t] > 0 => sleeps'[i].counter <= left[t])
    BY <1>1, <1>8 DEF CounterFits, IsMine
  <2>1. i \in 1..Len(sleeps) /\ IsMine(sleeps, t, i) /\ sleeps'[i].counter = sleeps[i].counter
    BY <1>9 DEF IsMine
  <2> QED BY <1>2, <2>1 DEF Fits, CounterFits
<1>14. DeadlineFits(sleeps, t)'
  <2> SUFFICES ASSUME InRange, t \notin timed \cup signalled' \cup back,
                      at'[t] \in {"asleep", "woken"}, left[t] > 0
               PROVE  \E i \in 1..Len(sleeps') : IsMine(sleeps', t, i) /\ sleeps'[i].counter = left[t]
    BY <1>1 DEF DeadlineFits, IsMine, InRange
  <2>1. at[t] \in {"asleep", "woken"} /\ t \notin signalled
    BY <1>1, <1>4
  <2>2. PICK i \in 1..Len(sleeps) : IsMine(sleeps, t, i) /\ sleeps[i].counter = left[t]
    BY <1>2, <2>1 DEF Fits, DeadlineFits
  <2>3. i \in 1..Len(sleeps') /\ sleeps'[i] = sleeps[i]
    BY <1>3 DEF ZeroedAt
  <2> QED BY <2>2, <2>3 DEF IsMine
<1> QED BY <1>1, <1>5, <1>6, <1>7, <1>10, <1>11, <1>12, <1>13, <1>14, OneSleep

\* thread_destroyed.
LEMMA ExitKeeps ==
  ASSUME SleepInv, NEW t \in Sleepers, Exit(t)
  PROVE  SleepInv'
<1>1. /\ at[t] \in {"user", "woken"} /\ sleeps' \in OfOthers(t) /\ signalled' = signalled
      /\ jumped' = jumped /\ at' = [at EXCEPT ![t] = "done"] /\ left' = [left EXCEPT ![t] = 0]
      /\ timed' = timed \ {t} /\ owed' = owed \ {t} /\ back' = back \ {t}
  BY DEF Exit, Leaves
<1>2. SleepTypes /\ Single(sleeps) /\ Len(sleeps) \in Nat
  BY DEF SleepInv, SleepTypes
<1> DEFINE S == {i \in DOMAIN sleeps : sleeps[i].thread # t}
<1>3. S \subseteq 1..Len(sleeps) /\ Cardinality(S) \in Nat
  <2>1. S \subseteq 1..Len(sleeps)
    BY <1>2 DEF SleepTypes
  <2>2. IsFiniteSet(1..Len(sleeps))
    BY <1>2, FS_Interval
  <2> QED BY <2>1, <2>2, FS_Subset, FS_CardinalityType
<1>4. PICK f \in Places(S) : sleeps' = [i \in DOMAIN f |-> sleeps[f[i]]]
  BY <1>1 DEF OfOthers
<1>5. /\ f \in [1..Cardinality(S) -> S] /\ S \subseteq Range(f)
      /\ \A i, j \in DOMAIN f : i < j => f[i] < f[j]
  BY <1>4 DEF Places
<1>6. \A i \in S : i \in 1..Len(sleeps) /\ sleeps[i].thread # t
  BY <1>3
<1>7. \A i \in 1..Len(sleeps) : sleeps[i].thread # t => i \in S
  BY <1>2 DEF SleepTypes
<1> HIDE DEF S
<1>8. /\ sleeps' \in Seq(Entries) /\ Len(sleeps') = Cardinality(S)
      /\ \A i \in 1..Len(sleeps') : f[i] \in S /\ sleeps'[i] = sleeps[f[i]]
  <2>1. \A i \in 1..Len(sleeps) : sleeps[i] \in Entries
    BY <1>2 DEF SleepTypes
  <2>2. sleeps' \in [1..Cardinality(S) -> Entries]
    BY <1>4, <1>5, <1>6, <2>1
  <2>3. sleeps' \in Seq(Entries) /\ Len(sleeps') = Cardinality(S)
    BY <1>3, <2>2
  <2> QED BY <1>4, <1>5, <2>3
<1>9. Thinned(sleeps, sleeps')
  <2>1. f \in [1..Len(sleeps') -> 1..Len(sleeps)]
    BY <1>5, <1>6, <1>8
  <2>2. \A i, j \in 1..Len(sleeps') : i < j => f[i] < f[j]
    BY <1>5, <1>8
  <2> QED BY <1>8, <2>1, <2>2 DEF Thinned
<1>10. Single(sleeps') /\ (~jumped => Ascending(sleeps'))
  BY <1>2, <1>8, <1>9, ThinnedKeeps DEF SleepInv, SleepTypes
<1>11. \A u \in Sleepers \ {t} : LeavesAlone(u) /\ SameEntries(sleeps, sleeps', u)
  <2> SUFFICES ASSUME NEW u \in Sleepers \ {t}
               PROVE  LeavesAlone(u) /\ SameEntries(sleeps, sleeps', u)
    OBVIOUS
  <2>1. LeavesAlone(u)
    BY <1>1, <1>2 DEF LeavesAlone, SleepTypes
  <2>2. ASSUME NEW i \in 1..Len(sleeps), sleeps[i].thread = u
        PROVE  \E j \in 1..Len(sleeps') : sleeps'[j] = sleeps[i]
    <3>1. i \in S
      BY <1>7, <2>2
    <3>2. PICK j \in DOMAIN f : f[j] = i
      BY <1>5, <3>1 DEF Range
    <3>3. j \in 1..Len(sleeps')
      BY <1>5, <1>8, <3>2
    <3> QED BY <1>8, <3>2, <3>3
  <2>3. ASSUME NEW j \in 1..Len(sleeps')
        PROVE  \E i \in 1..Len(sleeps) : sleeps[i] = sleeps'[j]
    BY <1>6, <1>8
  <2> QED BY <2>1, <2>2, <2>3 DEF SameEntries
<1>12. at'[t] = "done" /\ \A i \in 1..Len(sleeps') : sleeps'[i].thread # t
  BY <1>1, <1>2, <1>6, <1>8 DEF SleepTypes
<1>13. SleepTypes'
  BY <1>1, <1>2, <1>8 DEF SleepTypes
<1>14. AwakeFits(sleeps, t)' /\ StaleFits(sleeps, t)' /\ OwedFits(sleeps, t)'
  BY <1>1, <1>12 DEF AwakeFits, StaleFits, OwedFits, IsMine
<1>15. CounterFits(sleeps, t)' /\ DeadlineFits(sleeps, t)'
  BY <1>12 DEF CounterFits, DeadlineFits, IsMine
<1> QED BY <1>1, <1>10, <1>11, <1>13, <1>14, <1>15, OneSleep

----------------------------------------------------------------------------
\* Time that passes.

\* What is left on the counter of entry i, before anybody is woken.
CountsTo(i, num, set) == Counted(sleeps[i], num, set).counter

\* The loop took p entries and woke the threads in W.
Passed(num, set, p, W) ==
  /\ p \in 0..Len(sleeps) /\ Len(sleeps) \in Nat
  /\ sleeps' \in Seq(Entries) /\ Len(sleeps') = Len(sleeps) - p
  /\ at' = Roused(W)
  /\ \A q \in 1..p : /\ sleeps[q].thread \in W
                     /\ CountsTo(q, num, set) = 0 \/ sleeps[q].thread \in timed
  /\ \A q \in 1..Len(sleeps') :
       /\ sleeps'[q].thread = sleeps[p + q].thread /\ sleeps'[q].stale = sleeps[p + q].stale
       /\ \/ sleeps'[q].counter = CountsTo(p + q, num, set)
          \/ sleeps'[q].counter = 0 /\ sleeps[p + q].thread \in W \cap timed
  /\ p < Len(sleeps) => sleeps'[1].counter # 0

\* What is left of an entry after num ticks.
LEMMA CountedEntry ==
  ASSUME NEW e \in Entries, NEW num \in Int, NEW set \in BOOLEAN
  PROVE  /\ Counted(e, num, set) \in Entries
         /\ Counted(e, num, set).thread = e.thread /\ Counted(e, num, set).stale = e.stale
         /\ Counted(e, num, set).counter = IF set /\ ~e.abs THEN e.counter
                                           ELSE IF e.counter < num % Wide THEN 0
                                           ELSE e.counter - (num % Wide)
<1>1. PICK n : n = num % Wide
  OBVIOUS
<1>2. n \in 0..(Wide - 1) /\ Wide \in Nat \ {0}
  BY <1>1, CounterOf, TimesAssumption
<1>3. CASE set /\ ~e.abs
  BY <1>3 DEF Counted
<1>4. CASE ~(set /\ ~e.abs)
  <2>1. PICK c : c = IF e.counter < n THEN 0 ELSE e.counter - n
    OBVIOUS
  <2>2. c \in 0..(Wide - 1)
    BY <1>2, <2>1 DEF Entries
  <2>3. PICK f : f = [e EXCEPT !.counter = c]
    OBVIOUS
  <2>4. f \in Entries /\ f.thread = e.thread /\ f.stale = e.stale /\ f.counter = c
    BY ONLY <2>2, <2>3, e \in Entries DEF Entries
  <2>5. Counted(e, num, set) = f
    BY <1>1, <1>4, <2>1, <2>3 DEF Counted
  <2> QED BY <1>1, <1>4, <2>1, <2>4, <2>5
<1> QED BY <1>3, <1>4

\* add_clock_time: the sleeps.
LEMMA ClockPasses ==
  ASSUME SleepInv, NEW num \in Int, NEW set \in BOOLEAN, AddClockTime(num, set)
  PROVE  \E p, W : Passed(num, set, p, W)
<1>1. sleeps \in Seq(Entries) /\ Len(sleeps) \in Nat /\ DOMAIN sleeps = 1..Len(sleeps)
  BY DEF SleepInv, SleepTypes
<1>2. PICK list : list = [i \in DOMAIN sleeps |-> Counted(sleeps[i], num, set)]
  OBVIOUS
<1>3. /\ list \in Seq(Entries) /\ Len(list) = Len(sleeps)
      /\ \A i \in 1..Len(list) : list[i] = Counted(sleeps[i], num, set)
  <2>1. \A i \in 1..Len(sleeps) : sleeps[i] \in Entries
    BY <1>1
  <2>2. list \in [1..Len(sleeps) -> Entries]
    BY <1>1, <1>2, <2>1, CountedEntry
  <2> QED BY <1>1, <1>2, <2>2
<1>4. ASSUME NEW i \in 1..Len(list)
      PROVE  /\ list[i].thread = sleeps[i].thread /\ list[i].stale = sleeps[i].stale
             /\ list[i].counter = CountsTo(i, num, set)
  <2>1. sleeps[i] \in Entries
    BY <1>1, <1>3
  <2> QED BY <1>3, <2>1, CountedEntry DEF CountsTo
<1>5. PICK c : c = FireSleeps(list)
  OBVIOUS
<1>6. sleeps' = c.list /\ at' = Roused(c.woken)
  BY <1>2, <1>5 DEF AddClockTime
<1>7. PICK p \in 0..Len(list) : Fired(list, c, p) /\ (p < Len(list) => c.list[1].counter # 0)
  BY <1>3, <1>5, FireSleepsFires, TimesAssumption
<1>8. PICK W : W = c.woken
  OBVIOUS
<1>9. /\ p \in 0..Len(sleeps) /\ sleeps' \in Seq(Entries) /\ Len(sleeps') = Len(sleeps) - p
      /\ W = {list[q].thread : q \in 1..p}
  BY <1>3, <1>6, <1>7, <1>8 DEF Fired
<1>10. ASSUME NEW q \in 1..p
       PROVE  /\ sleeps[q].thread \in W
              /\ CountsTo(q, num, set) = 0 \/ sleeps[q].thread \in timed
  <2>1. q \in 1..Len(list) /\ list[q].thread = sleeps[q].thread
    BY <1>1, <1>3, <1>4, <1>9
  <2>2. list[q].counter = 0 \/ list[q].thread \in timed
    BY <1>7 DEF Fired
  <2> QED BY <1>4, <1>9, <2>1, <2>2
<1>11. ASSUME NEW q \in 1..Len(sleeps')
       PROVE  /\ sleeps'[q].thread = sleeps[p + q].thread
              /\ sleeps'[q].stale = sleeps[p + q].stale
              /\ \/ sleeps'[q].counter = CountsTo(p + q, num, set)
                 \/ sleeps'[q].counter = 0 /\ sleeps[p + q].thread \in W \cap timed
  <2>1. p + q \in 1..Len(list)
    BY <1>1, <1>3, <1>9
  <2>2. /\ c.list[q].thread = list[p + q].thread
        /\ c.list[q].stale = list[p + q].stale
        /\ \/ c.list[q].counter = list[p + q].counter
           \/ c.list[q].counter = 0 /\ list[p + q].thread \in c.woken \cap timed
    BY <1>6, <1>7 DEF Fired
  <2> QED BY <1>4, <1>6, <1>8, <2>1, <2>2
<1>12. p < Len(sleeps) => sleeps'[1].counter # 0
  BY <1>3, <1>6, <1>7
<1> QED BY <1>1, <1>6, <1>8, <1>9, <1>10, <1>11, <1>12 DEF Passed

\* What time passing does not disturb, whoever is woken.
LEMMA PassedKeeps ==
  ASSUME SleepInv, NEW num \in Int, NEW set \in BOOLEAN, NEW p, NEW W,
         Passed(num, set, p, W), timed' = timed, signalled' = signalled, owed' = owed
  PROVE  /\ Single(sleeps')
         /\ at' \in [Sleepers -> {"user", "asleep", "woken", "done"}]
         /\ \A t \in Sleepers :
              /\ at'[t] = IF t \in W /\ at[t] = "asleep" THEN "woken" ELSE at[t]
              /\ StaleFits(sleeps, t)' /\ OwedFits(sleeps, t)'
              /\ at'[t] \in {"user", "done"} =>
                   \A i \in 1..Len(sleeps') : ~IsMine(sleeps', t, i)
<1>1. SleepTypes /\ Single(sleeps) /\ \A t \in Sleepers : Fits(sleeps, t)
  BY DEF SleepInv
<1>2. /\ p \in 0..Len(sleeps) /\ Len(sleeps) \in Nat /\ Len(sleeps') = Len(sleeps) - p
      /\ at' = Roused(W)
  BY DEF Passed
<1>3. ASSUME NEW q \in 1..Len(sleeps')
      PROVE  /\ p + q \in 1..Len(sleeps)
             /\ sleeps'[q].thread = sleeps[p + q].thread /\ sleeps'[q].stale = sleeps[p + q].stale
             /\ sleeps[p + q].counter = 0 => sleeps'[q].counter = 0
  <2>1. p + q \in 1..Len(sleeps)
    BY <1>2
  <2>2. sleeps[p + q] \in Entries
    BY <1>1, <2>1 DEF SleepTypes
  <2>3. sleeps[p + q].counter = 0 => CountsTo(p + q, num, set) = 0
    <3>1. num % Wide \in 0..(Wide - 1)
      BY CounterOf
    <3> QED BY <2>2, <3>1, CountedEntry, TimesAssumption DEF CountsTo
  <2> QED BY <2>1, <2>3 DEF Passed
<1>4. Single(sleeps')
  <2> SUFFICES ASSUME NEW i \in 1..Len(sleeps'), NEW j \in 1..Len(sleeps'),
                      sleeps'[i].thread = sleeps'[j].thread, ~sleeps'[i].stale, ~sleeps'[j].stale
               PROVE  i = j
    BY DEF Single
  <2>1. p + i = p + j
    BY <1>1, <1>3 DEF Single
  <2> QED BY <1>2, <2>1
<1>5. /\ at' \in [Sleepers -> {"user", "asleep", "woken", "done"}]
      /\ \A t \in Sleepers : at'[t] = IF t \in W /\ at[t] = "asleep" THEN "woken" ELSE at[t]
  BY <1>1, <1>2 DEF Roused, SleepTypes
<1>6. ASSUME NEW t \in Sleepers
      PROVE  /\ StaleFits(sleeps, t)' /\ OwedFits(sleeps, t)'
             /\ at'[t] \in {"user", "done"} =>
                  \A i \in 1..Len(sleeps') : ~IsMine(sleeps', t, i)
  <2>1. Fits(sleeps, t)
    BY <1>1
  <2>2. StaleFits(sleeps, t)'
    BY <1>3, <2>1 DEF Fits, StaleFits
  <2>3. OwedFits(sleeps, t)'
    BY <1>3, <1>5, <2>1 DEF Fits, OwedFits, IsMine
  <2>4. at'[t] \in {"user", "done"} => \A i \in 1..Len(sleeps') : ~IsMine(sleeps', t, i)
    BY <1>3, <1>5, <2>1 DEF Fits, AwakeFits, IsMine
  <2> QED BY <2>2, <2>3, <2>4
<1> QED BY <1>4, <1>5, <1>6

\* A tick: whose counter gets to zero is on the part of the list that is
\* woken, because the counters ascend.
LEMMA TickKeeps ==
  ASSUME SleepInv, Tick
  PROVE  SleepInv'
<1>1. /\ AddClockTime(1, FALSE) /\ back' = back /\ jumped' = jumped
      /\ left' = [t \in Sleepers |-> IF left[t] <= 0 THEN left[t] ELSE left[t] - 1]
      /\ timed' = timed /\ signalled' = signalled /\ owed' = owed
  BY DEF Tick, AddClockTime
<1>2. SleepTypes /\ Single(sleeps) /\ \A t \in Sleepers : Fits(sleeps, t)
  BY DEF SleepInv
<1> PICK num \in Int : num = 1
  OBVIOUS
<1> PICK set \in BOOLEAN : set = FALSE
  OBVIOUS
<1> AddClockTime(num, set)
  BY <1>1
<1>3. PICK p, W : Passed(num, set, p, W)
  BY ClockPasses
<1>4. /\ Single(sleeps')
      /\ at' \in [Sleepers -> {"user", "asleep", "woken", "done"}]
      /\ \A t \in Sleepers :
           /\ at'[t] = IF t \in W /\ at[t] = "asleep" THEN "woken" ELSE at[t]
           /\ StaleFits(sleeps, t)' /\ OwedFits(sleeps, t)'
           /\ at'[t] \in {"user", "done"} =>
                \A i \in 1..Len(sleeps') : ~IsMine(sleeps', t, i)
  BY <1>1, <1>3, PassedKeeps
<1>5. SleepTypes'
  <2>1. left' \in [Sleepers -> Int]
    BY <1>1, <1>2 DEF SleepTypes
  <2>2. sleeps' \in Seq(Entries)
    BY <1>3 DEF Passed
  <2> QED BY <1>1, <1>2, <1>4, <2>1, <2>2 DEF SleepTypes
<1> DEFINE C(i) == sleeps[i].counter
           To(i) == CountsTo(i, num, set)
<1>6. \A i \in 1..Len(sleeps) : C(i) \in Nat /\ To(i) = IF C(i) = 0 THEN 0 ELSE C(i) - 1
  <2> SUFFICES ASSUME NEW i \in 1..Len(sleeps)
               PROVE  C(i) \in Nat /\ To(i) = IF C(i) = 0 THEN 0 ELSE C(i) - 1
    OBVIOUS
  <2>1. sleeps[i] \in Entries /\ C(i) \in 0..(Wide - 1)
    BY <1>2, EntryFields DEF SleepTypes
  <2>2. To(i) = IF C(i) < num % Wide THEN 0 ELSE C(i) - (num % Wide)
    BY <2>1, CountedEntry DEF CountsTo
  <2>3. CASE Wide = 1
    <3>1. C(i) = 0 /\ num % Wide = 0
      BY <2>1, <2>3, CounterOf
    <3> HIDE DEF C, To
    <3> QED BY <2>2, <3>1
  <2>4. CASE Wide # 1
    <3>1. num % Wide = 1
      BY <2>4, CounterOf, TimesAssumption
    <3>2. C(i) \in Nat
      BY <2>1, TimesAssumption
    <3> HIDE DEF C, To
    <3> QED BY <2>2, <3>1, <3>2
  <2> QED BY <2>3, <2>4
<1>7. /\ p \in 0..Len(sleeps) /\ Len(sleeps) \in Nat /\ Len(sleeps') = Len(sleeps) - p
      /\ \A q \in 1..p : /\ sleeps[q].thread \in W
                         /\ To(q) = 0 \/ sleeps[q].thread \in timed
      /\ \A q \in 1..Len(sleeps') :
           /\ sleeps'[q].thread = sleeps[p + q].thread /\ sleeps'[q].stale = sleeps[p + q].stale
           /\ \/ sleeps'[q].counter = To(p + q)
              \/ sleeps'[q].counter = 0 /\ sleeps[p + q].thread \in W \cap timed
      /\ p < Len(sleeps) => sleeps'[1].counter # 0
  BY <1>3 DEF Passed
<1>8. \A i, j \in 1..Len(sleeps) :
        i < j /\ ~jumped => C(j) = 0 \/ C(i) <= C(j)
  BY DEF SleepInv, Ascending
<1> HIDE DEF C, To
<1>9. ~jumped => Ascending(sleeps')
  <2> SUFFICES ASSUME ~jumped, NEW i \in 1..Len(sleeps'), NEW j \in 1..Len(sleeps'), i < j
               PROVE  sleeps'[j].counter = 0 \/ sleeps'[i].counter <= sleeps'[j].counter
    BY DEF Ascending
  <2>1. PICK x, y : x = p + i /\ y = p + j
    OBVIOUS
  <2>2. x \in 1..Len(sleeps) /\ y \in 1..Len(sleeps) /\ x < y
    BY <1>7, <2>1
  <2>3. sleeps'[i].counter \in {To(x), 0} /\ sleeps'[j].counter \in {To(y), 0}
    BY <1>7, <2>1
  <2>4. C(y) = 0 \/ C(x) <= C(y)
    BY <1>8, <2>2
  <2>5. /\ C(x) \in Nat /\ To(x) = IF C(x) = 0 THEN 0 ELSE C(x) - 1
        /\ C(y) \in Nat /\ To(y) = IF C(y) = 0 THEN 0 ELSE C(y) - 1
    BY <1>6, <2>2
  <2> QED BY <2>3, <2>4, <2>5
<1>10. ASSUME NEW t \in Sleepers PROVE Fits(sleeps, t)'
  <2>1. Fits(sleeps, t) /\ left[t] \in Int
        /\ left'[t] = IF left[t] <= 0 THEN left[t] ELSE left[t] - 1
    BY <1>1, <1>2 DEF SleepTypes
  <2>2. AwakeFits(sleeps, t)'
    <3>1. at'[t] \in {"user", "done"} => at[t] = at'[t]
      BY <1>4
    <3> QED BY <1>1, <1>4, <2>1, <3>1 DEF Fits, AwakeFits, IsMine
  <2>3. ASSUME ~jumped, NEW i \in 1..Len(sleeps'), IsMine(sleeps', t, i), sleeps'[i].counter > 0
        PROVE  left'[t] # 0 /\ (left'[t] > 0 => sleeps'[i].counter <= left'[t])
    <3>1. PICK x : x = p + i
      OBVIOUS
    <3>2. x \in 1..Len(sleeps) /\ IsMine(sleeps, t, x) /\ sleeps'[i].counter = To(x)
      <4>1. x \in 1..Len(sleeps)
        BY <1>7, <3>1
      <4>2. sleeps'[i].thread = sleeps[x].thread /\ sleeps'[i].stale = sleeps[x].stale
        BY <1>7, <3>1
      <4>3. sleeps'[i].counter = To(x) \/ sleeps'[i].counter = 0
        BY <1>7, <3>1
      <4>4. ~ (0 > 0)
        OBVIOUS
      <4> QED BY <2>3, <4>1, <4>2, <4>3, <4>4 DEF IsMine
    <3>3. C(x) \in Nat /\ To(x) = IF C(x) = 0 THEN 0 ELSE C(x) - 1
      BY <1>6, <3>2
    <3>4. C(x) > 1
      BY <2>3, <3>2, <3>3
    <3>5. left[t] # 0 /\ (left[t] > 0 => C(x) <= left[t])
      <4>1. IsMine(sleeps, t, x) /\ C(x) > 0
        BY <3>2, <3>3, <3>4
      <4> QED BY <2>1, <2>3, <3>2, <4>1 DEF Fits, CounterFits, C
    <3> QED BY <2>1, <3>2, <3>3, <3>4, <3>5
  <2>4. ASSUME ~jumped, at'[t] = "asleep"
        PROVE  \E i \in 1..Len(sleeps') : IsMine(sleeps', t, i) /\ sleeps'[i].counter > 0
    <3>1. at[t] = "asleep" /\ t \notin W
      BY <1>4, <2>4
    <3>2. PICK x \in 1..Len(sleeps) : IsMine(sleeps, t, x) /\ C(x) > 0
      BY <2>1, <2>4, <3>1 DEF Fits, CounterFits, C
    <3>3. ~ (x \in 1..p)
      BY <1>7, <3>1, <3>2 DEF IsMine
    <3>4. PICK q : q = x - p
      OBVIOUS
    <3>5. q \in 1..Len(sleeps') /\ p + q = x /\ p < Len(sleeps)
      BY <1>7, <3>3, <3>4
    <3>6. /\ sleeps'[q].thread = sleeps[x].thread /\ sleeps'[q].stale = sleeps[x].stale
          /\ \/ sleeps'[q].counter = To(x)
             \/ sleeps'[q].counter = 0 /\ sleeps[x].thread \in W \cap timed
      BY <1>7, <3>5
    <3>7. IsMine(sleeps', t, q) /\ sleeps'[q].counter = To(x)
      BY <3>1, <3>2, <3>6 DEF IsMine
    <3>8. C(x) # 1
      <4> SUFFICES ASSUME C(x) = 1 PROVE FALSE
        OBVIOUS
      <4>1. 1 \in 1..Len(sleeps') /\ p + 1 \in 1..Len(sleeps) /\ (p + 1 = x \/ p + 1 < x)
        BY <1>7, <3>5
      <4>2. sleeps'[1].counter # 0 /\ sleeps'[1].counter \in {To(p + 1), 0}
        BY <1>7, <3>5, <4>1
      <4>3. PICK y : y = p + 1
        OBVIOUS
      <4>4. To(y) # 0 /\ C(y) \in Nat /\ To(y) = IF C(y) = 0 THEN 0 ELSE C(y) - 1
        BY <1>6, <4>1, <4>2, <4>3
      <4>5. C(y) > 1
        BY <4>4
      <4>6. y = x \/ C(x) = 0 \/ C(y) <= C(x)
        BY <1>8, <2>4, <4>1, <4>3
      <4> QED BY <4>4, <4>5, <4>6
    <3>9. To(x) > 0
      BY <1>6, <3>2, <3>8
    <3> QED BY <3>5, <3>7, <3>9
  <2>5. CounterFits(sleeps, t)'
    BY <1>1, <2>3, <2>4 DEF CounterFits, IsMine
  <2>6. DeadlineFits(sleeps, t)'
    <3> SUFFICES ASSUME InRange, t \notin timed \cup signalled \cup back,
                        at'[t] \in {"asleep", "woken"}, left'[t] > 0
                 PROVE  \E i \in 1..Len(sleeps') : IsMine(sleeps', t, i) /\ sleeps'[i].counter = left'[t]
      BY <1>1 DEF DeadlineFits, IsMine, InRange
    <3>1. at[t] \in {"asleep", "woken"} /\ left[t] > 1 /\ left'[t] = left[t] - 1 /\ left[t] > 0
      BY <1>4, <2>1
    <3>2. PICK x \in 1..Len(sleeps) : IsMine(sleeps, t, x) /\ C(x) = left[t]
      BY <2>1, <3>1 DEF Fits, DeadlineFits, C
    <3>3. To(x) = left'[t] /\ To(x) # 0
      BY <1>6, <3>1, <3>2
    <3>4. ~ (x \in 1..p)
      BY <1>7, <3>2, <3>3 DEF IsMine
    <3>5. PICK q : q = x - p
      OBVIOUS
    <3>6. q \in 1..Len(sleeps') /\ p + q = x
      BY <1>7, <3>4, <3>5
    <3>7. /\ sleeps'[q].thread = sleeps[x].thread /\ sleeps'[q].stale = sleeps[x].stale
          /\ \/ sleeps'[q].counter = To(x)
             \/ sleeps'[q].counter = 0 /\ sleeps[x].thread \in W \cap timed
      BY <1>7, <3>6
    <3> QED BY <3>2, <3>3, <3>6, <3>7 DEF IsMine
  <2> QED BY <1>4, <2>2, <2>5, <2>6 DEF Fits
<1>11. Single(sleeps)' /\ (~jumped => Ascending(sleeps))'
  BY <1>1, <1>4, <1>9 DEF Single, Ascending
<1> QED BY <1>5, <1>10, <1>11 DEF SleepInv

\* clock_settime: the order may be lost, but no counter gets longer than its
\* deadline, unless the clock is set back.
LEMMA SettimeKeeps ==
  ASSUME SleepInv, NEW num \in Jumps, ClockSettime(num)
  PROVE  SleepInv'
<1> num \in Int
  BY TimesAssumption
<1>1. /\ AddClockTime(num, TRUE) /\ jumped' = TRUE
      /\ left' = [t \in Sleepers |-> IF t \in Absolute THEN left[t] - num ELSE left[t]]
      /\ back' = IF num < 0 THEN back \cup Absolute ELSE back
      /\ timed' = timed /\ signalled' = signalled /\ owed' = owed
  BY DEF ClockSettime, AddClockTime
<1>2. SleepTypes /\ Single(sleeps) /\ \A t \in Sleepers : Fits(sleeps, t)
  BY DEF SleepInv
<1>3. PICK p, W : Passed(num, TRUE, p, W)
  BY <1>1, ClockPasses
<1>4. /\ Single(sleeps')
      /\ at' \in [Sleepers -> {"user", "asleep", "woken", "done"}]
      /\ \A t \in Sleepers :
           /\ at'[t] = IF t \in W /\ at[t] = "asleep" THEN "woken" ELSE at[t]
           /\ StaleFits(sleeps, t)' /\ OwedFits(sleeps, t)'
           /\ at'[t] \in {"user", "done"} =>
                \A i \in 1..Len(sleeps') : ~IsMine(sleeps', t, i)
  BY <1>1, <1>3, PassedKeeps
<1>5. Absolute \subseteq Sleepers
  BY DEF Absolute
<1>6. SleepTypes'
  <2>1. left' \in [Sleepers -> Int]
    BY <1>1, <1>2 DEF SleepTypes
  <2>2. sleeps' \in Seq(Entries)
    BY <1>3 DEF Passed
  <2> QED BY <1>1, <1>2, <1>4, <1>5, <2>1, <2>2 DEF SleepTypes
<1>7. ASSUME NEW t \in Sleepers
      PROVE  \/ /\ Mine(t, sleeps) = 0 /\ t \notin Absolute
                /\ \A i \in 1..Len(sleeps) : ~IsMine(sleeps, t, i)
             \/ /\ Mine(t, sleeps) \in 1..Len(sleeps) /\ IsMine(sleeps, t, Mine(t, sleeps))
                /\ \A i \in 1..Len(sleeps) : IsMine(sleeps, t, i) => i = Mine(t, sleeps)
                /\ t \in Absolute <=> sleeps[Mine(t, sleeps)].abs
  <2>1. \/ /\ Mine(t, sleeps) = 0
           /\ \A i \in 1..Len(sleeps) : ~IsMine(sleeps, t, i)
        \/ Mine(t, sleeps) \in 1..Len(sleeps) /\ IsMine(sleeps, t, Mine(t, sleeps))
    BY <1>2, MineFinds DEF SleepTypes
  <2>2. Mine(t, sleeps) = 0 => t \notin Absolute
    BY DEF Absolute
  <2>3. Mine(t, sleeps) # 0 => (t \in Absolute <=> sleeps[Mine(t, sleeps)].abs)
    BY DEF Absolute
  <2>4. ASSUME NEW i \in 1..Len(sleeps), NEW j \in 1..Len(sleeps),
               IsMine(sleeps, t, i), IsMine(sleeps, t, j)
        PROVE  i = j
    BY <1>2, <2>4 DEF Single, IsMine
  <2> QED BY <2>1, <2>2, <2>3, <2>4
<1>8. ASSUME NEW t \in Sleepers PROVE Fits(sleeps, t)'
  <2>1. Fits(sleeps, t) /\ left[t] \in Int
        /\ left'[t] = IF t \in Absolute THEN left[t] - num ELSE left[t]
    BY <1>1, <1>2 DEF SleepTypes
  <2>2. AwakeFits(sleeps, t)'
    <3> SUFFICES ASSUME at'[t] \in {"user", "done"}
                 PROVE  t \notin timed \cup owed \cup back'
      BY <1>1, <1>4 DEF AwakeFits, IsMine
    <3>1. at[t] \in {"user", "done"}
      BY <1>4
    <3>2. t \notin timed \cup owed \cup back /\ \A i \in 1..Len(sleeps) : ~IsMine(sleeps, t, i)
      BY <2>1, <3>1 DEF Fits, AwakeFits
    <3>3. t \notin Absolute
      BY <1>7, <3>2
    <3> QED BY <1>1, <3>2, <3>3
  <2>3. CounterFits(sleeps, t)'
    BY <1>1 DEF CounterFits
  <2>4. DeadlineFits(sleeps, t)'
    <3> SUFFICES ASSUME InRange, t \notin timed \cup signalled \cup back',
                        at'[t] \in {"asleep", "woken"}, left'[t] > 0
                 PROVE  \E i \in 1..Len(sleeps') : IsMine(sleeps', t, i) /\ sleeps'[i].counter = left'[t]
      BY <1>1 DEF DeadlineFits, IsMine, InRange
    <3>1. at[t] \in {"asleep", "woken"} /\ t \notin back
      BY <1>1, <1>4
    <3>2. t \in Absolute => num >= 0
      BY <1>1
    <3>3. left[t] > 0
      BY <2>1, <3>2
    <3>4. PICK x \in 1..Len(sleeps) : IsMine(sleeps, t, x) /\ sleeps[x].counter = left[t]
      BY <2>1, <3>1, <3>3 DEF Fits, DeadlineFits
    <3>5. sleeps[x] \in Entries /\ sleeps[x].counter \in 0..(Wide - 1)
      BY <1>2, EntryFields DEF SleepTypes
    <3>6. t \in Absolute <=> sleeps[x].abs
      BY <1>7, <3>4
    <3>7. CountsTo(x, num, TRUE) = left'[t]
      <4>1. CountsTo(x, num, TRUE) = IF ~sleeps[x].abs THEN sleeps[x].counter
                                     ELSE IF sleeps[x].counter < num % Wide THEN 0
                                     ELSE sleeps[x].counter - (num % Wide)
        BY <3>5, CountedEntry DEF CountsTo
      <4>2. CASE t \notin Absolute
        BY <2>1, <3>4, <3>6, <4>1, <4>2
      <4>3. CASE t \in Absolute
        <5>1. num \in 0..(Wide - 1) /\ left[t] - num > 0
          BY <2>1, <3>2, <3>4, <3>5, <4>3, TimesAssumption
        <5>2. num % Wide = num
          BY <5>1, CounterOf
        <5>3. PICK c \in Nat : c = sleeps[x].counter
          BY <3>5, TimesAssumption
        <5>4. CountsTo(x, num, TRUE) = IF c < num THEN 0 ELSE c - num
          BY <3>6, <4>1, <4>3, <5>2, <5>3
        <5>5. c - num > 0 /\ left'[t] = c - num
          BY <2>1, <3>4, <4>3, <5>1, <5>3
        <5>6. ~ (c < num)
          BY <5>1, <5>3, <5>5
        <5> QED BY <5>4, <5>5, <5>6
      <4> QED BY <4>2, <4>3
    <3>8. ~ (x \in 1..p)
      <4>1. CountsTo(x, num, TRUE) # 0
        <5>1. left'[t] \in Int
          BY <2>1
        <5>2. left'[t] # 0
          BY <5>1
        <5> QED BY <3>7, <5>2
      <4> QED BY <1>3, <3>4, <4>1 DEF Passed, IsMine
    <3>9. PICK q : q = x - p
      OBVIOUS
    <3>10. q \in 1..Len(sleeps') /\ p + q = x
      BY <1>3, <3>8, <3>9 DEF Passed
    <3>11. /\ sleeps'[q].thread = sleeps[x].thread /\ sleeps'[q].stale = sleeps[x].stale
           /\ \/ sleeps'[q].counter = CountsTo(x, num, TRUE)
              \/ sleeps'[q].counter = 0 /\ sleeps[x].thread \in W \cap timed
      BY <1>3, <3>10 DEF Passed
    <3> QED BY <3>4, <3>7, <3>10, <3>11 DEF IsMine
  <2> QED BY <1>4, <2>2, <2>3, <2>4 DEF Fits
<1>9. Single(sleeps)' /\ (~jumped => Ascending(sleeps))'
  BY <1>1, <1>4 DEF Single
<1> QED BY <1>6, <1>8, <1>9 DEF SleepInv

----------------------------------------------------------------------------
\* Nobody sleeps to begin with.
LEMMA SleepsInit == ClockInit => SleepInv
<1> SUFFICES ASSUME ClockInit PROVE SleepInv
  OBVIOUS
<1>1. /\ sleeps = <<>> /\ Len(sleeps) = 0 /\ sleeps \in Seq(Entries)
      /\ timed = {} /\ signalled = {} /\ owed = {} /\ back = {} /\ jumped = FALSE
      /\ left = [t \in Sleepers |-> 0]
      /\ \A t \in Sleepers : at[t] \in {"user", "done"}
      /\ at \in [Sleepers -> {"user", "asleep", "woken", "done"}]
  BY DEF ClockInit
<1>2. SleepTypes /\ Single(sleeps) /\ Ascending(sleeps)
  <2>1. SleepTypes
    <3>1. left \in [Sleepers -> Int]
      BY <1>1
    <3> QED BY <1>1, <3>1 DEF SleepTypes
  <2>2. 1..Len(sleeps) = {}
    BY <1>1
  <2> QED BY <2>1, <2>2 DEF Single, Ascending
<1>3. \A t \in Sleepers : Fits(sleeps, t)
  BY <1>1 DEF Fits, AwakeFits, StaleFits, OwedFits, CounterFits, DeadlineFits
<1> QED BY <1>2, <1>3 DEF SleepInv

\* Every step keeps the invariant of the sleeps.
LEMMA SleepsStep == SleepInv /\ [ClockNext]_clockVars => SleepInv'
<1> SUFFICES ASSUME SleepInv, [ClockNext]_clockVars PROVE SleepInv'
  OBVIOUS
<1>1. CASE Tick
  BY <1>1, TickKeeps
<1>2. CASE \E num \in Jumps : ClockSettime(num)
  BY <1>2, SettimeKeeps
<1>3. ASSUME NEW t \in Sleepers,
             Nanosleep(t) \/ TimedWait(t) \/ Turn(t) \/ Unblock(t) \/ Signal(t) \/ Exit(t)
      PROVE  SleepInv'
  <2>1. CASE Nanosleep(t) \/ TimedWait(t)
    <3>1. PICK n \in Delays \cup Offsets, abs \in BOOLEAN, wait \in BOOLEAN :
            Sleep(t, n, abs, wait)
      BY <2>1 DEF Nanosleep, TimedWait
    <3> QED BY <3>1, SleepKeeps
  <2>2. CASE Turn(t)
    BY <2>2, TurnKeeps
  <2>3. CASE Unblock(t) \/ Signal(t)
    BY <2>3, UnblockKeeps
  <2>4. CASE Exit(t)
    BY <2>4, ExitKeeps
  <2> QED BY <1>3, <2>1, <2>2, <2>3, <2>4
<1>4. CASE \E x \in Timers : CreateTimer(x) \/ DeleteTimer(x) \/ SetTime(x)
  BY <1>4, SleepsStay DEF CreateTimer, DeleteTimer, SetTime, Disarm, Arm, Record, threadVars
<1>5. CASE UNCHANGED clockVars
  BY <1>5, SleepsStay DEF clockVars, threadVars
<1> QED BY <1>1, <1>2, <1>3, <1>4, <1>5 DEF ClockNext

\* rtos/kernel/uc_tic_timer_class.cpp: the list of sleeps is in order and every
\* sleeper has the one entry that will wake it.
THEOREM SleepsFit == ClockSpec => []SleepInv
<1> QED BY SleepsInit, SleepsStep, PTL DEF ClockSpec

\* place_sleep, add_clock_time: nobody sleeps beyond his deadline, whatever other
\* sleeps begin, end, are interrupted or are left behind.
THEOREM NobodyOversleeps == ClockSpec => []NoOversleep
<1>1. SleepInv => NoOversleep
  BY DEF SleepInv, Fits, CounterFits, NoOversleep
<1> QED BY <1>1, SleepsFit, PTL

\* unblock, block(list, time): a timed wait that was woken does not go on.
THEOREM WokenWaitsEnd == ClockSpec => []WokenWaitEnds
<1>1. SleepInv => WokenWaitEnds
  BY DEF SleepInv, SleepTypes, Fits, OwedFits, WokenWaitEnds
<1> QED BY <1>1, SleepsFit, PTL

\* Only the end of its own sleep takes a thread out of the call.
LEMMA WhoReturns ==
  ASSUME SleepInv, ClockNext, NEW t \in Sleepers, at[t] = "woken", at'[t] = "user"
  PROVE  Turn(t)
<1>1. at \in [Sleepers -> {"user", "asleep", "woken", "done"}]
  BY DEF SleepInv, SleepTypes
<1>2. \A S : at' = Roused(S) => at'[t] = "woken"
  BY DEF Roused
<1>3. CASE Tick \/ \E num \in Jumps : ClockSettime(num)
  BY <1>2, <1>3 DEF Tick, ClockSettime, AddClockTime
<1>4. ASSUME NEW u \in Sleepers,
             Nanosleep(u) \/ TimedWait(u) \/ Turn(u) \/ Unblock(u) \/ Signal(u) \/ Exit(u)
      PROVE  Turn(t)
  <2>1. CASE Nanosleep(u) \/ TimedWait(u)
    BY <1>1, <2>1 DEF Nanosleep, TimedWait, Sleep
  <2>2. CASE Turn(u)
    <3>1. CASE u = t
      BY <2>2, <3>1
    <3>2. CASE u # t
      BY <1>1, <2>2, <3>2 DEF Turn, Returns, Leaves
    <3> QED BY <3>1, <3>2
  <2>3. CASE Unblock(u) \/ Signal(u)
    BY <1>2, <2>3 DEF Unblock, Signal
  <2>4. CASE Exit(u)
    BY <1>1, <2>4 DEF Exit, Leaves
  <2> QED BY <1>4, <2>1, <2>2, <2>3, <2>4
<1>5. CASE \E x \in Timers : CreateTimer(x) \/ DeleteTimer(x) \/ SetTime(x)
  BY <1>5 DEF CreateTimer, DeleteTimer, SetTime, Disarm, Arm, Record, threadVars
<1> QED BY <1>3, <1>4, <1>5 DEF ClockNext

\* clock_nanosleep: it does not return 0 before the deadline, however often the
\* thread is woken, if all deadlines are in the range of the counters.
THEOREM NobodyReturnsEarly ==
  ASSUME InRange
  PROVE  ClockSpec => NoEarlyReturn
<1> DEFINE InTime == \A t \in Sleepers \ (timed \cup signalled \cup back) :
                       at[t] = "woken" /\ at'[t] = "user" => left[t] <= 0
<1>1. SleepInv /\ [ClockNext]_clockVars => [InTime]_clockVars
  <2> SUFFICES ASSUME SleepInv, ClockNext,
                      NEW t \in Sleepers \ (timed \cup signalled \cup back),
                      at[t] = "woken", at'[t] = "user"
               PROVE  left[t] <= 0
    BY DEF InTime
  <2>1. SleepTypes /\ Single(sleeps) /\ Fits(sleeps, t) /\ left[t] \in Int
    BY DEF SleepInv, SleepTypes
  <2>2. Turn(t)
    BY WhoReturns
  <2>3. Counter(t) = 0
    <3>1. ~Interrupted(t)
      BY DEF Interrupted
    <3>2. at' # [at EXCEPT ![t] = "asleep"]
      BY <2>1 DEF SleepTypes
    <3> QED BY <2>2, <3>1, <3>2 DEF Turn
  <2>4. ASSUME left[t] > 0 PROVE FALSE
    <3>1. PICK i \in 1..Len(sleeps) : IsMine(sleeps, t, i) /\ sleeps[i].counter = left[t]
      BY <2>1, <2>4 DEF Fits, DeadlineFits
    <3>2. Mine(t, sleeps) \in 1..Len(sleeps) /\ IsMine(sleeps, t, Mine(t, sleeps))
      BY <2>1, <3>1, MineFinds DEF SleepTypes
    <3>3. Mine(t, sleeps) = i
      BY <2>1, <3>1, <3>2 DEF Single, IsMine
    <3>4. Counter(t) = left[t]
      BY <3>1, <3>2, <3>3 DEF Counter
    <3> QED BY <2>1, <2>3, <2>4, <3>4
  <2> QED BY <2>1, <2>4
<1> QED BY <1>1, SleepsFit, PTL DEF ClockSpec, NoEarlyReturn

----------------------------------------------------------------------------
\* The timers.

TimerRecords == [live : BOOLEAN, active : BOOLEAN, next : Int, abs : BOOLEAN, period : Nat]

\* Of two active timers the first expires first.
Sorted(list, tm) ==
  \A i, j \in 1..Len(list) :
    i < j /\ tm[list[i]].active /\ tm[list[j]].active => tm[list[i]].next <= tm[list[j]].next

\* A timer is on the list once, and was created.
TimersFit(list, tm) ==
  /\ list \in Seq(Timers) /\ tm \in [Timers -> TimerRecords]
  /\ NoRepeat(list) /\ \A i \in 1..Len(list) : tm[list[i]].live

TimerInv == /\ TimersFit(armed, timer) /\ mixed \in BOOLEAN
            /\ Mixed(armed, timer) => mixed
            /\ ~mixed /\ ~jumped => Sorted(armed, timer)

\* r is list without x.
TakenOut(list, r, x) ==
  \/ x \notin On(list) /\ r = list
  \/ \E n \in 1..Len(list) : list[n] = x /\ RemovedAt(list, r, n)

\* list::remove of a timer.
LEMMA RemoveFirstTakes ==
  ASSUME NEW S, NEW list \in Seq(S), NEW x
  PROVE  RemoveFirst(list, x) \in Seq(S) /\ TakenOut(list, RemoveFirst(list, x), x)
<1> DEFINE I == {i \in 1..Len(list) : list[i] = x}
<1>1. CASE I = {}
  <2>1. RemoveFirst(list, x) = list
    BY <1>1 DEF RemoveFirst
  <2>2. x \notin On(list)
    BY <1>1 DEF On
  <2> QED BY <2>1, <2>2 DEF TakenOut
<1>2. CASE I # {}
  <2>1. RemoveFirst(list, x) = RemoveAt(list, Min(I))
    BY <1>2 DEF RemoveFirst, SelectInSeq
  <2>2. Min(I) \in I
    <3>1. I \subseteq Nat
      OBVIOUS
    <3> HIDE DEF I
    <3> QED BY <1>2, <3>1, MinIsIn
  <2>3. PICK n \in 1..Len(list) : n = Min(I) /\ list[n] = x
    BY <2>2
  <2>4. RemoveAt(list, n) \in Seq(S) /\ RemovedAt(list, RemoveAt(list, n), n)
    BY RemoveTakes
  <2> QED BY <2>1, <2>3, <2>4 DEF TakenOut
<1> QED BY <1>1, <1>2

\* What is left of the list keeps its order.
LEMMA RemovedPlaces ==
  ASSUME NEW list, Len(list) \in Nat, NEW r, NEW n, RemovedAt(list, r, n), NEW i \in 1..Len(r)
  PROVE  \E x \in 1..Len(list) : /\ r[i] = list[x] /\ x # n
                                 /\ x = IF i < n THEN i ELSE i + 1
<1>1. CASE i < n
  <2>1. i \in 1..Len(list) /\ i # n /\ r[i] = list[i]
    BY <1>1 DEF RemovedAt
  <2> QED BY <1>1, <2>1
<1>2. CASE ~ (i < n)
  <2>1. i + 1 \in 1..Len(list) /\ i + 1 # n /\ r[i] = list[i + 1]
    BY <1>2 DEF RemovedAt
  <2> QED BY <1>2, <2>1
<1> QED BY <1>1, <1>2

\* The list without one timer.
LEMMA TakenOutKeeps ==
  ASSUME NEW S, NEW list \in Seq(S), NEW r \in Seq(S), NEW x, TakenOut(list, r, x), NoRepeat(list)
  PROVE  /\ NoRepeat(r) /\ On(r) = On(list) \ {x}
         /\ \A tm : Sorted(list, tm) => Sorted(r, tm)
         /\ \A tm : Mixed(r, tm) => Mixed(list, tm)
<1>1. CASE x \notin On(list) /\ r = list
  BY <1>1
<1>2. ASSUME NEW n \in 1..Len(list), list[n] = x, RemovedAt(list, r, n)
      PROVE  /\ NoRepeat(r) /\ On(r) = On(list) \ {x}
             /\ \A tm : Sorted(list, tm) => Sorted(r, tm)
             /\ \A tm : Mixed(r, tm) => Mixed(list, tm)
  <2>1. Len(list) \in Nat /\ Len(r) \in Nat /\ Len(r) = Len(list) - 1
    BY <1>2 DEF RemovedAt
  <2>0. \A i \in 1..Len(r) : \E a \in 1..Len(list) :
          r[i] = list[a] /\ a # n /\ a = IF i < n THEN i ELSE i + 1
    BY <1>2, <2>1, RemovedPlaces
  <2>2. ASSUME NEW i \in 1..Len(r), NEW j \in 1..Len(r), i < j
        PROVE  \E a, b \in 1..Len(list) : a < b /\ a # n /\ b # n /\ r[i] = list[a] /\ r[j] = list[b]
    <3>1. PICK a \in 1..Len(list) : r[i] = list[a] /\ a # n /\ a = IF i < n THEN i ELSE i + 1
      BY <2>0
    <3>2. PICK b \in 1..Len(list) : r[j] = list[b] /\ b # n /\ b = IF j < n THEN j ELSE j + 1
      BY <2>0
    <3>3. a < b
      BY <2>2, <3>1, <3>2
    <3> QED BY <3>1, <3>2, <3>3
  <2>3. NoRepeat(r)
    <3> SUFFICES ASSUME NEW i \in 1..Len(r), NEW j \in 1..Len(r), r[i] = r[j] PROVE i = j
      BY DEF NoRepeat
    <3>1. ~ (i < j) /\ ~ (j < i)
      BY <2>2 DEF NoRepeat
    <3> QED BY <3>1
  <2>4. On(r) = On(list) \ {x}
    <3>1. ASSUME NEW y \in On(r) PROVE y \in On(list) \ {x}
      <4>1. PICK i \in 1..Len(r) : y = r[i]
        BY DEF On
      <4>2. PICK a \in 1..Len(list) : r[i] = list[a] /\ a # n /\ a = IF i < n THEN i ELSE i + 1
        BY <2>0
      <4> QED BY <1>2, <4>1, <4>2 DEF On, NoRepeat
    <3>2. ASSUME NEW y \in On(list) \ {x} PROVE y \in On(r)
      <4>1. PICK a \in 1..Len(list) : y = list[a]
        BY DEF On
      <4>2. a # n
        BY <1>2, <4>1
      <4>3. CASE a < n
        <5>1. a \in 1..Len(r) /\ r[a] = list[a]
          BY <1>2, <2>1, <4>3 DEF RemovedAt
        <5> QED BY <4>1, <5>1 DEF On
      <4>4. CASE ~ (a < n)
        <5>1. a - 1 \in 1..Len(r) /\ r[a - 1] = list[a]
          BY <1>2, <2>1, <4>2, <4>4 DEF RemovedAt
        <5> QED BY <4>1, <5>1 DEF On
      <4> QED BY <4>3, <4>4
    <3> QED BY <3>1, <3>2
  <2>5. ASSUME NEW tm, Sorted(list, tm) PROVE Sorted(r, tm)
    <3> SUFFICES ASSUME NEW i \in 1..Len(r), NEW j \in 1..Len(r), i < j,
                        tm[r[i]].active, tm[r[j]].active
                 PROVE  tm[r[i]].next <= tm[r[j]].next
      BY DEF Sorted
    <3>1. PICK a, b \in 1..Len(list) : a < b /\ r[i] = list[a] /\ r[j] = list[b]
      BY <2>2
    <3> QED BY <2>5, <3>1 DEF Sorted
  <2>6. ASSUME NEW tm, Mixed(r, tm) PROVE Mixed(list, tm)
    <3>1. PICK i, j \in DOMAIN r : i < j /\ ~tm[r[i]].active /\ tm[r[j]].active
      BY <2>6 DEF Mixed
    <3>2. DOMAIN r = 1..Len(r) /\ DOMAIN list = 1..Len(list)
      BY <1>2, <2>1
    <3>3. PICK a, b \in 1..Len(list) : a < b /\ r[i] = list[a] /\ r[j] = list[b]
      BY <2>2, <3>1, <3>2
    <3> QED BY <3>1, <3>2, <3>3 DEF Mixed
  <2> QED BY <2>3, <2>4, <2>5, <2>6
<1> QED BY <1>1, <1>2 DEF TakenOut

\* place_timer: behind all that expire sooner.
PlacedAt(others, r, x, tm, k) ==
  /\ r \in Seq(Timers) /\ InsertedAt(others, r, x, k)
  /\ \A j \in 1..(k - 1) : tm[others[j]].next < tm[x].next
  /\ k <= Len(others) => tm[others[k]].next >= tm[x].next

\* place_timer: the timer is taken out and put behind all that expire sooner.
LEMMA PlaceTimerPuts ==
  ASSUME NEW list \in Seq(Timers), NEW x \in Timers, NEW tm \in [Timers -> TimerRecords]
  PROVE  \E others \in Seq(Timers) :
           /\ TakenOut(list, others, x)
           /\ \E k : PlacedAt(others, PlaceTimer(list, x, tm), x, tm, k)
<1>1. PICK others : others = RemoveFirst(list, x)
  OBVIOUS
<1>2. others \in Seq(Timers) /\ TakenOut(list, others, x)
  BY <1>1, RemoveFirstTakes
<1>3. PICK i : i = SelectInSeq(others, LAMBDA y : tm[y].next >= tm[x].next)
  OBVIOUS
<1> DEFINE I == {j \in 1..Len(others) : tm[others[j]].next >= tm[x].next}
<1>4. i = IF I # {} THEN Min(I) ELSE 0
  BY <1>3 DEF SelectInSeq
<1>5. I \subseteq Nat /\ Len(others) \in Nat
  BY <1>2
<1>6. /\ \A j \in 1..Len(others) : j \notin I => tm[others[j]].next < tm[x].next
      /\ \A j \in I : j \in 1..Len(others) /\ tm[others[j]].next >= tm[x].next
  <2>1. \A j \in 1..Len(others) : others[j] \in Timers
    BY <1>2
  <2>2. \A y \in Timers : tm[y].next \in Int
    BY DEF TimerRecords
  <2> QED BY <2>1, <2>2
<1> HIDE DEF I
<1>7. /\ i \in 0..Len(others)
      /\ i = 0 => \A j \in 1..Len(others) : tm[others[j]].next < tm[x].next
      /\ i # 0 => /\ tm[others[i]].next >= tm[x].next
                  /\ \A j \in 1..(i - 1) : tm[others[j]].next < tm[x].next
  <2>1. CASE I = {}
    BY <1>4, <1>5, <1>6, <2>1
  <2>2. CASE I # {}
    <3>1. i \in I /\ \A j \in I : i <= j
      BY <1>4, <1>5, <2>2, MinIsIn
    <3>2. i \in 1..Len(others) /\ tm[others[i]].next >= tm[x].next
      BY <1>6, <3>1
    <3>3. ASSUME NEW j \in 1..(i - 1) PROVE tm[others[j]].next < tm[x].next
      <4>1. j \in 1..Len(others) /\ ~ (i <= j)
        BY <1>5, <3>2
      <4>2. j \notin I
        BY <3>1, <4>1
      <4> QED BY <1>6, <4>1, <4>2
    <3>4. i # 0 /\ i \in 0..Len(others)
      BY <1>5, <3>2
    <3> QED BY <3>2, <3>3, <3>4
  <2> QED BY <2>1, <2>2
<1>8. PICK r : r = PlaceTimer(list, x, tm)
  OBVIOUS
<1> DEFINE k == IF i = 0 THEN Len(others) + 1 ELSE i
<1>9. r \in Seq(Timers) /\ InsertedAt(others, r, x, k)
  <2>1. r = Insert(others, x, i)
    BY <1>1, <1>3, <1>8 DEF PlaceTimer
  <2> QED BY <1>2, <1>7, <2>1, InsertPuts
<1>10. /\ \A j \in 1..(k - 1) : tm[others[j]].next < tm[x].next
       /\ k <= Len(others) => tm[others[k]].next >= tm[x].next
  <2>1. CASE i = 0
    <3>1. k = Len(others) + 1 /\ ~ (k <= Len(others)) /\ k - 1 = Len(others)
      BY <1>5, <2>1
    <3> HIDE DEF k
    <3> QED BY <1>7, <2>1, <3>1
  <2>2. CASE i # 0
    <3>1. k = i
      BY <2>2
    <3> HIDE DEF k
    <3> QED BY <1>7, <2>2, <3>1
  <2> QED BY <2>1, <2>2
<1> HIDE DEF k
<1>11. PlacedAt(others, r, x, tm, k)
  BY <1>9, <1>10 DEF PlacedAt
<1> QED BY <1>2, <1>8, <1>11

\* Where the entries of a list are found after one was put in.
LEMMA InsertedPlaces ==
  ASSUME NEW list, Len(list) \in Nat, NEW r, NEW e, NEW k, InsertedAt(list, r, e, k)
  PROVE  /\ k \in 1..Len(r) /\ r[k] = e
         /\ \A i \in 1..Len(r) : i # k => LET y == IF i < k THEN i ELSE i - 1
                                          IN  y \in 1..Len(list) /\ r[i] = list[y]
         /\ \A y \in 1..Len(list) : LET i == IF y < k THEN y ELSE y + 1
                                    IN  i \in 1..Len(r) /\ i # k /\ r[i] = list[y]
<1>1. k \in 1..Len(r) /\ r[k] = e /\ Len(r) = Len(list) + 1
  BY DEF InsertedAt
<1>2. ASSUME NEW i \in 1..Len(r), i # k
      PROVE  LET y == IF i < k THEN i ELSE i - 1 IN y \in 1..Len(list) /\ r[i] = list[y]
  BY <1>1, <1>2 DEF InsertedAt
<1>3. ASSUME NEW y \in 1..Len(list)
      PROVE  LET i == IF y < k THEN y ELSE y + 1 IN i \in 1..Len(r) /\ i # k /\ r[i] = list[y]
  <2>1. CASE y < k
    BY <1>1, <2>1 DEF InsertedAt
  <2>2. CASE ~ (y < k)
    <3>1. y + 1 \in 1..Len(r) /\ ~ (y + 1 < k) /\ y + 1 # k /\ (y + 1) - 1 = y
      BY <1>1, <2>2
    <3>2. r[y + 1] = list[y]
      BY <3>1 DEF InsertedAt
    <3> QED BY <2>2, <3>1, <3>2
  <2> QED BY <2>1, <2>2
<1> QED BY <1>1, <1>2, <1>3

\* place_timer keeps the order, unless a timer that is not active stands in front
\* of one that is.
LEMMA PlacedKeeps ==
  ASSUME NEW others \in Seq(Timers), NEW x \in Timers, NEW tm \in [Timers -> TimerRecords],
         NEW r, NEW k, PlacedAt(others, r, x, tm, k), NoRepeat(others), x \notin On(others)
  PROVE  /\ r \in Seq(Timers) /\ NoRepeat(r) /\ On(r) = On(others) \cup {x}
         /\ Mixed(others, tm) => Mixed(r, tm)
         /\ Sorted(others, tm) => Sorted(r, tm) \/ Mixed(r, tm)
<1>1. /\ r \in Seq(Timers) /\ InsertedAt(others, r, x, k) /\ Len(others) \in Nat
      /\ Len(r) = Len(others) + 1
      /\ \A j \in 1..(k - 1) : tm[others[j]].next < tm[x].next
      /\ k <= Len(others) => tm[others[k]].next >= tm[x].next
  BY DEF PlacedAt, InsertedAt
<1>2. /\ k \in 1..Len(r) /\ r[k] = x
      /\ \A i \in 1..Len(r) : i # k => LET y == IF i < k THEN i ELSE i - 1
                                       IN  y \in 1..Len(others) /\ r[i] = others[y]
      /\ \A y \in 1..Len(others) : LET i == IF y < k THEN y ELSE y + 1
                                   IN  i \in 1..Len(r) /\ i # k /\ r[i] = others[y]
  BY <1>1, InsertedPlaces
<1>3. NoRepeat(r)
  <2> SUFFICES ASSUME NEW i \in 1..Len(r), NEW j \in 1..Len(r), r[i] = r[j], i < j PROVE FALSE
    BY DEF NoRepeat
  <2>1. i # k /\ j # k
    <3>1. \A h \in 1..Len(r) : h # k => r[h] # x
      BY <1>2 DEF On
    <3> QED BY <1>2, <3>1
  <2>2. PICK a, b \in 1..Len(others) :
          /\ a = IF i < k THEN i ELSE i - 1
          /\ b = IF j < k THEN j ELSE j - 1
          /\ r[i] = others[a] /\ r[j] = others[b]
    BY <1>2, <2>1
  <2>3. a = b
    BY <2>2 DEF NoRepeat
  <2> QED BY <1>2, <2>1, <2>2, <2>3
<1>4. On(r) = On(others) \cup {x}
  <2>1. ASSUME NEW y \in On(r) PROVE y \in On(others) \cup {x}
    <3>1. PICK i \in 1..Len(r) : y = r[i]
      BY DEF On
    <3>2. CASE i = k
      BY <1>2, <3>1, <3>2
    <3>3. CASE i # k
      <4>1. \E a \in 1..Len(others) : r[i] = others[a]
        BY <1>2, <3>3
      <4> QED BY <3>1, <4>1 DEF On
    <3> QED BY <3>2, <3>3
  <2>2. ASSUME NEW y \in On(others) PROVE y \in On(r)
    <3>1. PICK a \in 1..Len(others) : y = others[a]
      BY DEF On
    <3>2. \E i \in 1..Len(r) : r[i] = others[a]
      BY <1>2
    <3> QED BY <3>1, <3>2 DEF On
  <2>3. x \in On(r)
    BY <1>2 DEF On
  <2> QED BY <2>1, <2>2, <2>3
<1>5. ASSUME Mixed(others, tm) PROVE Mixed(r, tm)
  <2>1. PICK a, b \in 1..Len(others) : a < b /\ ~tm[others[a]].active /\ tm[others[b]].active
    BY <1>5 DEF Mixed
  <2>2. PICK i, j \in 1..Len(r) :
          /\ i = IF a < k THEN a ELSE a + 1
          /\ j = IF b < k THEN b ELSE b + 1
          /\ r[i] = others[a] /\ r[j] = others[b]
    BY <1>2
  <2>3. i < j
    BY <1>2, <2>1, <2>2
  <2>4. DOMAIN r = 1..Len(r)
    BY <1>1
  <2> QED BY <2>1, <2>2, <2>3, <2>4 DEF Mixed
<1>6. ASSUME Sorted(others, tm), ~Mixed(r, tm) PROVE Sorted(r, tm)
  <2> SUFFICES ASSUME NEW i \in 1..Len(r), NEW j \in 1..Len(r), i < j,
                      tm[r[i]].active, tm[r[j]].active
               PROVE  tm[r[i]].next <= tm[r[j]].next
    BY DEF Sorted
  <2>1. \A y \in Timers : tm[y].next \in Int
    BY DEF TimerRecords
  <2>2. \A a, b \in 1..Len(others) :
          a < b /\ tm[others[a]].active /\ tm[others[b]].active =>
            tm[others[a]].next <= tm[others[b]].next
    BY <1>6 DEF Sorted
  <2>3. CASE i # k /\ j # k
    <3>1. PICK a, b \in 1..Len(others) :
            /\ a = IF i < k THEN i ELSE i - 1
            /\ b = IF j < k THEN j ELSE j - 1
            /\ r[i] = others[a] /\ r[j] = others[b]
      BY <1>2, <2>3
    <3>2. a < b
      BY <1>2, <2>3, <3>1
    <3> QED BY <2>2, <3>1, <3>2
  <2>4. CASE j = k
    <3>1. PICK a \in 1..Len(others) : a = i /\ a < k /\ r[i] = others[a]
      BY <1>2, <2>4
    <3>2. tm[others[a]].next < tm[x].next
      <4>1. a \in 1..(k - 1)
        BY <1>2, <3>1
      <4> QED BY <1>1, <4>1
    <3>3. others[a] \in Timers
      BY <3>1
    <3> QED BY <1>2, <2>1, <2>4, <3>1, <3>2, <3>3
  <2>5. CASE i = k
    <3>1. PICK b \in 1..Len(others) : b = j - 1 /\ r[j] = others[b]
      <4>1. k \in Nat /\ ~ (j < k) /\ j # k
        BY <1>2, <2>5
      <4> QED BY <1>2, <4>1
    <3>2. k \in 1..Len(others) /\ (b = k \/ k < b)
      BY <1>1, <1>2, <2>5, <3>1
    <3>3. tm[others[k]].next >= tm[x].next
      BY <1>1, <3>2
    <3>4. others[k] \in Timers /\ others[b] \in Timers
      BY <3>1, <3>2
    <3>5. tm[others[k]].next <= tm[others[b]].next
      <4>1. CASE b = k
        BY <2>1, <3>4, <4>1
      <4>2. CASE k < b
        <5>1. PICK h \in 1..Len(r) : h = k + 1 /\ r[h] = others[k]
          BY <1>2, <3>2
        <5>2. h < j
          BY <1>2, <3>1, <4>2, <5>1
        <5>3. tm[r[h]].active
          <6>1. DOMAIN r = 1..Len(r)
            BY <1>1
          <6> QED BY <1>6, <5>2, <6>1 DEF Mixed
        <5> QED BY <2>2, <3>1, <3>2, <4>2, <5>1, <5>3
      <4> QED BY <3>2, <4>1, <4>2
    <3>6. tm[x].next \in Int /\ tm[others[k]].next \in Int /\ tm[others[b]].next \in Int
      BY <2>1, <3>4
    <3> QED BY <1>2, <2>5, <3>1, <3>3, <3>5, <3>6
  <2> QED BY <2>3, <2>4, <2>5
<1> QED BY <1>1, <1>3, <1>4, <1>5, <1>6

\* The timers of a list that are due.
Overdue(c) == {x \in On(c.list) : c.timer[x].active /\ c.timer[x].next <= 0}

\* The state of the loop over the timers.
LoopFits(c) == /\ c = [list |-> c.list, timer |-> c.timer]
               /\ TimersFit(c.list, c.timer)

\* One turn of the loop over the timers: one timer fewer is due.
LEMMA FireTimerFires ==
  ASSUME NEW c, LoopFits(c), TimerDue(c)
  PROVE  /\ LoopFits(FireTimer(c))
         /\ Mixed(c.list, c.timer) => Mixed(FireTimer(c).list, FireTimer(c).timer)
         /\ Sorted(c.list, c.timer) =>
              \/ Sorted(FireTimer(c).list, FireTimer(c).timer)
              \/ Mixed(FireTimer(c).list, FireTimer(c).timer)
         /\ \E x \in Overdue(c) : Overdue(FireTimer(c)) = Overdue(c) \ {x}
<1> DEFINE list == c.list
           old == c.timer
           x == Head(list)
<1>1. /\ c = [list |-> list, timer |-> old] /\ list \in Seq(Timers)
      /\ old \in [Timers -> TimerRecords] /\ NoRepeat(list)
      /\ \A i \in 1..Len(list) : old[list[i]].live
  BY DEF LoopFits, TimersFit
<1>2. list # <<>> /\ old[x].active /\ old[x].next <= 0
  BY DEF TimerDue
<1> HIDE DEF list, old
<1>3. /\ x = list[1] /\ Len(list) \in Nat /\ 1 \in 1..Len(list) /\ x \in Timers
      /\ DOMAIN list = 1..Len(list)
  BY <1>1, <1>2
<1> HIDE DEF x
<1>4. old[x] \in TimerRecords /\ old[x].period \in Nat
  BY <1>1, <1>3 DEF TimerRecords
<1>5. x \in Overdue(c)
  BY <1>2, <1>3 DEF Overdue, On, list, old
<1>6. CASE old[x].period = 0
  <2>1. PICK r : r = Tail(list)
    OBVIOUS
  <2>2. FireTimer(c) = [list |-> r, timer |-> old]
    <3>1. FireTimer(c) = [c EXCEPT !.list = Tail(list)]
      BY <1>6 DEF FireTimer, list, old, x
    <3> QED BY <1>1, <2>1, <3>1
  <2>3. FireTimer(c).list = r /\ FireTimer(c).timer = old
    BY <2>2
  <2>4. r \in Seq(Timers) /\ Len(r) = Len(list) - 1 /\ \A i \in 1..Len(r) : r[i] = list[i + 1]
    BY <1>1, <1>2, <1>3, <2>1
  <2>5. RemovedAt(list, r, 1) /\ TakenOut(list, r, x)
    BY <1>3, <2>4 DEF RemovedAt, TakenOut
  <2>6. /\ NoRepeat(r) /\ On(r) = On(list) \ {x}
        /\ Sorted(list, old) => Sorted(r, old)
    BY <1>1, <2>4, <2>5, TakenOutKeeps
  <2>7. LoopFits(FireTimer(c))
    <3>1. \A i \in 1..Len(r) : old[r[i]].live
      BY <1>1, <1>3, <2>4
    <3> QED BY <1>1, <2>2, <2>3, <2>4, <2>6, <3>1 DEF LoopFits, TimersFit
  <2>8. ASSUME Mixed(list, old) PROVE Mixed(r, old)
    <3>1. PICK i, j \in 1..Len(list) : i < j /\ ~old[list[i]].active /\ old[list[j]].active
      BY <1>3, <2>8 DEF Mixed
    <3>2. i # 1
      BY <1>2, <1>3, <3>1
    <3>3. PICK a, b \in 1..Len(r) : a = i - 1 /\ b = j - 1
      BY <1>3, <2>4, <3>1, <3>2
    <3>4. r[a] = list[i] /\ r[b] = list[j] /\ a < b
      BY <2>4, <3>1, <3>3
    <3>5. DOMAIN r = 1..Len(r)
      BY <2>4
    <3> QED BY <3>1, <3>3, <3>4, <3>5 DEF Mixed
  <2>9. Overdue(FireTimer(c)) = Overdue(c) \ {x}
    BY <2>3, <2>6 DEF Overdue, list, old
  <2> QED BY <1>5, <2>3, <2>6, <2>7, <2>8, <2>9 DEF list, old
<1>7. CASE old[x].period # 0
  <2>1. PICK f : f = old[x]
    OBVIOUS
  <2>2. PICK g : g = [[f EXCEPT !.next = f.period] EXCEPT !.abs = FALSE]
    OBVIOUS
  <2>3. /\ g \in TimerRecords /\ g.live = f.live /\ g.active = f.active /\ g.next = f.period
    <3>1. PICK n \in Int : n = f.period
      BY <1>4, <2>1
    <3>2. PICK h : h = [f EXCEPT !.next = n]
      OBVIOUS
    <3>3. f \in TimerRecords
      BY <1>4, <2>1
    <3>4. h \in TimerRecords /\ h.live = f.live /\ h.active = f.active /\ h.next = n
      BY ONLY <3>2, <3>3, n \in Int DEF TimerRecords
    <3>5. g = [h EXCEPT !.abs = FALSE]
      BY <2>2, <3>1, <3>2
    <3>6. g \in TimerRecords /\ g.live = h.live /\ g.active = h.active /\ g.next = h.next
      BY ONLY <3>4, <3>5 DEF TimerRecords
    <3> QED BY <3>1, <3>4, <3>6
  <2>4. PICK tm : tm = [old EXCEPT ![x] = g]
    OBVIOUS
  <2>5. /\ tm \in [Timers -> TimerRecords] /\ tm[x] = g
        /\ \A y \in Timers : y # x => tm[y] = old[y]
        /\ \A y \in Timers : tm[y].live = old[y].live /\ tm[y].active = old[y].active
    BY <1>1, <1>3, <2>1, <2>3, <2>4
  <2>6. PICK r : r = PlaceTimer(list, x, tm)
    OBVIOUS
  <2>7. FireTimer(c) = [list |-> r, timer |-> tm]
    <3>1. [old EXCEPT ![x].next = old[x].period, ![x].abs = FALSE] = tm
      BY <1>1, <1>3, <2>1, <2>2, <2>4
    <3>2. FireTimer(c) = [c EXCEPT !.list = PlaceTimer(list, x, tm), !.timer = tm]
      BY <1>7, <3>1 DEF FireTimer, list, old, x
    <3> QED BY <1>1, <2>6, <3>2
  <2>8. FireTimer(c).list = r /\ FireTimer(c).timer = tm
    BY <2>7
  <2>9. PICK others \in Seq(Timers) :
          TakenOut(list, others, x) /\ \E k : PlacedAt(others, r, x, tm, k)
    BY <1>1, <1>3, <2>5, <2>6, PlaceTimerPuts
  <2> PICK k : PlacedAt(others, r, x, tm, k)
    BY <2>9
  <2>10. /\ NoRepeat(others) /\ On(others) = On(list) \ {x}
         /\ Sorted(list, old) => Sorted(others, old)
    BY <1>1, <2>9, TakenOutKeeps
  <2>11. /\ r \in Seq(Timers) /\ NoRepeat(r) /\ On(r) = On(others) \cup {x}
         /\ Mixed(others, tm) => Mixed(r, tm)
         /\ Sorted(others, tm) => Sorted(r, tm) \/ Mixed(r, tm)
    BY <1>3, <2>5, <2>9, <2>10, PlacedKeeps
  <2>12. x \in On(list) /\ On(r) = On(list) /\ On(list) \subseteq Timers
    <3>1. x \in On(list) /\ On(list) \subseteq Timers
      BY <1>1, <1>3 DEF On
    <3> QED BY <2>10, <2>11, <3>1
  <2>13. LoopFits(FireTimer(c))
    <3>1. \A y \in On(r) : tm[y].live
      BY <1>1, <2>5, <2>12 DEF On
    <3>2. \A i \in 1..Len(r) : tm[r[i]].live
      BY <3>1 DEF On
    <3> QED BY <2>5, <2>7, <2>8, <2>11, <3>2 DEF LoopFits, TimersFit
  <2>14. \A i \in 1..Len(others) : others[i] \in Timers /\ tm[others[i]] = old[others[i]]
    <3>1. \A i \in 1..Len(others) : others[i] \in On(others)
      BY DEF On
    <3> QED BY <2>5, <2>10, <2>12, <3>1
  <2>15. ASSUME Mixed(list, old) PROVE Mixed(r, tm)
    <3>1. PICK i, j \in 1..Len(list) : i < j /\ ~old[list[i]].active /\ old[list[j]].active
      BY <1>3, <2>15 DEF Mixed
    <3>2. PICK n \in 1..Len(list) : list[n] = x /\ RemovedAt(list, others, n)
      BY <2>9, <2>12 DEF TakenOut
    <3>3. n = 1 /\ i # 1
      BY <1>1, <1>2, <1>3, <3>1, <3>2 DEF NoRepeat
    <3>4. PICK a, b \in 1..Len(others) : a = i - 1 /\ b = j - 1
      BY <1>3, <3>1, <3>2, <3>3 DEF RemovedAt
    <3>5. others[a] = list[i] /\ others[b] = list[j] /\ a < b
      BY <1>3, <3>1, <3>2, <3>3, <3>4 DEF RemovedAt
    <3>6. DOMAIN others = 1..Len(others)
      BY <2>9
    <3>7. Mixed(others, tm)
      BY <2>14, <3>1, <3>4, <3>5, <3>6 DEF Mixed
    <3> QED BY <2>11, <3>7
  <2>16. Sorted(list, old) => Sorted(r, tm) \/ Mixed(r, tm)
    <3>1. Sorted(others, old) => Sorted(others, tm)
      BY <2>14 DEF Sorted
    <3> QED BY <2>10, <2>11, <3>1
  <2>17. Overdue(FireTimer(c)) = Overdue(c) \ {x}
    <3>1. tm[x].next = old[x].period /\ ~ (tm[x].next <= 0)
      BY <1>4, <1>7, <2>1, <2>3, <2>5
    <3>2. \A y \in On(list) : y # x => tm[y] = old[y]
      BY <2>5, <2>12
    <3> QED BY <2>8, <2>12, <3>1, <3>2 DEF Overdue, list, old
  <2> QED BY <1>5, <2>8, <2>13, <2>15, <2>16, <2>17 DEF list, old
<1> QED BY <1>6, <1>7

\* No more timers are due than the list has entries.
LEMMA DueBound ==
  ASSUME NEW c, LoopFits(c)
  PROVE  IsFiniteSet(Overdue(c)) /\ Cardinality(Overdue(c)) \in Nat /\ Cardinality(Overdue(c)) <= Len(c.list)
<1> DEFINE list == c.list
           n == Len(list)
<1>1. list \in Seq(Timers) /\ n \in Nat /\ list \in [1..n -> Timers]
  BY DEF LoopFits, TimersFit
<1> HIDE DEF list
<1>2. list \in Surjection(1..n, On(list))
  <2>1. list \in [1..n -> On(list)]
    BY <1>1 DEF On
  <2> QED BY <2>1 DEF Surjection, On
<1>3. IsFiniteSet(1..n) /\ Cardinality(1..n) = n
  BY <1>1, FS_Interval
<1>4. IsFiniteSet(On(list)) /\ Cardinality(On(list)) <= n
  BY <1>2, <1>3, FS_Surjection
<1>5. Overdue(c) \in SUBSET On(list)
  BY DEF Overdue, list
<1>6. IsFiniteSet(Overdue(c)) /\ Cardinality(Overdue(c)) <= Cardinality(On(list))
  BY <1>4, <1>5, FS_Subset
<1>7. Cardinality(Overdue(c)) \in Nat /\ Cardinality(On(list)) \in Nat
  BY <1>4, <1>6, FS_CardinalityType
<1> HIDE DEF n
<1>8. Cardinality(Overdue(c)) <= n
  BY <1>1, <1>4, <1>6, <1>7
<1> QED BY <1>6, <1>7, <1>8 DEF n, list

\* add_clock_time: its loop leaves no timer at the head that is due.
LEMMA FireTimersFires ==
  ASSUME NEW c0, LoopFits(c0)
  PROVE  \E c : /\ c = FireTimers(c0.list, c0.timer)
                /\ LoopFits(c) /\ ~TimerDue(c)
                /\ Mixed(c.list, c.timer) \/ (Sorted(c0.list, c0.timer) => Sorted(c.list, c.timer))
<1> DEFINE Rec(f, m) == f = [i \in 0..m |-> IF i = 0 THEN c0 ELSE TimersTurn(f[i - 1])]
           n == Len(c0.list)
           Undefined == {m \in Nat : ~ (\E f : Rec(f, m))}
<1>1. n \in Nat /\ c0 = [list |-> c0.list, timer |-> c0.timer]
  BY DEF LoopFits, TimersFit
<1> HIDE DEF n
<1>2. Undefined = {}
  <2> SUFFICES ASSUME Undefined # {} PROVE FALSE
    OBVIOUS
  <2>1. PICK m \in Undefined : \A j \in Undefined : m <= j
    BY SmallestNumber
  <2>2. m \in Nat /\ ~ (\E f : Rec(f, m))
    BY <2>1
  <2>3. CASE m = 0
    <3>1. Rec([i \in 0..0 |-> c0], 0)
      OBVIOUS
    <3> QED BY <2>2, <2>3, <3>1
  <2>4. CASE m # 0
    <3>1. m - 1 \in Nat /\ ~ (m <= m - 1)
      BY <2>2, <2>4
    <3>2. m - 1 \notin Undefined
      BY <2>1, <3>1
    <3>3. PICK f : Rec(f, m - 1)
      BY <3>1, <3>2
    <3> DEFINE g == [i \in 0..m |-> IF i = 0 THEN c0 ELSE TimersTurn(f[i - 1])]
    <3>4. ASSUME NEW j \in 0..(m - 1) PROVE g[j] = f[j]
      <4>1. j \in 0..m
        BY <2>2
      <4>2. g[j] = IF j = 0 THEN c0 ELSE TimersTurn(f[j - 1])
        BY <4>1
      <4>3. f[j] = IF j = 0 THEN c0 ELSE TimersTurn(f[j - 1])
        BY <3>3
      <4> QED BY <4>2, <4>3
    <3>5. ASSUME NEW i \in 0..m, i # 0 PROVE g[i - 1] = f[i - 1]
      <4>1. i - 1 \in 0..(m - 1)
        BY <2>2, <3>5
      <4> QED BY <3>4, <4>1
    <3>6. Rec(g, m)
      BY <3>5
    <3> QED BY <2>2, <3>6
  <2> QED BY <2>3, <2>4
<1>3. PICK f : FireTimers(c0.list, c0.timer) = f[n] /\ Rec(f, n)
  <2>1. \E f : Rec(f, n)
    BY <1>1, <1>2
  <2>2. Rec(CHOOSE f : Rec(f, n), n)
    BY <2>1
  <2>3. FireTimers(c0.list, c0.timer) = (CHOOSE f : Rec(f, n))[n]
    BY <1>1 DEF FireTimers, n
  <2> QED BY <2>2, <2>3
<1> DEFINE Reached(i) ==
             LET c == f[i]
             IN  /\ LoopFits(c)
                 /\ Mixed(c.list, c.timer) \/ (Sorted(c0.list, c0.timer) => Sorted(c.list, c.timer))
                 /\ ~TimerDue(c) \/ Cardinality(Overdue(c)) <= n - i
           Unreached == {i \in 0..n : ~Reached(i)}
<1>4. Unreached = {}
  <2> SUFFICES ASSUME Unreached # {} PROVE FALSE
    OBVIOUS
  <2>1. PICK i \in Unreached : \A j \in Unreached : i <= j
    <3>1. Unreached \subseteq Nat
      BY <1>1
    <3> HIDE DEF Unreached
    <3> QED BY <3>1, SmallestNumber
  <2>2. i \in Nat /\ i \in 0..n /\ ~Reached(i)
    BY <1>1, <2>1
  <2>3. f[i] = IF i = 0 THEN c0 ELSE TimersTurn(f[i - 1])
    BY <1>3, <2>2
  <2>4. CASE i = 0
    <3>1. Cardinality(Overdue(c0)) <= n - 0
      <4>1. Cardinality(Overdue(c0)) <= n
        BY DueBound DEF n
      <4> QED BY <1>1, <4>1
    <3> QED BY <2>2, <2>3, <2>4, <3>1
  <2>5. CASE i # 0
    <3>1. i - 1 \in 0..n /\ ~ (i <= i - 1)
      BY <1>1, <2>2, <2>5
    <3>2. Reached(i - 1)
      BY <2>1, <3>1
    <3>3. PICK c : c = f[i - 1]
      OBVIOUS
    <3>4. /\ LoopFits(c)
          /\ Mixed(c.list, c.timer) \/ (Sorted(c0.list, c0.timer) => Sorted(c.list, c.timer))
          /\ ~TimerDue(c) \/ Cardinality(Overdue(c)) <= n - (i - 1)
      BY <3>2, <3>3
    <3>5. f[i] = TimersTurn(c)
      BY <2>3, <2>5, <3>3
    <3>6. CASE TimerDue(c)
      <4>1. PICK d : d = FireTimer(c) /\ d = f[i]
        BY <3>5, <3>6 DEF TimersTurn
      <4>2. /\ LoopFits(d)
            /\ Mixed(c.list, c.timer) => Mixed(d.list, d.timer)
            /\ Sorted(c.list, c.timer) => Sorted(d.list, d.timer) \/ Mixed(d.list, d.timer)
            /\ \E x \in Overdue(c) : Overdue(d) = Overdue(c) \ {x}
        BY <3>4, <3>6, <4>1, FireTimerFires
      <4>3. Cardinality(Overdue(d)) <= n - i
        <5>1. PICK x \in Overdue(c) : Overdue(d) = Overdue(c) \ {x}
          BY <4>2
        <5>2. IsFiniteSet(Overdue(c)) /\ Cardinality(Overdue(c)) \in Nat
          BY <3>4, DueBound
        <5>3. Cardinality(Overdue(d)) = Cardinality(Overdue(c)) - 1
          BY <5>1, <5>2, FS_RemoveElement
        <5> QED BY <1>1, <2>2, <3>4, <3>6, <5>2, <5>3
      <4>4. Mixed(d.list, d.timer) \/ (Sorted(c0.list, c0.timer) => Sorted(d.list, d.timer))
        BY <3>4, <4>2
      <4> QED BY <2>2, <4>1, <4>2, <4>3, <4>4
    <3>7. CASE ~TimerDue(c)
      <4>1. f[i] = c
        BY <3>5, <3>7 DEF TimersTurn
      <4> QED BY <2>2, <3>4, <3>7, <4>1
    <3> QED BY <3>6, <3>7
  <2> QED BY <2>4, <2>5
<1>5. PICK c : c = f[n]
  OBVIOUS
<1>6. /\ LoopFits(c)
      /\ Mixed(c.list, c.timer) \/ (Sorted(c0.list, c0.timer) => Sorted(c.list, c.timer))
      /\ ~TimerDue(c) \/ Cardinality(Overdue(c)) <= n - n
  <2>1. Reached(n)
    BY <1>1, <1>4
  <2> QED BY <1>5, <2>1
<1>7. ~TimerDue(c)
  <2> SUFFICES ASSUME TimerDue(c) PROVE FALSE
    OBVIOUS
  <2>1. IsFiniteSet(Overdue(c)) /\ Cardinality(Overdue(c)) \in Nat
    BY <1>6, DueBound
  <2>2. Cardinality(Overdue(c)) = 0
    BY <1>1, <1>6, <2>1
  <2>3. Overdue(c) = {}
    BY <2>1, <2>2, FS_EmptySet
  <2>4. \E x \in Overdue(c) : TRUE
    BY <1>6, FireTimerFires
  <2> QED BY <2>3, <2>4
<1> QED BY <1>3, <1>5, <1>6, <1>7

\* What a step on timers has to show.
LEMMA RecordKeeps ==
  ASSUME TimerInv, NEW list, NEW tm, Record(list, tm), TimersFit(list, tm),
         Sorted(armed, timer) => Sorted(list, tm) \/ Mixed(list, tm)
  PROVE  TimerInv'
<1>1. /\ armed' = list /\ timer' = tm /\ jumped' = jumped
      /\ mixed' = (mixed \/ Mixed(list, tm))
  BY DEF Record
<1>2. TimersFit(armed, timer)'
  BY <1>1 DEF TimersFit
<1>3. mixed' \in BOOLEAN
  BY <1>1
<1>4. Mixed(armed, timer)' => mixed'
  BY <1>1 DEF Mixed
<1>5. (~mixed /\ ~jumped => Sorted(armed, timer))'
  <2>1. ~mixed' /\ ~jumped => Sorted(list, tm)
    BY <1>1 DEF TimerInv
  <2> QED BY <1>1, <2>1 DEF Sorted
<1> QED BY <1>2, <1>3, <1>4, <1>5 DEF TimerInv

\* create_timer.
LEMMA CreateKeeps ==
  ASSUME TimerInv, NEW x \in Timers, CreateTimer(x)
  PROVE  TimerInv'
<1>1. PICK g \in Garbage :
        Record(Append(armed, x), [timer EXCEPT ![x] = [NoTimer EXCEPT !.live = TRUE, !.next = g]])
  BY DEF CreateTimer
<1>2. ~timer[x].live
  BY DEF CreateTimer
<1>3. PICK e : e = [NoTimer EXCEPT !.live = TRUE, !.next = g]
  OBVIOUS
<1>4. e \in TimerRecords /\ e.live = TRUE /\ e.active = FALSE
  BY <1>3, TimesAssumption DEF NoTimer, TimerRecords
<1>5. PICK tm : tm = [timer EXCEPT ![x] = e]
  OBVIOUS
<1>6. PICK r : r = Append(armed, x)
  OBVIOUS
<1>7. /\ armed \in Seq(Timers) /\ timer \in [Timers -> TimerRecords] /\ NoRepeat(armed)
      /\ \A i \in 1..Len(armed) : timer[armed[i]].live
  BY DEF TimerInv, TimersFit
<1>8. /\ tm \in [Timers -> TimerRecords] /\ tm[x] = e /\ \A y \in Timers : y # x => tm[y] = timer[y]
  BY <1>4, <1>5, <1>7
<1>9. /\ r \in Seq(Timers) /\ Len(r) = Len(armed) + 1 /\ Len(armed) \in Nat /\ r[Len(r)] = x
      /\ \A i \in 1..Len(armed) : r[i] = armed[i] /\ r[i] \in Timers /\ r[i] # x
  BY <1>2, <1>6, <1>7
<1>10. \A i \in 1..Len(r) : i = Len(r) \/ i \in 1..Len(armed)
  BY <1>9
<1>11. TimersFit(r, tm)
  <2>1. NoRepeat(r)
    BY <1>7, <1>9, <1>10 DEF NoRepeat
  <2>2. \A i \in 1..Len(r) : tm[r[i]].live
    BY <1>4, <1>7, <1>8, <1>9, <1>10
  <2> QED BY <1>8, <1>9, <2>1, <2>2 DEF TimersFit
<1>12. ASSUME Sorted(armed, timer) PROVE Sorted(r, tm)
  <2> SUFFICES ASSUME NEW i \in 1..Len(r), NEW j \in 1..Len(r), i < j,
                      tm[r[i]].active, tm[r[j]].active
               PROVE  tm[r[i]].next <= tm[r[j]].next
    BY DEF Sorted
  <2>1. i \in 1..Len(armed) /\ j \in 1..Len(armed)
    BY <1>4, <1>8, <1>9, <1>10
  <2>2. tm[r[i]] = timer[armed[i]] /\ tm[r[j]] = timer[armed[j]]
    BY <1>8, <1>9, <2>1
  <2> QED BY <1>12, <2>1, <2>2 DEF Sorted
<1>13. Record(r, tm)
  BY <1>1, <1>3, <1>5, <1>6
<1> QED BY <1>11, <1>12, <1>13, RecordKeeps

\* delete_timer.
LEMMA DeleteKeeps ==
  ASSUME TimerInv, NEW x \in Timers, DeleteTimer(x)
  PROVE  TimerInv'
<1>1. PICK r : r = RemoveFirst(armed, x)
  OBVIOUS
<1>2. PICK tm : tm = [timer EXCEPT ![x] = NoTimer]
  OBVIOUS
<1>3. Record(r, tm)
  BY <1>1, <1>2 DEF DeleteTimer
<1>4. /\ armed \in Seq(Timers) /\ timer \in [Timers -> TimerRecords] /\ NoRepeat(armed)
      /\ \A i \in 1..Len(armed) : timer[armed[i]].live
  BY DEF TimerInv, TimersFit
<1>5. /\ tm \in [Timers -> TimerRecords] /\ \A y \in Timers : y # x => tm[y] = timer[y]
  BY <1>2, <1>4 DEF NoTimer, TimerRecords
<1>6. r \in Seq(Timers) /\ TakenOut(armed, r, x)
  BY <1>1, <1>4, RemoveFirstTakes
<1>7. /\ NoRepeat(r) /\ On(r) = On(armed) \ {x}
      /\ Sorted(armed, timer) => Sorted(r, timer)
  BY <1>4, <1>6, TakenOutKeeps
<1>8. \A i \in 1..Len(r) : r[i] \in On(armed) /\ r[i] # x /\ r[i] \in Timers
  BY <1>6, <1>7 DEF On
<1>9. \A i \in 1..Len(r) : tm[r[i]] = timer[r[i]]
  BY <1>5, <1>8
<1>10. TimersFit(r, tm)
  <2>1. \A y \in On(armed) : timer[y].live
    BY <1>4 DEF On
  <2> QED BY <1>5, <1>6, <1>7, <1>8, <1>9, <2>1 DEF TimersFit
<1>11. Sorted(r, timer) => Sorted(r, tm)
  BY <1>9 DEF Sorted
<1> QED BY <1>3, <1>7, <1>10, <1>11, RecordKeeps

\* set_time.
LEMMA SetKeeps ==
  ASSUME TimerInv, NEW x \in Timers, SetTime(x)
  PROVE  TimerInv'
<1>1. /\ armed \in Seq(Timers) /\ timer \in [Timers -> TimerRecords] /\ NoRepeat(armed)
      /\ \A i \in 1..Len(armed) : timer[armed[i]].live
  BY DEF TimerInv, TimersFit
<1>2. ASSUME Disarm(x) PROVE TimerInv'
  <2>1. PICK f : f = timer[x]
    OBVIOUS
  <2>2. PICK e : e = [f EXCEPT !.active = FALSE]
    OBVIOUS
  <2>3. f \in TimerRecords
    BY <1>1, <2>1
  <2>4. e \in TimerRecords /\ e.live = f.live /\ e.active = FALSE
    BY ONLY <2>2, <2>3 DEF TimerRecords
  <2>5. PICK tm : tm = [timer EXCEPT ![x] = e]
    OBVIOUS
  <2>6. Record(armed, tm)
    <3>1. [timer EXCEPT ![x].active = FALSE] = tm
      BY <1>1, <2>1, <2>2, <2>5
    <3> QED BY <1>2, <3>1 DEF Disarm
  <2>7. /\ tm \in [Timers -> TimerRecords] /\ tm[x] = e
        /\ \A y \in Timers : y # x => tm[y] = timer[y]
    BY <1>1, <2>4, <2>5
  <2>8. \A i \in 1..Len(armed) : /\ armed[i] \in Timers /\ tm[armed[i]].live
                                 /\ tm[armed[i]].active => tm[armed[i]] = timer[armed[i]]
    BY <1>1, <2>1, <2>4, <2>7
  <2>9. TimersFit(armed, tm)
    BY <1>1, <2>7, <2>8 DEF TimersFit
  <2>10. Sorted(armed, timer) => Sorted(armed, tm)
    BY <2>8 DEF Sorted
  <2> QED BY <2>6, <2>9, <2>10, RecordKeeps
<1>3. ASSUME NEW n \in Int, NEW abs \in BOOLEAN, NEW p \in Nat, Arm(x, n, abs, p)
      PROVE  TimerInv'
  <2>1. PICK e : e = [live |-> TRUE, active |-> TRUE, next |-> n, abs |-> abs, period |-> p]
    OBVIOUS
  <2>2. e \in TimerRecords /\ e.live = TRUE
    BY <2>1 DEF TimerRecords
  <2>3. PICK tm : tm = [timer EXCEPT ![x] = e]
    OBVIOUS
  <2>4. PICK r : r = PlaceTimer(armed, x, tm)
    OBVIOUS
  <2>5. Record(r, tm)
    BY <1>3, <2>1, <2>3, <2>4 DEF Arm
  <2>6. /\ tm \in [Timers -> TimerRecords] /\ tm[x] = e
        /\ \A y \in Timers : y # x => tm[y] = timer[y]
    BY <1>1, <2>2, <2>3
  <2>7. PICK others \in Seq(Timers) :
          TakenOut(armed, others, x) /\ \E k : PlacedAt(others, r, x, tm, k)
    BY <1>1, <2>4, <2>6, PlaceTimerPuts
  <2> PICK k : PlacedAt(others, r, x, tm, k)
    BY <2>7
  <2>8. /\ NoRepeat(others) /\ On(others) = On(armed) \ {x}
        /\ Sorted(armed, timer) => Sorted(others, timer)
    BY <1>1, <2>7, TakenOutKeeps
  <2>9. /\ r \in Seq(Timers) /\ NoRepeat(r) /\ On(r) = On(others) \cup {x}
        /\ Sorted(others, tm) => Sorted(r, tm) \/ Mixed(r, tm)
    BY <2>6, <2>7, <2>8, PlacedKeeps
  <2>10. \A i \in 1..Len(others) : tm[others[i]] = timer[others[i]]
    <3>1. \A i \in 1..Len(others) : others[i] \in Timers /\ others[i] # x
      BY <2>7, <2>8 DEF On
    <3> QED BY <2>6, <3>1
  <2>11. TimersFit(r, tm)
    <3>1. \A y \in On(armed) : timer[y].live
      BY <1>1 DEF On
    <3>2. \A i \in 1..Len(r) : r[i] = x \/ (r[i] \in On(armed) /\ r[i] \in Timers /\ r[i] # x)
      <4>1. \A i \in 1..Len(r) : r[i] \in On(r) /\ r[i] \in Timers
        BY <2>9 DEF On
      <4> QED BY <2>8, <2>9, <4>1
    <3>3. \A i \in 1..Len(r) : tm[r[i]].live
      BY <2>2, <2>6, <3>1, <3>2
    <3> QED BY <2>6, <2>9, <3>3 DEF TimersFit
  <2>12. Sorted(others, timer) => Sorted(others, tm)
    BY <2>10 DEF Sorted
  <2> QED BY <2>5, <2>8, <2>9, <2>11, <2>12, RecordKeeps
<1>4. CASE Disarm(x)
  BY <1>2, <1>4
<1>5. CASE \E p \in Periods : \/ \E n \in Delays : n # 0 /\ Arm(x, n, FALSE, p)
                              \/ \E n \in Offsets : Arm(x, n, TRUE, p)
  <2>1. PICK p \in Periods, n \in Delays \cup Offsets, abs \in BOOLEAN : Arm(x, n, abs, p)
    BY <1>5
  <2>2. p \in Nat /\ n \in Int
    BY TimesAssumption
  <2> QED BY <1>3, <2>1, <2>2
<1> QED BY <1>4, <1>5 DEF SetTime

\* What is left of a timer after num ticks.
LEMMA CountedTimerFits ==
  ASSUME NEW x \in TimerRecords, NEW num \in Int, NEW set \in BOOLEAN
  PROVE  /\ CountedTimer(x, num, set) \in TimerRecords
         /\ CountedTimer(x, num, set).live = x.live /\ CountedTimer(x, num, set).active = x.active
         /\ ~set /\ x.active => CountedTimer(x, num, set).next =
                                  IF x.next < num THEN 0 ELSE x.next - num
<1>1. CASE ~x.active \/ (set /\ ~x.abs)
  BY <1>1 DEF CountedTimer
<1>2. CASE ~(~x.active \/ (set /\ ~x.abs))
  <2>1. PICK n : n = IF x.next < num THEN 0 ELSE x.next - num
    OBVIOUS
  <2>2. n \in Int
    BY <2>1 DEF TimerRecords
  <2>3. PICK y : y = [x EXCEPT !.next = n]
    OBVIOUS
  <2>4. y \in TimerRecords /\ y.live = x.live /\ y.active = x.active /\ y.next = n
    BY ONLY <2>2, <2>3, x \in TimerRecords DEF TimerRecords
  <2>5. CountedTimer(x, num, set) = y
    BY <1>2, <2>1, <2>3 DEF CountedTimer
  <2> QED BY <2>1, <2>4, <2>5
<1> QED BY <1>1, <1>2

\* A tick or a clock_settime: if no timer stands behind one that is not active,
\* the first to expire is at the head, and is not due.
LEMMA TimePasses ==
  ASSUME TimerInv, NEW num \in Int, NEW set \in BOOLEAN, AddClockTime(num, set)
  PROVE  /\ TimersFit(armed', timer') /\ mixed' = (mixed \/ Mixed(armed', timer'))
         /\ ~TimerDue([list |-> armed', timer |-> timer'])
         /\ ~set /\ ~mixed' /\ ~jumped => Sorted(armed', timer')
<1>1. /\ armed \in Seq(Timers) /\ timer \in [Timers -> TimerRecords] /\ NoRepeat(armed)
      /\ \A i \in 1..Len(armed) : timer[armed[i]].live
  BY DEF TimerInv, TimersFit
<1>2. PICK tm : tm = [x \in Timers |-> CountedTimer(timer[x], num, set)]
  OBVIOUS
<1>3. PICK c : c = FireTimers(armed, tm)
  OBVIOUS
<1>4. armed' = c.list /\ timer' = c.timer /\ mixed' = (mixed \/ Mixed(c.list, c.timer))
  BY <1>2, <1>3 DEF AddClockTime
<1>5. \A x \in Timers :
        /\ tm[x] \in TimerRecords /\ tm[x].live = timer[x].live
        /\ tm[x].active = timer[x].active
        /\ ~set /\ timer[x].active => tm[x].next = IF timer[x].next < num THEN 0 ELSE timer[x].next - num
  <2> SUFFICES ASSUME NEW x \in Timers
               PROVE  /\ tm[x] \in TimerRecords /\ tm[x].live = timer[x].live
                      /\ tm[x].active = timer[x].active
                      /\ ~set /\ timer[x].active =>
                           tm[x].next = IF timer[x].next < num THEN 0 ELSE timer[x].next - num
    OBVIOUS
  <2>1. timer[x] \in TimerRecords /\ tm[x] = CountedTimer(timer[x], num, set)
    BY <1>1, <1>2
  <2> QED BY <2>1, CountedTimerFits
<1>6. tm \in [Timers -> TimerRecords]
  BY <1>2, <1>5
<1>7. PICK c0 : c0 = [list |-> armed, timer |-> tm]
  OBVIOUS
<1>8. c0.list = armed /\ c0.timer = tm
  BY <1>7
<1>9. LoopFits(c0)
  BY <1>1, <1>5, <1>6, <1>7, <1>8 DEF LoopFits, TimersFit
<1>10. /\ LoopFits(c) /\ ~TimerDue(c)
       /\ Mixed(c.list, c.timer) \/ (Sorted(armed, tm) => Sorted(c.list, c.timer))
  BY <1>3, <1>8, <1>9, FireTimersFires
<1>11. ASSUME ~set, Sorted(armed, timer) PROVE Sorted(armed, tm)
  <2> SUFFICES ASSUME NEW i \in 1..Len(armed), NEW j \in 1..Len(armed), i < j,
                      tm[armed[i]].active, tm[armed[j]].active
               PROVE  tm[armed[i]].next <= tm[armed[j]].next
    BY DEF Sorted
  <2>1. PICK x, y \in Timers : x = armed[i] /\ y = armed[j]
    BY <1>1
  <2>2. timer[x].active /\ timer[y].active /\ timer[x].next \in Int /\ timer[y].next \in Int
    BY <1>1, <1>5, <2>1 DEF TimerRecords
  <2>3. timer[x].next <= timer[y].next
    BY <1>11, <2>1, <2>2 DEF Sorted
  <2>4. /\ tm[x].next = IF timer[x].next < num THEN 0 ELSE timer[x].next - num
        /\ tm[y].next = IF timer[y].next < num THEN 0 ELSE timer[y].next - num
    BY <1>5, <1>11, <2>2
  <2> QED BY <2>1, <2>2, <2>3, <2>4
<1>12. ~TimerDue([list |-> armed', timer |-> timer'])
  <2>1. c = [list |-> armed', timer |-> timer']
    BY <1>4, <1>10 DEF LoopFits
  <2> QED BY <1>10, <2>1
<1>13. ~set /\ ~mixed' /\ ~jumped => Sorted(c.list, c.timer)
  BY <1>4, <1>10, <1>11 DEF TimerInv
<1> QED BY <1>4, <1>10, <1>12, <1>13 DEF LoopFits

\* tick and clock_settime.
LEMMA TimePassesKeeps ==
  ASSUME TimerInv, Tick \/ \E num \in Jumps : ClockSettime(num)
  PROVE  TimerInv'
<1>1. CASE Tick
  <2>1. PICK num \in Int : num = 1
    OBVIOUS
  <2>2. PICK set \in BOOLEAN : set = FALSE
    OBVIOUS
  <2>3. AddClockTime(num, set) /\ jumped' = jumped
    BY <1>1, <2>1, <2>2 DEF Tick
  <2>4. /\ TimersFit(armed', timer') /\ mixed' = (mixed \/ Mixed(armed', timer'))
        /\ ~mixed' /\ ~jumped => Sorted(armed', timer')
    BY <2>2, <2>3, TimePasses
  <2>5. TimersFit(armed, timer)' /\ mixed' \in BOOLEAN
    BY <2>4 DEF TimersFit
  <2> QED BY <2>3, <2>4, <2>5 DEF TimerInv, Mixed, Sorted
<1>2. ASSUME NEW num \in Jumps, ClockSettime(num) PROVE TimerInv'
  <2>1. num \in Int
    BY TimesAssumption
  <2>2. PICK set \in BOOLEAN : set = TRUE
    OBVIOUS
  <2>3. AddClockTime(num, set) /\ jumped' = TRUE
    BY <1>2, <2>2 DEF ClockSettime
  <2>4. TimersFit(armed', timer') /\ mixed' = (mixed \/ Mixed(armed', timer'))
    BY <2>1, <2>3, TimePasses
  <2>5. TimersFit(armed, timer)' /\ mixed' \in BOOLEAN
    BY <2>4 DEF TimersFit
  <2> QED BY <2>3, <2>4, <2>5 DEF TimerInv, Mixed
<1> QED BY <1>1, <1>2

\* There are no timers to begin with.
LEMMA TimersInit == ClockInit => TimerInv
<1> SUFFICES ASSUME ClockInit PROVE TimerInv
  OBVIOUS
<1>1. armed = <<>> /\ timer = [x \in Timers |-> NoTimer] /\ mixed = FALSE
  BY DEF ClockInit
<1>2. armed \in Seq(Timers) /\ 1..Len(armed) = {} /\ DOMAIN armed = {}
  BY <1>1
<1>3. timer \in [Timers -> TimerRecords]
  BY <1>1 DEF NoTimer, TimerRecords
<1> QED BY <1>1, <1>2, <1>3 DEF TimerInv, TimersFit, NoRepeat, Sorted, Mixed

\* Every step keeps the invariant of the timers.
LEMMA TimersStep == TimerInv /\ [ClockNext]_clockVars => TimerInv'
<1> SUFFICES ASSUME TimerInv, [ClockNext]_clockVars PROVE TimerInv'
  OBVIOUS
<1>1. CASE Tick \/ \E num \in Jumps : ClockSettime(num)
  BY <1>1, TimePassesKeeps
<1>2. ASSUME armed' = armed, timer' = timer, mixed' = mixed, jumped' = jumped
      PROVE  TimerInv'
  BY <1>2 DEF TimerInv, TimersFit, Mixed, Sorted
<1>3. ASSUME NEW t \in Sleepers,
             Nanosleep(t) \/ TimedWait(t) \/ Turn(t) \/ Unblock(t) \/ Signal(t) \/ Exit(t)
      PROVE  TimerInv'
  BY <1>2, <1>3 DEF Nanosleep, TimedWait, Sleep, Turn, Unblock, Signal, Exit, timerVars
<1>4. CASE \E x \in Timers : CreateTimer(x) \/ DeleteTimer(x) \/ SetTime(x)
  BY <1>4, CreateKeeps, DeleteKeeps, SetKeeps
<1>5. CASE UNCHANGED clockVars
  BY <1>2, <1>5 DEF clockVars, timerVars
<1> QED BY <1>1, <1>3, <1>4, <1>5 DEF ClockNext

\* The list of timers holds timers that were created, each of them once, and the
\* active ones in order, unless one that is not active stood in front of others.
THEOREM TimersFitAlways == ClockSpec => []TimerInv
<1> QED BY TimersInit, TimersStep, PTL DEF ClockSpec

\* place_timer, add_clock_time: after a tick no active timer on the list is due,
\* unless one that is not active stood in front of others or the clock was set.
THEOREM TimersExpireOnTime == ClockSpec => TimersOnTime
<1> DEFINE OnTime == Tick => \/ mixed' \/ jumped
                             \/ \A i \in DOMAIN armed' :
                                  timer'[armed'[i]].active => timer'[armed'[i]].next > 0
<1>1. TimerInv /\ [ClockNext]_clockVars => [OnTime]_clockVars
  <2> SUFFICES ASSUME TimerInv, Tick, ~mixed', ~jumped, NEW i \in DOMAIN armed',
                      timer'[armed'[i]].active
               PROVE  timer'[armed'[i]].next > 0
    BY DEF OnTime
  <2>1. PICK num \in Int : num = 1
    OBVIOUS
  <2>2. PICK set \in BOOLEAN : set = FALSE
    OBVIOUS
  <2>3. AddClockTime(num, set)
    BY <2>1, <2>2 DEF Tick
  <2>4. /\ TimersFit(armed', timer') /\ mixed' = (mixed \/ Mixed(armed', timer'))
        /\ ~TimerDue([list |-> armed', timer |-> timer'])
        /\ Sorted(armed', timer')
    BY <2>2, <2>3, TimePasses
  <2>5. /\ armed' \in Seq(Timers) /\ timer' \in [Timers -> TimerRecords]
        /\ DOMAIN armed' = 1..Len(armed') /\ ~Mixed(armed', timer')
    <3>1. armed' \in Seq(Timers) /\ timer' \in [Timers -> TimerRecords]
      BY <2>4 DEF TimersFit
    <3>2. DOMAIN armed' = 1..Len(armed')
      BY <3>1
    <3>3. ~Mixed(armed', timer')
      BY <2>4
    <3> QED BY <3>1, <3>2, <3>3
  <2>6. /\ 1 \in 1..Len(armed') /\ armed' # <<>> /\ Head(armed') = armed'[1]
        /\ (1 = i \/ 1 < i) /\ i \in 1..Len(armed')
    BY <2>5
  <2>7. timer'[armed'[1]].active
    BY <2>5, <2>6 DEF Mixed
  <2>8. ~ (timer'[armed'[1]].next <= 0)
    BY <2>4, <2>6, <2>7 DEF TimerDue
  <2>9. timer'[armed'[1]].next <= timer'[armed'[i]].next
    <3>1. \A x \in Timers : timer'[x].next \in Int
      BY <2>5 DEF TimerRecords
    <3>2. armed'[1] \in Timers
      BY <2>5, <2>6
    <3>3. CASE 1 = i
      BY <3>1, <3>2, <3>3
    <3>4. CASE 1 < i
      BY <2>4, <2>6, <2>7, <3>4 DEF Sorted
    <3> QED BY <2>6, <3>3, <3>4
  <2>10. timer'[armed'[1]].next \in Int /\ timer'[armed'[i]].next \in Int
    <3>1. \A x \in Timers : timer'[x].next \in Int
      BY <2>5 DEF TimerRecords
    <3> QED BY <2>5, <2>6, <3>1
  <2> QED BY <2>8, <2>9, <2>10
<1> QED BY <1>1, TimersFitAlways, PTL DEF ClockSpec, TimersOnTime

\* The types of the sleeps, the timers and the threads.
THEOREM ClockTypeCorrect == ClockSpec => []ClockTypeOK
<1>1. SleepInv /\ TimerInv => ClockTypeOK
  <2> SUFFICES ASSUME SleepInv, TimerInv PROVE ClockTypeOK
    OBVIOUS
  <2>1. \A i \in DOMAIN sleeps : sleeps[i] \in Entries
    BY DEF SleepInv, SleepTypes
  <2>2. \A i \in DOMAIN armed : armed[i] \in Timers
    BY DEF TimerInv, TimersFit
  <2> QED BY <2>1, <2>2 DEF SleepInv, SleepTypes, TimerInv, TimersFit, ClockTypeOK, Entries,
                            TimerRecords
<1> QED BY <1>1, SleepsFit, TimersFitAlways, PTL

----------------------------------------------------------------------------
\* Signals.

\* What a thread is inside of, at a point p with the frames fs: a stop or a
\* sigsuspend has its frame, and a sigsuspend is the outermost.
Nested(p, fs) ==
  /\ p \in {"stopped", "stopWoken"} => fs # <<>>
  /\ p \in {"suspended", "suspWoken"} => Len(fs) = 1 /\ fs[1].kind = "suspend"
  /\ \A i \in 1..Len(fs) :
       /\ fs[i].at = "stopWoken" => i < Len(fs)
       /\ fs[i].at = "suspWoken" => i = Len(fs) - 1 /\ fs[Len(fs)].kind = "suspend"

NestedFrames == \A t \in Threads : Nested(pc[t], frames[t])

\* The inductive invariant.  The handlers, stops and suspensions a thread comes
\* back from must be there, and the signals it takes must have an instance.
Inv == /\ TypeOK /\ NestedFrames
       /\ PendingHasInfo /\ NobodySleepsOnPending /\ EveryoneTold /\ ToldIsAwake

----------------------------------------------------------------------------
USE HolderAssumption, SignalAssumption, SetsAssumption

\* Lowest finds one of the signals it looks at.
LEMMA LowestIsIn ==
  ASSUME NEW S, S \subseteq Signals, S # {}
  PROVE  Lowest(S) \in S
<1> DEFINE N == {Number[s] : s \in S}
<1>1. N \subseteq Nat /\ N # {}
  OBVIOUS
<1>2. PICK n \in N : \A k \in N : n <= k
  BY <1>1, SmallestNumber
<1>3. \E s \in S : \A r \in S : Number[s] <= Number[r]
  BY <1>2
<1> QED BY <1>3 DEF Lowest

\* A thread that is woken is inside of what it was inside of.
LEMMA WokenFacts ==
  ASSUME NEW p \in Points
  PROVE  /\ WokenAt(p) \in Awake
         /\ p \in Awake => WokenAt(p) = p
         /\ \A fs : Nested(p, fs) => Nested(WokenAt(p), fs)
BY DEF Points, Sleeps, Awake, WokenAt, Nested

\* A handler or a stop begins at a point of the thread, and ends.
LEMMA Push ==
  ASSUME NEW p \in Awake, NEW fs \in Seq(Frames), Nested(p, fs),
         NEW k \in {"handler", "stop"}, NEW m \in SUBSET Handled
  PROVE  /\ <<Frame(k, m, p)>> \o fs \in Seq(Frames)
         /\ Nested("user", <<Frame(k, m, p)>> \o fs)
         /\ Nested("stopped", <<Frame(k, m, p)>> \o fs)
         /\ \E i \in DOMAIN (<<Frame(k, m, p)>> \o fs) :
              (<<Frame(k, m, p)>> \o fs)[i].kind # "suspend"
<1> DEFINE f == Frame(k, m, p)
           g == <<f>> \o fs
<1>1. f \in Frames /\ f.kind = k /\ f.at = p
  BY DEF Frame, Frames
<1>2. g \in Seq(Frames) /\ Len(g) = Len(fs) + 1 /\ Len(fs) \in Nat
  BY <1>1
<1>3. g[1] = f /\ \A i \in 2..Len(g) : g[i] = fs[i - 1] /\ i - 1 \in 1..Len(fs)
  BY <1>1, <1>2
<1> HIDE DEF f, g
<1>4. ASSUME NEW i \in 1..Len(g)
      PROVE  /\ g[i].at = "stopWoken" => i < Len(g)
             /\ g[i].at = "suspWoken" => i = Len(g) - 1 /\ g[Len(g)].kind = "suspend"
  <2>1. CASE i = 1
    <3>1. ASSUME p = "suspWoken" PROVE Len(g) = 2 /\ g[Len(g)].kind = "suspend"
      <4>1. Len(fs) = 1 /\ fs[1].kind = "suspend"
        BY <3>1 DEF Nested
      <4>2. Len(g) = 2 /\ 2 \in 2..Len(g)
        BY <1>2, <4>1
      <4>3. g[2] = fs[2 - 1]
        BY <1>3, <4>2
      <4> QED BY <4>1, <4>2, <4>3
    <3>2. ASSUME p = "stopWoken" PROVE Len(g) > 1
      BY <1>2, <3>2 DEF Nested
    <3>3. g[i].at = p
      BY <1>1, <1>3, <2>1
    <3> QED BY <2>1, <3>1, <3>2, <3>3
  <2>2. CASE i # 1
    <3>1. i \in 2..Len(g) /\ g[i] = fs[i - 1] /\ i - 1 \in 1..Len(fs)
      BY <1>2, <1>3, <2>2
    <3>2. /\ fs[i - 1].at = "stopWoken" => i - 1 < Len(fs)
          /\ fs[i - 1].at = "suspWoken" => i - 1 = Len(fs) - 1 /\ fs[Len(fs)].kind = "suspend"
      BY <3>1 DEF Nested
    <3>3. g[Len(g)] = fs[Len(fs)]
      BY <1>2, <1>3, <3>1
    <3> QED BY <1>2, <3>1, <3>2, <3>3
  <2> QED BY <2>1, <2>2
<1>5. g # <<>>
  BY <1>2
<1>6. Nested("user", g) /\ Nested("stopped", g)
  BY <1>4, <1>5 DEF Nested
<1>7. 1 \in DOMAIN g /\ g[1].kind # "suspend"
  BY <1>1, <1>2, <1>3
<1> QED BY <1>2, <1>6, <1>7 DEF f, g

LEMMA Pop ==
  ASSUME NEW p, NEW fs \in Seq(Frames), fs # <<>>, Nested(p, fs)
  PROVE  /\ Head(fs) \in Frames /\ Tail(fs) \in Seq(Frames)
         /\ Nested(Head(fs).at, Tail(fs))
<1> DEFINE g == Tail(fs)
<1>1. /\ Head(fs) \in Frames /\ Head(fs) = fs[1]
      /\ g \in Seq(Frames) /\ Len(g) = Len(fs) - 1 /\ Len(fs) \in Nat \ {0}
      /\ \A i \in 1..Len(g) : g[i] = fs[i + 1] /\ i + 1 \in 1..Len(fs)
  OBVIOUS
<1> HIDE DEF g
<1>2. ASSUME NEW i \in 1..Len(g)
      PROVE  /\ g[i].at = "stopWoken" => i < Len(g)
             /\ g[i].at = "suspWoken" => i = Len(g) - 1 /\ g[Len(g)].kind = "suspend"
  <2>1. g[i] = fs[i + 1] /\ i + 1 \in 1..Len(fs) /\ g[Len(g)] = fs[Len(fs)]
    BY <1>1
  <2>2. /\ fs[i + 1].at = "stopWoken" => i + 1 < Len(fs)
        /\ fs[i + 1].at = "suspWoken" => i + 1 = Len(fs) - 1 /\ fs[Len(fs)].kind = "suspend"
    BY <2>1 DEF Nested
  <2> QED BY <1>1, <2>1, <2>2
<1>3. fs[1].at = "stopWoken" => g # <<>>
  <2>1. fs[1].at = "stopWoken" => 1 < Len(fs)
    BY <1>1 DEF Nested
  <2> QED BY <1>1, <2>1
<1>4. fs[1].at = "suspWoken" => Len(g) = 1 /\ g[1].kind = "suspend"
  <2>1. fs[1].at = "suspWoken" => 1 = Len(fs) - 1 /\ fs[Len(fs)].kind = "suspend"
    BY <1>1 DEF Nested
  <2>2. ASSUME Len(fs) = 2, fs[Len(fs)].kind = "suspend"
        PROVE  Len(g) = 1 /\ g[1].kind = "suspend"
    <3>1. Len(g) = 1 /\ 1 \in 1..Len(g)
      BY <1>1, <2>2
    <3>2. g[1] = fs[1 + 1]
      BY <1>1, <3>1
    <3> QED BY <2>2, <3>1, <3>2
  <2>3. fs[1].at = "suspWoken" => Len(fs) = 2
    <3>1. \A n \in Nat : 1 = n - 1 => n = 2
      OBVIOUS
    <3>2. Len(fs) \in Nat
      BY <1>1
    <3> QED BY <2>1, <3>1, <3>2, Zenon
  <2> QED BY <2>1, <2>2, <2>3, Zenon
<1>5. fs[1].at \in Awake
  BY <1>1 DEF Frames
<1>6. Nested(fs[1].at, g)
  BY <1>2, <1>3, <1>4, <1>5 DEF Nested, Awake
<1> QED BY <1>1, <1>6 DEF g

----------------------------------------------------------------------------
\* A step in which one thread takes signals, or begins or ends what it is inside
\* of: nobody else's signals become more, and the thread still looks for its own.
LEMMA LocalStep ==
  ASSUME Inv, NEW t \in Threads, NEW m \in SUBSET Handled, NEW n \in Int,
         NEW fs \in Seq(Frames), NEW p \in Awake \cup {"stopped"}, Nested(p, fs),
         Becomes(t, m, n, fs, p),
         waiting' = waiting, executed' \subseteq Threads,
         pend' \in [Holders -> SUBSET Signals],
         queue' \in [Holders -> [RealTime -> Nat]], PendingHasInfo',
         \A u \in Threads : u # t => pend'[u] = pend[u],
         pend'[Process] \subseteq pend[Process], pend'[t] \subseteq pend[t] \cup {Stop},
         received' \subseteq received, \A u \in received : u # t => u \in received',
         excused' \in [Threads -> SUBSET Signals],
         \A u \in Threads : excused[u] \subseteq excused'[u],
         p = "stopped" => Stop \in pend'[t],
         \A s \in (pend'[t] \cup pend'[Process]) \ m :
            \/ t \in received' \/ s \in excused'[t]
            \/ \E i \in DOMAIN fs : fs[i].kind # "suspend"
  PROVE  Inv'
<1>1. /\ mask \in [Threads -> SUBSET Handled] /\ frames \in [Threads -> Seq(Frames)]
      /\ pc \in [Threads -> Points] /\ inSignal \in [Threads -> Int]
      /\ received \subseteq Threads /\ waiting \in [Threads -> SUBSET Handled]
      /\ pend \in [Holders -> SUBSET Signals]
  BY DEF Inv, TypeOK
<1>2. /\ mask'[t] = m /\ frames'[t] = fs /\ pc'[t] = p /\ inSignal'[t] = n
      /\ \A u \in Threads : u # t => /\ mask'[u] = mask[u] /\ frames'[u] = frames[u]
                                     /\ pc'[u] = pc[u] /\ inSignal'[u] = inSignal[u]
  BY <1>1 DEF Becomes
<1>3. TypeOK'
  <2>1. p \in Points
    BY DEF Points, Sleeps
  <2>2. /\ mask' \in [Threads -> SUBSET Handled] /\ frames' \in [Threads -> Seq(Frames)]
        /\ pc' \in [Threads -> Points] /\ inSignal' \in [Threads -> Int]
    BY <1>1, <2>1 DEF Becomes
  <2> QED BY <1>1, <2>2 DEF TypeOK
<1>4. NestedFrames'
  BY <1>2 DEF Inv, NestedFrames
<1>5. NobodySleepsOnPending'
  <2>1. p \notin {"sigwait", "sigtimed"}
    BY DEF Awake
  <2>2. ASSUME NEW u \in Threads, u # t
        PROVE  /\ pc'[u] \in {"sigwait", "sigtimed"} => Found(u, waiting[u])' = {}
               /\ pc'[u] = "stopped" => Stop \in pend'[u]
    BY <1>1, <1>2, <2>2 DEF Inv, NobodySleepsOnPending, Found
  <2> QED BY <1>2, <2>1, <2>2 DEF NobodySleepsOnPending
<1>6. EveryoneTold'
  <2>1. ASSUME NEW u \in Threads, u # t, NEW s \in (pend'[u] \cup pend'[Process]) \ mask'[u]
        PROVE  \/ u \in received' \/ s \in excused'[u]
               \/ \E i \in DOMAIN frames'[u] : frames'[u][i].kind # "suspend"
    <3>1. s \in (pend[u] \cup pend[Process]) \ mask[u]
      BY <1>2, <2>1
    <3>2. \/ u \in received \/ s \in excused[u]
          \/ \E i \in DOMAIN frames[u] : frames[u][i].kind # "suspend"
      BY <3>1 DEF Inv, EveryoneTold
    <3> QED BY <1>2, <2>1, <3>2
  <2> QED BY <1>2, <2>1 DEF EveryoneTold
<1>7. ToldIsAwake'
  BY <1>2 DEF Inv, ToldIsAwake, MustDeliver, Awake
<1> QED BY <1>3, <1>4, <1>5, <1>6, <1>7 DEF Inv

\* The signal that a turn of the loop takes is there to be taken.
LEMMA DueFacts ==
  ASSUME TypeOK, NEW t \in Threads, NEW c, Due(t, c) # {}
  PROVE  /\ Due(t, c) \subseteq Signals
         /\ Lowest(Due(t, c)) \in Due(t, c)
         /\ Lowest(Due(t, c)) \in pend[t] \cup pend[Process]
<1>1. Due(t, c) \subseteq Signals
  BY DEF TypeOK, Due, Holders
<1>2. Lowest(Due(t, c)) \in Due(t, c)
  BY <1>1, LowestIsIn
<1> QED BY <1>1, <1>2 DEF Due

\* The loop of execute_signals, from whatever its thread comes to it with.
LEMMA LoopKeeps ==
  ASSUME Inv, NEW t \in Threads, NEW m \in SUBSET Handled, NEW n \in Int,
         NEW fs \in Seq(Frames), NEW p \in Awake, Nested(p, fs), NEW R,
         R \subseteq received, \A u \in received : u # t => u \in R,
         waiting' = waiting, executed' \subseteq Threads,
         Loop(t, [mask |-> m, depth |-> n, frames |-> fs, at |-> p, told |-> R])
  PROVE  Inv'
<1> DEFINE c == [mask |-> m, depth |-> n, frames |-> fs, at |-> p, told |-> R]
           D == (pend[t] \cup pend[Process]) \ m
<1>1. /\ pend \in [Holders -> SUBSET Signals] /\ queue \in [Holders -> [RealTime -> Nat]]
      /\ excused \in [Threads -> SUBSET Signals] /\ t \in Holders /\ Process \in Holders
      /\ Stop \in Signals /\ t # Process
  BY DEF Inv, TypeOK, Holders, Signals
<1>2. /\ c.mask = m /\ c.depth = n /\ c.frames = fs /\ c.at = p /\ c.told = R
      /\ Due(t, c) = D
  BY DEF Due
<1>3. TypeOK /\ PendingHasInfo
  BY DEF Inv
<1> HIDE DEF c
<1>4. CASE StopHere(t, c)
  <2> DEFINE g == <<Frame("stop", m, p)>> \o fs
  <2>1. /\ pend' = [pend EXCEPT ![t] = @ \cup {Stop}] /\ received' = R
        /\ Becomes(t, m, n, g, "stopped") /\ queue' = queue /\ excused' = excused
    BY <1>2, <1>4 DEF StopHere
  <2>2. /\ g \in Seq(Frames) /\ Nested("stopped", g)
        /\ \E i \in DOMAIN g : g[i].kind # "suspend"
    BY Push
  <2> HIDE DEF g
  <2>3. PendingHasInfo'
    BY <1>1, <1>3, <2>1 DEF PendingHasInfo, Handled
  <2>4. /\ pend' \in [Holders -> SUBSET Signals] /\ Stop \in pend'[t]
        /\ \A u \in Threads : u # t => pend'[u] = pend[u]
        /\ pend'[Process] \subseteq pend[Process] /\ pend'[t] \subseteq pend[t] \cup {Stop}
    BY <1>1, <2>1 DEF Holders
  <2> QED BY <1>1, <2>1, <2>2, <2>3, <2>4, LocalStep
<1>5. CASE RunHandler(t, c)
  <2> DEFINE s == Lowest(D)
             h == IF s \in pend[t] THEN t ELSE Process
             g == <<Frame("handler", m, p)>> \o fs
  <2>1. /\ D # {} /\ Stop \notin D /\ s # Cont
        /\ queue' = Popped(h, s) /\ received' = R /\ excused' = excused
        /\ Becomes(t, HandlerMask[s] \cup {s}, n + 1, g, "user")
    BY <1>2, <1>5 DEF RunHandler
  <2>2. s \in D /\ s \in Signals /\ s \in pend[h] /\ h \in Holders
    <3>1. s \in D /\ D \subseteq Signals
      BY <1>2, <1>3, <2>1, DueFacts
    <3> QED BY <1>1, <3>1
  <2>3. s \in Handled
    BY <2>1, <2>2 DEF Signals
  <2>4. /\ g \in Seq(Frames) /\ Nested("user", g)
        /\ \E i \in DOMAIN g : g[i].kind # "suspend"
    BY Push
  <2>5. HandlerMask[s] \cup {s} \in SUBSET Handled
    BY <2>3
  <2>6. \/ /\ s \in RealTime /\ queue[h][s] > 1
           /\ pend' = [pend EXCEPT ![h] = @]
        \/ pend' = [pend EXCEPT ![h] = @ \ {s}]
    BY <1>2, <1>5 DEF RunHandler
  <2> HIDE DEF s, h, g
  <2>7. s \in RealTime => queue[h][s] > 0
    BY <1>3, <2>2 DEF PendingHasInfo
  <2>8. queue' \in [Holders -> [RealTime -> Nat]]
    BY <1>1, <2>1, <2>2, <2>7 DEF Popped
  <2>9. PendingHasInfo'
    BY <1>1, <1>3, <2>1, <2>2, <2>6 DEF PendingHasInfo, Popped
  <2>10. pend' \in [Holders -> SUBSET Signals]
    <3>1. pend[h] \in SUBSET Signals /\ pend[h] \ {s} \in SUBSET Signals
      BY <1>1, <2>2
    <3>2. ASSUME NEW P \in SUBSET Signals
          PROVE  [pend EXCEPT ![h] = P] \in [Holders -> SUBSET Signals]
      BY <1>1
    <3>3. CASE pend' = [pend EXCEPT ![h] = @]
      BY <1>1, <3>3
    <3>4. CASE pend' = [pend EXCEPT ![h] = @ \ {s}]
      BY <3>1, <3>2, <3>4
    <3> QED BY <2>6, <3>3, <3>4
  <2>11. h \in {t, Process}
    BY DEF h
  <2>12. /\ \A u \in Threads : u # t => pend'[u] = pend[u]
         /\ pend'[Process] \subseteq pend[Process] /\ pend'[t] \subseteq pend[t]
    BY <1>1, <2>6, <2>11 DEF Holders
  <2>13. n + 1 \in Int /\ "user" \in Awake \cup {"stopped"} /\ "user" # "stopped"
    BY DEF Awake
  <2>14. pend'[t] \subseteq pend[t] \cup {Stop}
    BY <2>12
  <2>15. \A u \in Threads : excused[u] \subseteq excused'[u]
    BY <2>1
  <2>16. PICK m2 \in SUBSET Handled, n2 \in Int : Becomes(t, m2, n2, g, "user")
    BY <2>1, <2>5, <2>13
  <2> QED BY <1>1, <2>1, <2>4, <2>8, <2>9, <2>10, <2>12, <2>13, <2>14, <2>15, <2>16, LocalStep
<1>6. CASE Continued(t, c)
  <2> DEFINE h == IF Cont \in pend[t] THEN t ELSE Process
  <2>1. /\ pend' = [pend EXCEPT ![h] = @ \ {Cont}] /\ received' = R \ {t}
        /\ excused' = [excused EXCEPT ![t] = @ \cup D]
        /\ Becomes(t, m, n + 1, fs, p) /\ queue' = queue
    BY <1>2, <1>6 DEF Continued
  <2>2. h \in {t, Process} /\ h \in Holders
    BY <1>1
  <2> HIDE DEF h
  <2>3. PendingHasInfo'
    BY <1>1, <1>3, <2>1, <2>2 DEF PendingHasInfo
  <2>4. /\ pend' \in [Holders -> SUBSET Signals]
        /\ \A u \in Threads : u # t => pend'[u] = pend[u]
        /\ pend'[Process] \subseteq pend[Process] /\ pend'[t] \subseteq pend[t]
    BY <1>1, <2>1, <2>2 DEF Holders
  <2>5. D \subseteq Signals
    BY <1>1
  <2>6. /\ excused' \in [Threads -> SUBSET Signals] /\ D \subseteq excused'[t]
        /\ \A u \in Threads : excused[u] \subseteq excused'[u]
    BY <1>1, <2>1, <2>5
  <2>7. \A s \in (pend'[t] \cup pend'[Process]) \ m : s \in excused'[t]
    BY <2>4, <2>6
  <2>8. n + 1 \in Int /\ p # "stopped"
    BY DEF Awake
  <2> QED BY <1>1, <2>1, <2>3, <2>4, <2>6, <2>7, <2>8, LocalStep
<1>7. CASE AllDone(t, c)
  <2>1. /\ D = {} /\ received' = R /\ Becomes(t, m, n, fs, p)
        /\ pend' = pend /\ queue' = queue /\ excused' = excused
    BY <1>2, <1>7 DEF AllDone, sent
  <2>2. PendingHasInfo'
    BY <1>3, <2>1 DEF PendingHasInfo
  <2>3. p # "stopped"
    BY DEF Awake
  <2> QED BY <1>1, <2>1, <2>2, <2>3, LocalStep
<1> QED BY <1>4, <1>5, <1>6, <1>7 DEF Loop, c

----------------------------------------------------------------------------
LEMMA Facts ==
  ASSUME Inv
  PROVE  /\ pend \in [Holders -> SUBSET Signals] /\ queue \in [Holders -> [RealTime -> Nat]]
         /\ mask \in [Threads -> SUBSET Handled] /\ waiting \in [Threads -> SUBSET Handled]
         /\ received \subseteq Threads /\ executed \subseteq Threads
         /\ pc \in [Threads -> Points] /\ excused \in [Threads -> SUBSET Signals]
         /\ frames \in [Threads -> Seq(Frames)] /\ inSignal \in [Threads -> Int]
         /\ \A t \in Threads : t \in Holders /\ t # Process
         /\ Process \in Holders /\ Stop \in Signals /\ Cont \in Signals
         /\ Stop \notin Handled /\ Cont \notin Handled /\ Stop # Cont
BY DEF Inv, TypeOK, Holders, Signals

\* The threads that are woken, and those that are not.
LEMMA WokenKeeps ==
  ASSUME Inv, NEW S, NEW t \in Threads
  PROVE  /\ Woken(S)[t] \in Points
         /\ t \in S => Woken(S)[t] \in Awake
         /\ t \notin S => Woken(S)[t] = pc[t]
         /\ Woken(S)[t] # pc[t] => Woken(S)[t] \in Awake
         /\ Nested(Woken(S)[t], frames[t])
<1>1. pc[t] \in Points /\ Nested(pc[t], frames[t])
  BY Facts DEF Inv, NestedFrames
<1>2. /\ WokenAt(pc[t]) \in Awake /\ WokenAt(pc[t]) \in Points
      /\ Nested(WokenAt(pc[t]), frames[t])
  BY <1>1, WokenFacts DEF Points
<1>3. Woken(S)[t] = IF t \in S THEN WokenAt(pc[t]) ELSE pc[t]
  BY DEF Woken
<1> QED BY <1>1, <1>2, <1>3

\* kill, sigqueue, a timer.
LEMMA SignalProcessKeeps ==
  ASSUME Inv, NEW s \in Signals, SignalProcess(s)
  PROVE  Inv'
<1> DEFINE found == Waiters(s)
           told == IF found = {} THEN Unmasked(s) ELSE {}
           hit == found \cup told
<1>1. /\ queue' = Queued(Process, s) /\ received' = received \cup told
      /\ pc' = Woken(hit)
      /\ excused' = Excuse(told, IF found = {} THEN {} ELSE {s})
      /\ mask' = mask /\ waiting' = waiting /\ inSignal' = inSignal
      /\ executed' = executed /\ frames' = frames
  BY DEF SignalProcess
<1>2. /\ pend' \in [Holders -> SUBSET Signals]
      /\ pend'[Process] = (pend[Process] \cup {s}) \ Opposite(s)
      /\ \A t \in Threads : /\ pend'[t] \subseteq pend[t]
                            /\ t \notin hit => pend'[t] = pend[t]
  BY Facts DEF SignalProcess
<1>3. found \subseteq Threads /\ told \subseteq Threads
  BY DEF Waiters, Unmasked
<1>4. \A t \in Threads : (t \notin found => s \notin waiting[t])
  BY DEF Waiters
<1>5. found = {} => \A t \in Threads : s \notin mask[t] => t \in told
  BY DEF Unmasked
<1> HIDE DEF found, told
<1>6. \A t \in Threads : /\ t \in hit => pc'[t] \in Awake
                         /\ t \notin hit => pc'[t] = pc[t]
                         /\ pc'[t] # pc[t] => pc'[t] \in Awake
                         /\ pc'[t] \in Points /\ Nested(pc'[t], frames[t])
  BY <1>1, WokenKeeps
<1>7. \A t \in Threads : t \notin hit => t \notin found /\ t \notin told
  OBVIOUS
<1> HIDE DEF hit
<1>8. TypeOK'
  <2>1. queue' \in [Holders -> [RealTime -> Nat]]
    BY <1>1, Facts DEF Queued
  <2>2. pc' \in [Threads -> Points]
    BY <1>1, <1>6 DEF Woken
  <2>3. excused' \in [Threads -> SUBSET Signals]
    BY <1>1, Facts DEF Excuse
  <2> QED BY <1>1, <1>2, <1>3, <2>1, <2>2, <2>3, Facts DEF TypeOK
<1>9. NestedFrames'
  BY <1>1, <1>6 DEF NestedFrames
<1>10. PendingHasInfo'
  <2>1. ASSUME NEW h \in Holders, NEW r \in RealTime, r \in pend'[h]
        PROVE  queue'[h][r] > 0
    <3>1. r \in pend[h] => queue[h][r] > 0
      BY DEF Inv, PendingHasInfo
    <3>2. queue'[h][r] >= queue[h][r] /\ queue[h][r] \in Nat /\ queue'[h][r] \in Nat
      BY <1>1, Facts DEF Queued
    <3>3. CASE r \in pend[h]
      BY <3>1, <3>2, <3>3
    <3>4. CASE r \notin pend[h]
      <4>1. h = Process /\ r = s
        BY <1>2, <2>1, <3>4 DEF Holders
      <4> QED BY <1>1, <3>2, <4>1, Facts DEF Queued
    <3> QED BY <3>3, <3>4
  <2> QED BY <2>1 DEF PendingHasInfo
<1>11. NobodySleepsOnPending'
  <2>1. ASSUME NEW t \in Threads, pc'[t] \in {"sigwait", "sigtimed"}
        PROVE  Found(t, waiting[t])' = {}
    <3>1. t \notin hit /\ pc'[t] = pc[t]
      BY <1>6, <2>1 DEF Awake
    <3>2. Found(t, waiting[t]) = {} /\ s \notin waiting[t]
      BY <1>4, <1>7, <2>1, <3>1 DEF Inv, NobodySleepsOnPending
    <3>3. pend'[t] \cup pend'[Process] \subseteq pend[t] \cup pend[Process] \cup {s}
      BY <1>2
    <3> QED BY <1>1, <3>2, <3>3 DEF Found
  <2>2. ASSUME NEW t \in Threads, pc'[t] = "stopped"
        PROVE  Stop \in pend'[t]
    <3>1. t \notin hit /\ pc'[t] = pc[t]
      BY <1>6, <2>2 DEF Awake
    <3>2. Stop \in pend[t]
      BY <2>2, <3>1 DEF Inv, NobodySleepsOnPending
    <3> QED BY <1>2, <3>1, <3>2
  <2> QED BY <2>1, <2>2 DEF NobodySleepsOnPending
<1>12. EveryoneTold'
  <2> SUFFICES ASSUME NEW t \in Threads, NEW r \in (pend'[t] \cup pend'[Process]) \ mask[t]
               PROVE  \/ t \in received' \/ r \in excused'[t]
                      \/ \E i \in DOMAIN frames[t] : frames[t][i].kind # "suspend"
    BY <1>1 DEF EveryoneTold
  <2>1. CASE t \in told
    BY <1>1, <2>1
  <2>2. CASE t \notin told
    <3>1. excused'[t] = excused[t] \cup (IF found = {} THEN {} ELSE {s})
      BY <1>1, <2>2 DEF Excuse
    <3>2. CASE r = s
      BY <1>5, <2>2, <3>1, <3>2
    <3>3. CASE r # s
      <4>1. r \in (pend[t] \cup pend[Process]) \ mask[t]
        <5>1. pend'[t] \subseteq pend[t] /\ pend'[Process] \subseteq pend[Process] \cup {s}
          BY <1>2
        <5> QED BY <3>3, <5>1
      <4> QED BY <1>1, <3>1, <4>1 DEF Inv, EveryoneTold
    <3> QED BY <3>2, <3>3
  <2> QED BY <2>1, <2>2
<1>13. ToldIsAwake'
  <2> SUFFICES ASSUME NEW t \in Threads, MustDeliver(t)'
               PROVE  pc'[t] \notin {"sigwait", "sigtimed"}
    BY DEF ToldIsAwake
  <2>1. CASE t \in told
    <3>1. pc'[t] \in Awake
      BY <1>6, <1>7, <2>1
    <3> QED BY <3>1 DEF Awake
  <2>2. CASE t \notin told
    <3>1. pc[t] \notin {"sigwait", "sigtimed"}
      BY <1>1, <2>2 DEF Inv, ToldIsAwake, MustDeliver
    <3> QED BY <1>6, <3>1 DEF Awake
  <2> QED BY <2>1, <2>2
<1> QED BY <1>8, <1>9, <1>10, <1>11, <1>12, <1>13 DEF Inv

\* pthread_kill, raise.
LEMMA SignalThreadKeeps ==
  ASSUME Inv, NEW t \in Threads, NEW s \in Signals, SignalThread(t, s)
  PROVE  Inv'
<1> DEFINE waits == s \in waiting[t]
           told == IF ~waits /\ s \notin mask[t] THEN {t} ELSE {}
<1>1. /\ queue' = Queued(t, s) /\ received' = received \cup told
      /\ pc' = IF waits \/ told # {} THEN Woken({t}) ELSE pc
      /\ excused' = IF waits THEN [excused EXCEPT ![t] = @ \cup {s}]
                    ELSE Excuse(told, {})
      /\ mask' = mask /\ waiting' = waiting /\ inSignal' = inSignal
      /\ executed' = executed /\ frames' = frames
  BY DEF SignalThread
<1>2. /\ pend' \in [Holders -> SUBSET Signals]
      /\ pend'[t] = (pend[t] \cup {s}) \ Opposite(s)
      /\ pend'[Process] \subseteq pend[Process]
      /\ \A u \in Threads : u # t => pend'[u] = pend[u]
  BY Facts DEF SignalThread
<1>3. told \subseteq {t}
  OBVIOUS
<1>4. ~waits /\ s \notin mask[t] => t \in told
  OBVIOUS
<1>5. s \in Handled \/ s = Stop \/ waits \/ t \in told
  BY Facts DEF Signals
<1> HIDE DEF told
<1>6. \A u \in Threads : pc' = Woken({t}) \/ pc' = pc => 
         /\ u # t => pc'[u] = pc[u]
         /\ pc'[u] # pc[u] => pc'[u] \in Awake
         /\ pc'[u] \in Points /\ Nested(pc'[u], frames[u])
  BY Facts, WokenKeeps DEF Inv, NestedFrames
<1>7. waits \/ t \in told => pc'[t] \in Awake
  BY <1>1, WokenKeeps
<1>8. pc' = Woken({t}) \/ pc' = pc
  BY <1>1
<1>9. TypeOK'
  <2>1. queue' \in [Holders -> [RealTime -> Nat]]
    BY <1>1, Facts DEF Queued
  <2>2. pc' \in [Threads -> Points]
    BY <1>6, <1>8, Facts DEF Woken
  <2>3. excused' \in [Threads -> SUBSET Signals]
    BY <1>1, Facts DEF Excuse
  <2>4. received' \subseteq Threads
    BY <1>1, <1>3, Facts
  <2> QED BY <1>1, <1>2, <2>1, <2>2, <2>3, <2>4, Facts DEF TypeOK
<1>10. NestedFrames'
  BY <1>1, <1>6, <1>8 DEF NestedFrames
<1>11. PendingHasInfo'
  <2>1. ASSUME NEW h \in Holders, NEW r \in RealTime, r \in pend'[h]
        PROVE  queue'[h][r] > 0
    <3>1. r \in pend[h] => queue[h][r] > 0
      BY DEF Inv, PendingHasInfo
    <3>2. queue'[h][r] >= queue[h][r] /\ queue[h][r] \in Nat /\ queue'[h][r] \in Nat
      BY <1>1, Facts DEF Queued
    <3>3. CASE r \in pend[h]
      BY <3>1, <3>2, <3>3
    <3>4. CASE r \notin pend[h]
      <4>1. h = t /\ r = s
        BY <1>2, <2>1, <3>4 DEF Holders
      <4> QED BY <1>1, <3>2, <4>1, Facts DEF Queued
    <3> QED BY <3>3, <3>4
  <2> QED BY <2>1 DEF PendingHasInfo
<1>12. NobodySleepsOnPending'
  <2>1. ASSUME NEW u \in Threads, pc'[u] \in {"sigwait", "sigtimed"}
        PROVE  Found(u, waiting[u])' = {}
    <3>1. pc'[u] = pc[u] /\ (u = t => s \notin waiting[t])
      BY <1>6, <1>7, <1>8, <2>1 DEF Awake
    <3>2. Found(u, waiting[u]) = {}
      BY <2>1, <3>1 DEF Inv, NobodySleepsOnPending
    <3>3. pend'[u] \cup pend'[Process] \subseteq
            pend[u] \cup pend[Process] \cup (IF u = t THEN {s} ELSE {})
      BY <1>2
    <3> QED BY <1>1, <3>1, <3>2, <3>3 DEF Found
  <2>2. ASSUME NEW u \in Threads, pc'[u] = "stopped"
        PROVE  Stop \in pend'[u]
    <3>1. pc'[u] = pc[u] /\ (u = t => ~waits /\ t \notin told)
      BY <1>6, <1>7, <1>8, <2>2 DEF Awake
    <3>2. Stop \in pend[u]
      BY <2>2, <3>1 DEF Inv, NobodySleepsOnPending
    <3>3. u = t => Stop \notin Opposite(s)
      BY <1>5, <3>1, Facts DEF Opposite
    <3> QED BY <1>2, <3>2, <3>3
  <2> QED BY <2>1, <2>2 DEF NobodySleepsOnPending
<1>13. EveryoneTold'
  <2> SUFFICES ASSUME NEW u \in Threads, NEW r \in (pend'[u] \cup pend'[Process]) \ mask[u]
               PROVE  \/ u \in received' \/ r \in excused'[u]
                      \/ \E i \in DOMAIN frames[u] : frames[u][i].kind # "suspend"
    BY <1>1 DEF EveryoneTold
  <2>1. CASE u \in told
    BY <1>1, <2>1
  <2>2. CASE u \notin told
    <3>1. excused[u] \subseteq excused'[u] /\ (u = t /\ waits => s \in excused'[u])
      BY <1>1, <2>2, Facts DEF Excuse
    <3>2. CASE u = t /\ r = s
      BY <1>4, <2>2, <3>1, <3>2
    <3>3. CASE ~ (u = t /\ r = s)
      <4>1. r \in (pend[u] \cup pend[Process]) \ mask[u]
        <5>1. /\ pend'[Process] \subseteq pend[Process]
              /\ pend'[u] \subseteq pend[u] \cup (IF u = t THEN {s} ELSE {})
          BY <1>2
        <5> QED BY <3>3, <5>1
      <4> QED BY <1>1, <3>1, <4>1 DEF Inv, EveryoneTold
    <3> QED BY <3>2, <3>3
  <2> QED BY <2>1, <2>2
<1>14. ToldIsAwake'
  <2> SUFFICES ASSUME NEW u \in Threads, MustDeliver(u)'
               PROVE  pc'[u] \notin {"sigwait", "sigtimed"}
    BY DEF ToldIsAwake
  <2>1. CASE u \in told
    BY <1>3, <1>7, <2>1 DEF Awake
  <2>2. CASE u \notin told
    <3>1. pc[u] \notin {"sigwait", "sigtimed"}
      BY <1>1, <2>2 DEF Inv, ToldIsAwake, MustDeliver
    <3> QED BY <1>6, <1>8, <3>1 DEF Awake
  <2> QED BY <2>1, <2>2
<1> QED BY <1>9, <1>10, <1>11, <1>12, <1>13, <1>14 DEF Inv

----------------------------------------------------------------------------
\* thread_sigmask by a thread, in its code, or as a sigsuspend begins or ends.
LEMMA MaskStep ==
  ASSUME Inv, NEW t \in Threads, NEW m \in SUBSET Handled, NEW fs \in Seq(Frames),
         NEW p \in Points \ {"sigwait", "sigtimed", "stopped"}, Nested(p, fs),
         NEW old, NEW new, SetMask(t, old, new),
         old \subseteq Handled, mask[t] \ m \subseteq old \ new,
         mask' = [mask EXCEPT ![t] = m], frames' = [frames EXCEPT ![t] = fs],
         pc' = [pc EXCEPT ![t] = p],
         UNCHANGED <<sent, waiting, inSignal, executed>>,
         (\E i \in DOMAIN frames[t] : frames[t][i].kind # "suspend")
           => \E i \in DOMAIN fs : fs[i].kind # "suspend"
  PROVE  Inv'
<1> DEFINE opened == old \ new
           told == IF opened \subseteq waiting[t] THEN {} ELSE {t}
<1>1. /\ received' = received \cup told
      /\ excused' = [Excuse(told, {}) EXCEPT ![t] = IF told = {} THEN @ \cup opened ELSE @]
      /\ pend' = pend /\ queue' = queue /\ waiting' = waiting
      /\ inSignal' = inSignal /\ executed' = executed
  BY DEF SetMask, sent
<1>2. told = {} \/ told = {t}
  OBVIOUS
<1>3. opened \subseteq Signals
  BY DEF Signals
<1> HIDE DEF told
<1>4. /\ mask'[t] = m /\ frames'[t] = fs /\ pc'[t] = p
      /\ \A u \in Threads : u # t => mask'[u] = mask[u] /\ frames'[u] = frames[u] /\ pc'[u] = pc[u]
  BY Facts
<1>5. /\ told = {} => opened \subseteq excused'[t] /\ excused[t] \subseteq excused'[t]
      /\ told # {} => t \in received'
      /\ \A u \in Threads : u # t => excused'[u] = excused[u]
      /\ excused' \in [Threads -> SUBSET Signals]
  <2> HIDE DEF opened
  <2>1. Excuse(told, {}) = [u \in Threads |-> IF u \in told THEN {} ELSE excused[u]]
    BY Facts DEF Excuse
  <2> QED BY <1>1, <1>2, <1>3, <2>1, Facts
<1>6. TypeOK'
  <2>1. received' \subseteq Threads
    BY <1>1, <1>2, Facts
  <2>2. /\ mask' \in [Threads -> SUBSET Handled] /\ frames' \in [Threads -> Seq(Frames)]
        /\ pc' \in [Threads -> Points]
    BY Facts
  <2> QED BY <1>1, <1>5, <2>1, <2>2, Facts DEF TypeOK
<1>7. NestedFrames'
  BY <1>4 DEF Inv, NestedFrames
<1>8. PendingHasInfo'
  BY <1>1 DEF Inv, PendingHasInfo
<1>9. NobodySleepsOnPending'
  BY <1>1, <1>4 DEF Inv, NobodySleepsOnPending, Found
<1>10. EveryoneTold'
  <2>1. ASSUME NEW r \in (pend[t] \cup pend[Process]) \ m
        PROVE  \/ t \in received' \/ r \in excused'[t]
               \/ \E i \in DOMAIN fs : fs[i].kind # "suspend"
    <3>1. CASE told # {}
      BY <1>5, <3>1
    <3>2. CASE told = {} /\ r \in opened
      BY <1>5, <3>2
    <3>3. CASE told = {} /\ r \notin opened
      <4>1. r \in (pend[t] \cup pend[Process]) \ mask[t]
        BY <2>1, <3>3
      <4>2. \/ t \in received \/ r \in excused[t]
            \/ \E i \in DOMAIN frames[t] : frames[t][i].kind # "suspend"
        BY <4>1 DEF Inv, EveryoneTold
      <4> QED BY <1>1, <1>5, <3>3, <4>2
    <3> QED BY <3>1, <3>2, <3>3
  <2>2. ASSUME NEW u \in Threads, u # t, NEW r \in (pend[u] \cup pend[Process]) \ mask[u]
        PROVE  \/ u \in received' \/ r \in excused'[u]
               \/ \E i \in DOMAIN frames[u] : frames[u][i].kind # "suspend"
    BY <1>1, <1>5, <2>2 DEF Inv, EveryoneTold
  <2>3. ASSUME NEW u \in Threads, NEW r \in (pend'[u] \cup pend'[Process]) \ mask'[u]
        PROVE  \/ u \in received' \/ r \in excused'[u]
               \/ \E i \in DOMAIN frames'[u] : frames'[u][i].kind # "suspend"
    <3>1. CASE u = t
      BY <1>1, <1>4, <2>1, <2>3, <3>1
    <3>2. CASE u # t
      BY <1>1, <1>4, <2>2, <2>3, <3>2
    <3> QED BY <3>1, <3>2
  <2> QED BY <2>3 DEF EveryoneTold
<1>11. ToldIsAwake'
  BY <1>1, <1>2, <1>4 DEF Inv, ToldIsAwake, MustDeliver
<1> QED BY <1>6, <1>7, <1>8, <1>9, <1>10, <1>11 DEF Inv

\* A thread goes on, or back to the sleep of a stop or of a sigsuspend.
LEMMA PointStep ==
  ASSUME Inv, NEW t \in Threads, NEW p \in Points \ {"sigwait", "sigtimed"},
         Nested(p, frames[t]), p = "stopped" => Stop \in pend[t],
         pc' = [pc EXCEPT ![t] = p],
         UNCHANGED <<sent, mask, waiting, received, inSignal, executed, frames, excused>>
  PROVE  Inv'
<1>1. /\ pend' = pend /\ queue' = queue /\ mask' = mask /\ waiting' = waiting
      /\ received' = received /\ inSignal' = inSignal /\ executed' = executed
      /\ frames' = frames /\ excused' = excused
  BY DEF sent
<1>2. pc'[t] = p /\ \A u \in Threads : u # t => pc'[u] = pc[u]
  BY Facts
<1>3. TypeOK'
  <2>1. pc' \in [Threads -> Points]
    BY Facts
  <2> QED BY <1>1, <2>1 DEF Inv, TypeOK
<1>4. NestedFrames'
  BY <1>1, <1>2 DEF Inv, NestedFrames
<1>5. PendingHasInfo'
  BY <1>1 DEF Inv, PendingHasInfo
<1>6. NobodySleepsOnPending'
  BY <1>1, <1>2 DEF Inv, NobodySleepsOnPending, Found
<1>7. EveryoneTold'
  BY <1>1 DEF Inv, EveryoneTold
<1>8. ToldIsAwake'
  BY <1>1, <1>2 DEF Inv, ToldIsAwake, MustDeliver
<1> QED BY <1>3, <1>4, <1>5, <1>6, <1>7, <1>8 DEF Inv

\* sigwait and sigtimedwait take a signal, or find none and sleep.
LEMMA WaitTurnKeeps ==
  ASSUME Inv, NEW t \in Threads, NEW S \in SUBSET Handled,
         NEW point \in {"sigwait", "sigtimed"}, WaitTurn(t, S, point),
         waiting' = [waiting EXCEPT ![t] = S], ~ MustDeliver(t),
         pc[t] \in {"user", "sigwoken", "timedWoken"}
  PROVE  Inv'
<1>1. /\ mask' = mask /\ received' = received /\ inSignal' = inSignal
      /\ executed' = executed /\ frames' = frames /\ excused' = excused
      /\ waiting' \in [Threads -> SUBSET Handled] /\ waiting'[t] = S
      /\ \A u \in Threads : u # t => waiting'[u] = waiting[u]
  BY Facts DEF WaitTurn
<1>2. Nested("user", frames[t]) /\ Nested(point, frames[t])
  <2>1. Nested(pc[t], frames[t])
    BY DEF Inv, NestedFrames
  <2> QED BY <2>1 DEF Nested
<1>3. CASE TakeWaited(t, S)
  <2> DEFINE s == Lowest(Found(t, S))
             h == IF s \in pend[t] THEN t ELSE Process
  <2>1. /\ Found(t, S) # {} /\ pend' = [pend EXCEPT ![h] = @ \ {s}]
        /\ queue' = Popped(h, s) /\ pc' = [pc EXCEPT ![t] = "user"]
    BY <1>3 DEF TakeWaited
  <2>2. s \in pend[h] /\ h \in Holders /\ h \in {t, Process}
    <3>1. Found(t, S) \subseteq Signals
      BY DEF Found, Signals
    <3>2. s \in Found(t, S)
      BY <2>1, <3>1, LowestIsIn
    <3> QED BY <3>2, Facts DEF Found
  <2> HIDE DEF s, h
  <2>3. /\ pend' \in [Holders -> SUBSET Signals]
        /\ \A u \in Threads : pend'[u] \subseteq pend[u]
        /\ \A u \in Threads : u # t => pend'[u] = pend[u]
        /\ pend'[Process] \subseteq pend[Process]
    BY <2>1, <2>2, Facts
  <2>4. pc'[t] = "user" /\ \A u \in Threads : u # t => pc'[u] = pc[u]
    BY <2>1, Facts
  <2>5. s \in RealTime => queue[h][s] > 0
    BY <2>2 DEF Inv, PendingHasInfo
  <2>6. queue' \in [Holders -> [RealTime -> Nat]]
    BY <2>1, <2>2, <2>5, Facts DEF Popped
  <2>7. PendingHasInfo'
    BY <2>1, <2>2, Facts DEF Inv, PendingHasInfo, Popped
  <2>8. TypeOK'
    <3>1. pc' \in [Threads -> Points]
      BY <2>1, Facts DEF Points, Awake
    <3> QED BY <1>1, <2>3, <2>6, <3>1, Facts DEF TypeOK
  <2>9. NestedFrames'
    BY <1>1, <1>2, <2>4 DEF Inv, NestedFrames
  <2>10. NobodySleepsOnPending'
    <3>1. ASSUME NEW u \in Threads, u # t
          PROVE  /\ pc'[u] \in {"sigwait", "sigtimed"} => Found(u, waiting[u])' = {}
                 /\ pc'[u] = "stopped" => Stop \in pend'[u]
      <4>1. /\ pc[u] \in {"sigwait", "sigtimed"} => Found(u, waiting[u]) = {}
            /\ pc[u] = "stopped" => Stop \in pend[u]
        BY DEF Inv, NobodySleepsOnPending
      <4>2. pend'[u] = pend[u] /\ pend'[Process] \subseteq pend[Process]
            /\ pc'[u] = pc[u] /\ waiting'[u] = waiting[u]
        BY <1>1, <2>3, <2>4, <3>1
      <4> QED BY <4>1, <4>2 DEF Found
    <3> QED BY <2>4, <3>1 DEF NobodySleepsOnPending
  <2>11. EveryoneTold'
    <3>1. ASSUME NEW u \in Threads, NEW r \in (pend'[u] \cup pend'[Process]) \ mask'[u]
          PROVE  \/ u \in received' \/ r \in excused'[u]
                 \/ \E i \in DOMAIN frames'[u] : frames'[u][i].kind # "suspend"
      <4>1. r \in (pend[u] \cup pend[Process]) \ mask[u]
        BY <1>1, <2>3, <3>1
      <4> QED BY <1>1, <4>1 DEF Inv, EveryoneTold
    <3> QED BY <3>1 DEF EveryoneTold
  <2>12. ToldIsAwake'
    BY <1>1, <2>4 DEF Inv, ToldIsAwake, MustDeliver
  <2> QED BY <2>7, <2>8, <2>9, <2>10, <2>11, <2>12 DEF Inv
<1>4. CASE SleepWaiting(t, S, point)
  <2> DEFINE W == UNION {Unmasked(s) : s \in pend[Process]}
  <2>1. /\ Found(t, S) = {} /\ pc' = [Woken(W) EXCEPT ![t] = point]
        /\ pend' = pend /\ queue' = queue
    BY <1>4 DEF SleepWaiting, sent
  <2> HIDE DEF W
  <2>2. /\ pc'[t] = point
        /\ \A u \in Threads : u # t => pc'[u] = Woken(W)[u]
        /\ \A u \in Threads : pc'[u] \in Points
    BY <2>1, WokenKeeps DEF Woken, Points, Sleeps
  <2>3. \A u \in Threads : u # t => /\ pc'[u] # pc[u] => pc'[u] \in Awake
                                    /\ Nested(pc'[u], frames[u])
    BY <2>2, WokenKeeps
  <2>4. TypeOK'
    <3>1. pc' \in [Threads -> Points]
      BY <2>1, <2>2 DEF Woken
    <3> QED BY <1>1, <2>1, <3>1, Facts DEF TypeOK
  <2>5. NestedFrames'
    BY <1>1, <1>2, <2>2, <2>3 DEF NestedFrames
  <2>6. PendingHasInfo'
    BY <2>1 DEF Inv, PendingHasInfo
  <2>7. NobodySleepsOnPending'
    <3>1. Found(t, waiting[t])' = {} /\ pc'[t] # "stopped"
      BY <1>1, <2>1, <2>2 DEF Found
    <3>2. ASSUME NEW u \in Threads, u # t
          PROVE  /\ pc'[u] \in {"sigwait", "sigtimed"} => Found(u, waiting[u])' = {}
                 /\ pc'[u] = "stopped" => Stop \in pend'[u]
      <4>1. pc'[u] \in {"sigwait", "sigtimed", "stopped"} => pc'[u] = pc[u]
        BY <2>3, <3>2 DEF Awake
      <4>2. Found(u, waiting[u])' = Found(u, waiting[u])
        BY <1>1, <2>1, <3>2 DEF Found
      <4> QED BY <2>1, <4>1, <4>2 DEF Inv, NobodySleepsOnPending
    <3> QED BY <3>1, <3>2 DEF NobodySleepsOnPending
  <2>8. EveryoneTold'
    BY <1>1, <2>1 DEF Inv, EveryoneTold
  <2>9. ToldIsAwake'
    <3>1. ASSUME NEW u \in Threads, u # t, MustDeliver(u)
          PROVE  pc'[u] \notin {"sigwait", "sigtimed"}
      <4>1. pc[u] \notin {"sigwait", "sigtimed"}
        BY <3>1 DEF Inv, ToldIsAwake
      <4> QED BY <2>3, <3>1, <4>1 DEF Awake
    <3>2. \A u \in Threads : MustDeliver(u)' <=> MustDeliver(u)
      BY <1>1 DEF MustDeliver
    <3> QED BY <3>1, <3>2 DEF ToldIsAwake
  <2> QED BY <2>4, <2>5, <2>6, <2>7, <2>8, <2>9 DEF Inv
<1> QED BY <1>3, <1>4 DEF WaitTurn

\* The steps of the loop, from the three places that enter it.
LEMMA StartKeeps ==
  ASSUME Inv, NEW t \in Threads, Start(t)
  PROVE  Inv'
<1>1. /\ Nested(pc[t], frames[t]) /\ pc[t] \in Awake
      /\ mask[t] \in SUBSET Handled /\ inSignal[t] \in Int /\ frames[t] \in Seq(Frames)
  BY Facts DEF Start, Inv, NestedFrames
<1>2. Loop(t, [mask |-> mask[t], depth |-> inSignal[t], frames |-> frames[t],
               at |-> pc[t], told |-> received \ {t}])
  BY DEF Start, Comes
<1>3. waiting' = waiting /\ executed' \subseteq Threads
  BY Facts DEF Start
<1>4. received \ {t} \subseteq received /\ \A u \in received : u # t => u \in received \ {t}
  OBVIOUS
<1> QED BY <1>1, <1>2, <1>3, <1>4, LoopKeeps

LEMMA HandlerEndKeeps ==
  ASSUME Inv, NEW t \in Threads, HandlerEnd(t)
  PROVE  Inv'
<1>1. /\ Nested(pc[t], frames[t]) /\ frames[t] \in Seq(Frames) /\ frames[t] # <<>>
      /\ mask[t] \in SUBSET Handled /\ inSignal[t] \in Int
  BY Facts DEF HandlerEnd, Inv, NestedFrames
<1>2. /\ Top(t) \in Frames /\ Tail(frames[t]) \in Seq(Frames)
      /\ Nested(Top(t).at, Tail(frames[t]))
  BY <1>1, Pop DEF Top
<1>3. Top(t).mask \in SUBSET Handled /\ Top(t).at \in Awake
  BY <1>2 DEF Frames
<1>4. Loop(t, [mask |-> Top(t).mask, depth |-> inSignal[t] - 1, frames |-> Tail(frames[t]),
               at |-> Top(t).at, told |-> received])
  BY DEF HandlerEnd, AfterHandler, Comes
<1>5. waiting' = waiting /\ executed' \subseteq Threads /\ inSignal[t] - 1 \in Int
  BY <1>1, Facts DEF HandlerEnd
<1> DEFINE m == Top(t).mask
           n == inSignal[t] - 1
           fs == Tail(frames[t])
           p == Top(t).at
<1>6. /\ m \in SUBSET Handled /\ n \in Int /\ fs \in Seq(Frames) /\ p \in Awake
      /\ Nested(p, fs)
      /\ Loop(t, [mask |-> m, depth |-> n, frames |-> fs, at |-> p, told |-> received])
  BY <1>2, <1>3, <1>4, <1>5
<1>7. received \subseteq received /\ \A u \in received : u # t => u \in received
  OBVIOUS
<1> HIDE DEF m, n, fs, p
<1> QED BY <1>5, <1>6, <1>7, LoopKeeps

LEMMA StopTurnKeeps ==
  ASSUME Inv, NEW t \in Threads, StopTurn(t)
  PROVE  Inv'
<1>1. /\ Nested(pc[t], frames[t]) /\ frames[t] \in Seq(Frames) /\ pc[t] = "stopWoken"
      /\ mask[t] \in SUBSET Handled /\ inSignal[t] \in Int
  BY Facts DEF StopTurn, Inv, NestedFrames
<1>2. waiting' = waiting /\ executed' = executed /\ executed' \subseteq Threads
  BY Facts DEF StopTurn
<1>3. CASE Stop \in pend[t]
  <2>1. Nested("stopped", frames[t]) /\ "stopped" \in Points \ {"sigwait", "sigtimed"}
    BY <1>1 DEF Nested, Points, Sleeps
  <2>2. /\ pc' = [pc EXCEPT ![t] = "stopped"]
        /\ UNCHANGED <<sent, mask, waiting, received, inSignal, executed, frames, excused>>
    BY <1>3 DEF StopTurn
  <2> QED BY <1>3, <2>1, <2>2, PointStep
<1>4. CASE Stop \notin pend[t]
  <2>1. frames[t] # <<>>
    BY <1>1 DEF Nested
  <2>2. /\ Top(t) \in Frames /\ Tail(frames[t]) \in Seq(Frames)
        /\ Nested(Top(t).at, Tail(frames[t]))
    BY <1>1, <2>1, Pop DEF Top
  <2>3. Top(t).at \in Awake
    BY <2>2 DEF Frames
  <2>4. Loop(t, [mask |-> mask[t], depth |-> inSignal[t], frames |-> Tail(frames[t]),
                 at |-> Top(t).at, told |-> received])
    BY <1>4 DEF StopTurn, AfterStop, Comes
  <2> QED BY <1>1, <1>2, <2>2, <2>3, <2>4, LoopKeeps
<1> QED BY <1>3, <1>4

----------------------------------------------------------------------------
\* pthread_sigmask, sigsuspend, and the turns of sigsuspend's loop.
LEMMA SigmaskKeeps ==
  ASSUME Inv, NEW t \in Threads, NEW m \in Masks, Sigmask(t, m)
  PROVE  Inv'
<1>1. /\ m \in SUBSET Handled /\ mask[t] \in SUBSET Handled
      /\ frames[t] \in Seq(Frames) /\ Nested(pc[t], frames[t])
      /\ pc[t] \in Points \ {"sigwait", "sigtimed", "stopped"}
  BY Facts DEF Inv, NestedFrames, Sigmask, Callable, Points, Awake
<1>2. frames' = [frames EXCEPT ![t] = frames[t]] /\ pc' = [pc EXCEPT ![t] = pc[t]]
  BY Facts DEF Sigmask
<1> QED BY <1>1, <1>2, MaskStep DEF Sigmask

LEMMA SigsuspendKeeps ==
  ASSUME Inv, NEW t \in Threads, NEW m \in Masks, Sigsuspend(t, m)
  PROVE  Inv'
<1>1. /\ m \in SUBSET Handled /\ mask[t] \in SUBSET Handled
      /\ frames[t] = <<>> /\ frames[t] \in Seq(Frames) /\ pc[t] = "user"
      /\ UNCHANGED <<sent, waiting, inSignal, executed>>
  BY Facts DEF Sigsuspend, Callable, Outermost
<1>2. CASE t \in executed
  <2> DEFINE old == mask[t] \cup m
             new == mask[t] \cap m
  <2>1. SetMask(t, old, new) /\ mask' = mask /\ pc' = pc /\ frames' = frames
    BY <1>2 DEF Sigsuspend
  <2>2. /\ mask' = [mask EXCEPT ![t] = mask[t]] /\ pc' = [pc EXCEPT ![t] = pc[t]]
        /\ frames' = [frames EXCEPT ![t] = frames[t]]
    BY <2>1, Facts
  <2>3. /\ old \subseteq Handled /\ mask[t] \ mask[t] \subseteq old \ new
        /\ pc[t] \in Points \ {"sigwait", "sigtimed", "stopped"}
        /\ Nested(pc[t], frames[t])
    BY <1>1 DEF Inv, NestedFrames, Points, Awake
  <2> HIDE DEF old, new
  <2> QED BY <1>1, <2>1, <2>2, <2>3, MaskStep
<1>3. CASE t \notin executed
  <2> DEFINE fs == <<Frame("suspend", mask[t], "user")>>
  <2>1. /\ SetMask(t, mask[t], m) /\ mask' = [mask EXCEPT ![t] = m]
        /\ pc' = [pc EXCEPT ![t] = "suspended"] /\ frames' = [frames EXCEPT ![t] = fs]
    BY <1>3 DEF Sigsuspend
  <2>2. Frame("suspend", mask[t], "user") \in Frames
    BY <1>1 DEF Frame, Frames, Awake
  <2>3. fs \in Seq(Frames) /\ Len(fs) = 1 /\ fs[1].kind = "suspend" /\ fs[1].at = "user"
    BY <2>2 DEF Frame
  <2> HIDE DEF fs
  <2>4. Nested("suspended", fs)
    BY <2>3 DEF Nested
  <2>5. ~ (\E i \in DOMAIN frames[t] : frames[t][i].kind # "suspend")
    BY <1>1
  <2>6. "suspended" \in Points \ {"sigwait", "sigtimed", "stopped"}
    BY DEF Points, Sleeps
  <2> QED BY <1>1, <2>1, <2>3, <2>4, <2>5, <2>6, MaskStep
<1> QED BY <1>2, <1>3

LEMMA SuspendAgainKeeps ==
  ASSUME Inv, NEW t \in Threads, SuspendAgain(t)
  PROVE  Inv'
<1>1. /\ frames[t] \in Seq(Frames) /\ mask[t] \in SUBSET Handled
      /\ Nested("suspWoken", frames[t])
      /\ UNCHANGED <<sent, waiting, inSignal, executed>>
  BY Facts DEF SuspendAgain, Inv, NestedFrames
<1>2. Len(frames[t]) = 1 /\ frames[t][1].kind = "suspend"
  BY <1>1 DEF Nested
<1>3. CASE t \in executed
  <2>1. frames[t] # <<>>
    BY <1>1, <1>2
  <2>2. /\ Top(t) \in Frames /\ Tail(frames[t]) = <<>>
        /\ Nested(Top(t).at, Tail(frames[t]))
    <3>1. Top(t) \in Frames /\ Nested(Top(t).at, Tail(frames[t]))
      BY <1>1, <2>1, Pop DEF Top
    <3>2. Len(Tail(frames[t])) = 0 /\ Tail(frames[t]) \in Seq(Frames)
      <4>1. ASSUME NEW fs \in Seq(Frames), Len(fs) = 1
            PROVE  Len(Tail(fs)) = 0 /\ Tail(fs) \in Seq(Frames)
        <5>1. fs # <<>>
          BY <4>1, EmptySeq
        <5>2. Len(Tail(fs)) = Len(fs) - 1 /\ Tail(fs) \in Seq(Frames)
          BY <5>1
        <5> QED BY <4>1, <5>2
      <4> QED BY <1>1, <1>2, <4>1, Zenon
    <3>3. Tail(frames[t]) = <<>>
      BY <3>2, EmptySeq
    <3> QED BY <3>1, <3>3
  <2>3. Top(t).mask \in SUBSET Handled /\ Top(t).at \in Points \ {"sigwait", "sigtimed", "stopped"}
    BY <2>2 DEF Frames, Points, Awake
  <2>4. /\ SetMask(t, mask[t], Top(t).mask) /\ mask' = [mask EXCEPT ![t] = Top(t).mask]
        /\ pc' = [pc EXCEPT ![t] = Top(t).at] /\ frames' = [frames EXCEPT ![t] = <<>>]
    BY <1>3 DEF SuspendAgain
  <2>5. ~ (\E i \in DOMAIN frames[t] : frames[t][i].kind # "suspend")
    BY <1>1, <1>2
  <2>6. <<>> \in Seq(Frames) /\ Nested(Top(t).at, <<>>)
    <3>1. Nested(Top(t).at, <<>>)
      BY <2>2, Zenon
    <3> QED BY <3>1
  <2> QED BY <1>1, <2>3, <2>4, <2>5, <2>6, MaskStep
<1>4. CASE t \notin executed
  <2>1. /\ pc' = [pc EXCEPT ![t] = "suspended"]
        /\ UNCHANGED <<sent, mask, waiting, received, inSignal, executed, frames, excused>>
    BY <1>4 DEF SuspendAgain
  <2>2. Nested("suspended", frames[t]) /\ "suspended" \in Points \ {"sigwait", "sigtimed"}
    BY <1>1, <1>2 DEF Nested, Points, Sleeps
  <2> QED BY <2>1, <2>2, PointStep
<1> QED BY <1>3, <1>4

\* sigwait and sigtimedwait, and the clock's end of the second.
LEMMA WaitKeeps ==
  ASSUME Inv, NEW t \in Threads,
         \/ \E S \in WaitSets : Sigwait(t, S, "sigwait") \/ Sigwait(t, S, "sigtimed")
         \/ SigwaitAgain(t)
  PROVE  Inv'
<1>1. ASSUME NEW S \in WaitSets, Sigwait(t, S, "sigwait") \/ Sigwait(t, S, "sigtimed")
      PROVE  Inv'
  <2>1. S \in SUBSET Handled
    OBVIOUS
  <2>2. /\ waiting' = [waiting EXCEPT ![t] = S]
        /\ ~ MustDeliver(t) /\ pc[t] \in {"user", "sigwoken", "timedWoken"}
    BY <1>1 DEF Sigwait, Callable
  <2>3. CASE WaitTurn(t, S, "sigwait")
    BY <2>1, <2>2, <2>3, WaitTurnKeeps
  <2>4. CASE WaitTurn(t, S, "sigtimed")
    BY <2>1, <2>2, <2>4, WaitTurnKeeps
  <2> QED BY <1>1, <2>3, <2>4 DEF Sigwait
<1>2. ASSUME SigwaitAgain(t)
      PROVE  Inv'
  <2>1. waiting[t] \in SUBSET Handled /\ waiting' = [waiting EXCEPT ![t] = waiting[t]]
    BY <1>2, Facts DEF SigwaitAgain
  <2> QED BY <1>2, <2>1, WaitTurnKeeps DEF SigwaitAgain
<1> QED BY <1>1, <1>2

LEMMA ClockKeeps ==
  ASSUME Inv, NEW t \in Threads, WaitEnds(t) \/ WaitTimedOut(t)
  PROVE  Inv'
<1>1. Nested("timedOut", frames[t]) /\ Nested("user", frames[t])
  <2>1. Nested(pc[t], frames[t])
    BY DEF Inv, NestedFrames
  <2> QED BY <2>1 DEF Nested, WaitEnds, WaitTimedOut
<1>2. {"timedOut", "user"} \subseteq Points \ {"sigwait", "sigtimed", "stopped"}
  BY DEF Points, Awake
<1>3. CASE WaitEnds(t)
  BY <1>1, <1>2, <1>3, PointStep DEF WaitEnds
<1>4. CASE WaitTimedOut(t)
  BY <1>1, <1>2, <1>4, PointStep DEF WaitTimedOut
<1> QED BY <1>3, <1>4

----------------------------------------------------------------------------
LEMMA InitInv ==
  Init => Inv
<1> SUFFICES ASSUME Init PROVE Inv
  OBVIOUS
<1>1. TypeOK
  BY DEF Init, TypeOK, Holders, Points, Awake
<1>2. NestedFrames
  BY DEF Init, NestedFrames, Nested
<1>3. PendingHasInfo /\ NobodySleepsOnPending /\ EveryoneTold /\ ToldIsAwake
  BY DEF Init, PendingHasInfo, NobodySleepsOnPending, EveryoneTold, ToldIsAwake,
         MustDeliver, Holders
<1> QED BY <1>1, <1>2, <1>3 DEF Inv

LEMMA StepInv ==
  Inv /\ [Next]_vars => Inv'
<1> SUFFICES ASSUME Inv, [Next]_vars PROVE Inv'
  OBVIOUS
<1>1. CASE Send
  BY <1>1, SignalProcessKeeps, SignalThreadKeeps DEF Send
<1>2. ASSUME NEW t \in Threads, Call(t)
      PROVE  Inv'
  BY <1>2, SigmaskKeeps, SigsuspendKeeps, WaitKeeps DEF Call
<1>3. ASSUME NEW t \in Threads, Runs(t)
      PROVE  Inv'
  BY <1>3, StartKeeps, HandlerEndKeeps, StopTurnKeeps, SuspendAgainKeeps,
     WaitKeeps, ClockKeeps DEF Runs
<1>4. ASSUME NEW t \in Threads, Steps(t)
      PROVE  Inv'
  BY <1>2, <1>3, <1>4, ClockKeeps DEF Steps
<1>5. CASE UNCHANGED vars
  BY <1>5 DEF vars, Inv, TypeOK, NestedFrames, PendingHasInfo, NobodySleepsOnPending,
              EveryoneTold, ToldIsAwake, Found, MustDeliver
<1> QED BY <1>1, <1>4, <1>5 DEF Next

THEOREM Invariance ==
  Spec => []Inv
<1> QED BY InitInv, StepInv, PTL DEF Spec

\* Every variable keeps its type, whatever the threads, signals, masks and bounds.
THEOREM TypeCorrect ==
  Spec => []TypeOK
<1>1. Inv => TypeOK
  BY DEF Inv
<1> QED BY <1>1, Invariance, PTL

\* A pending real-time signal has an instance in its list, so the [0] of
\* execute_signals and signal_timedwait exists, whichever takes the last one.
THEOREM InstancesThere ==
  Spec => []PendingHasInfo
<1>1. Inv => PendingHasInfo
  BY DEF Inv
<1> QED BY <1>1, Invariance, PTL

\* No thread sleeps in sigwait or sigtimedwait on a signal that is pending, nor
\* stays stopped once its SIGSTOP was taken back.
THEOREM NoLostWakeup ==
  Spec => []NobodySleepsOnPending
<1>1. Inv => NobodySleepsOnPending
  BY DEF Inv
<1> QED BY <1>1, Invariance, PTL

\* A pending signal that its thread does not mask is known to it, or comes up when
\* the handler or stop it is inside of ends, but for those excused.
THEOREM AllTold ==
  Spec => []EveryoneTold
<1>1. Inv => EveryoneTold
  BY DEF Inv
<1> QED BY <1>1, Invariance, PTL

\* No thread that has a signal to take sleeps in sigwait or sigtimedwait.
THEOREM TakersAreAwake ==
  Spec => []ToldIsAwake
<1>1. Inv => ToldIsAwake
  BY DEF Inv
<1> QED BY <1>1, Invariance, PTL
=============================================================================
