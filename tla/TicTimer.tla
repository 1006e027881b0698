------------------------------ MODULE TicTimer ------------------------------
(***************************************************************************)
(* One clock of the tick timer (rtos/kernel/uc_tic_timer_class.cpp): the   *)
(* list of sleeps, the list of timers, the tick that counts both down and  *)
(* clock_settime; and the timed form of block(), which sleeps on it.       *)
(*                                                                         *)
(* An absolute time is given by its distance from the clock.  The counter  *)
(* of a sleep is unsigned, that of a timer signed.  A thread whose sleep a *)
(* signal interrupts leaves its entry on the list, where it is stale.      *)
(***************************************************************************)
EXTENDS Integers, FiniteSets, SequencesExt

CONSTANTS Sleepers, Timers,
          Delays,      \* relative times, in ticks
          Offsets,     \* absolute times minus the clock
          Periods,     \* intervals of timers, 0 for one shot
          Jumps,       \* what clock_settime adds to the clock
          Garbage,     \* next_expiration of a timer that was never armed
          Wide,        \* the unsigned counters are taken modulo this
          MaxEntries,  \* bound on the entries of a thread that goes to sleep
          Scenes       \* the threads and timers that take part in a behaviour

ASSUME TimesAssumption == /\ Delays \subseteq Nat /\ Periods \subseteq Nat
                          /\ Offsets \cup Jumps \cup Garbage \subseteq Int
                          /\ Wide \in Nat \ {0}
ASSUME ScenesAssumption == Scenes \subseteq SUBSET (Sleepers \cup Timers)

VARIABLES sleeps,    \* list_c: the entries of sleeping threads
          at,        \* "user", "asleep" in block(), "woken", "done"
          timed,     \* threads with m_timeout_blocked set
          signalled, \* threads with m_signal_executed set
          armed,     \* list_t, by timer
          timer,     \* what each timer keeps
          left,      \* history: ticks to the deadline of a thread's last sleep
          owed,      \* history: timed waits that were woken before the timeout
          back,      \* history: sleeps during which the clock was set back
          jumped,    \* history: the clock was set
          mixed,     \* history: a timer stood behind one that is not active
          scene      \* one of Scenes, for ever

threadVars == <<sleeps, at, timed, signalled, left, owed, back>>
timerVars == <<armed, timer, mixed, scene>>
clockVars == <<threadVars, timerVars, jumped>>

NoTimer == [live |-> FALSE, active |-> FALSE, next |-> 0, abs |-> FALSE, period |-> 0]

ClockInit == /\ scene \in Scenes
             /\ sleeps = <<>> /\ armed = <<>>
             /\ at = [t \in Sleepers |-> IF t \in scene THEN "user" ELSE "done"]
             /\ timed = {} /\ signalled = {} /\ owed = {} /\ back = {}
             /\ timer = [x \in Timers |-> NoTimer]
             /\ left = [t \in Sleepers |-> 0]
             /\ jumped = FALSE /\ mixed = FALSE

----------------------------------------------------------------------------
Entry(t, abs, n) == [thread |-> t, counter |-> n, abs |-> abs, stale |-> FALSE]
Mine(t, list) == SelectInSeq(list, LAMBDA e : e.thread = t /\ ~e.stale)

\* data->counter: an entry that left the list has counted down to zero.
Counter(t) == IF Mine(t, sleeps) = 0 THEN 0 ELSE sleeps[Mine(t, sleeps)].counter
WithoutMine(t, list) == RemoveFirstMatch(list, LAMBDA e : e.thread = t /\ ~e.stale)

\* At place i, or at the end when there is no such place.
Insert(list, e, i) == InsertAt(list, IF i = 0 THEN Len(list) + 1 ELSE i, e)

\* Seeded fault: the entry is added at the end.
AppendSleep(e) == Append(sleeps, e)

\* Before the first entry that is not sooner.
PlaceSleep(e) ==
  Insert(sleeps, e, SelectInSeq(sleeps, LAMBDA f : f.counter >= e.counter))

\* Seeded fault: the wake-up of a timed wait leaves the counter alone.
NotZeroed(list, t) == list

\* UC_thread_class::unblock of a thread in a timed wait: the first of its entries
\* is set to zero, and the thread is woken.
Zeroed(list, t) ==
  LET i == SelectInSeq(list, LAMBDA e : e.thread = t)
  IN  IF i = 0 \/ t \notin timed THEN list ELSE [list EXCEPT ![i].counter = 0]

Roused(S) == [t \in Sleepers |-> IF t \in S /\ at[t] = "asleep" THEN "woken" ELSE at[t]]

\* clock_nanosleep up to block(), or to its end if there is nothing to wait for.
\* The same in a timed wait, whose deadline is absolute.
Sleep(t, n, abs, wait) ==
  LET e == Entry(t, abs, n % Wide)
  IN  /\ at[t] = "user"
      /\ Cardinality({i \in DOMAIN sleeps : sleeps[i].thread = t}) < MaxEntries
      /\ IF e.counter = 0
         THEN UNCHANGED <<sleeps, at, timed>>
         ELSE /\ sleeps' = PlaceSleep(e)
              /\ at' = [at EXCEPT ![t] = "asleep"]
              /\ timed' = IF wait THEN timed \cup {t} ELSE timed
      /\ left' = IF e.counter = 0 THEN left ELSE [left EXCEPT ![t] = n]
      /\ UNCHANGED <<signalled, owed, back, timerVars, jumped>>

Nanosleep(t) == \/ \E n \in Delays : Sleep(t, n, FALSE, FALSE)
                \/ \E n \in Offsets : Sleep(t, n, TRUE, FALSE)
TimedWait(t) == \E n \in Offsets : Sleep(t, n, TRUE, TRUE)

\* A thread that was woken: a signal ends the call and leaves the entry, an
\* exhausted counter ends it, else it sleeps again.
Interrupted(t) == t \in signalled

Leaves(t, point) == /\ at' = [at EXCEPT ![t] = point]
                    /\ left' = [left EXCEPT ![t] = 0]
                    /\ timed' = timed \ {t} /\ owed' = owed \ {t} /\ back' = back \ {t}
Returns(t) == Leaves(t, "user")

\* Seeded fault: clock_nanosleep without its loop.
TurnOnce(t) == /\ at[t] = "woken"
               /\ sleeps' = WithoutMine(t, sleeps)
               /\ Returns(t)
               /\ UNCHANGED <<signalled, timerVars, jumped>>

Turn(t) ==
  /\ at[t] = "woken"
  /\ \/ /\ Interrupted(t)
        /\ sleeps' = [i \in DOMAIN sleeps |->
                        IF sleeps[i].thread = t THEN [sleeps[i] EXCEPT !.stale = TRUE]
                        ELSE sleeps[i]]
        /\ Returns(t)
     \/ /\ ~Interrupted(t) /\ Counter(t) = 0
        /\ sleeps' = WithoutMine(t, sleeps)
        /\ Returns(t)
     \/ /\ ~Interrupted(t) /\ Counter(t) > 0
        /\ at' = [at EXCEPT ![t] = "asleep"]
        /\ UNCHANGED <<sleeps, timed, owed, back, left>>
  /\ UNCHANGED <<signalled, timerVars, jumped>>

\* unblock() by a post, a cancellation or anything else but this clock.
Unblock(t) == /\ at[t] \in {"asleep", "woken"}
              /\ sleeps' = Zeroed(sleeps, t)
              /\ at' = Roused({t})
              /\ owed' = IF t \in timed THEN owed \cup {t} ELSE owed
              /\ UNCHANGED <<timed, signalled, left, back, timerVars, jumped>>

\* The same by a signal, whose handler runs before the thread goes on.
Signal(t) == /\ at[t] # "done"
             /\ sleeps' = Zeroed(sleeps, t)
             /\ at' = Roused({t})
             /\ signalled' = signalled \cup {t}
             /\ UNCHANGED <<timed, left, owed, back, timerVars, jumped>>

\* thread_destroyed: the entries of the thread leave the list, the others stay in
\* their order.
Places(S) == {f \in [1..Cardinality(S) -> S] :
                S \subseteq Range(f) /\ \A i, j \in DOMAIN f : i < j => f[i] < f[j]}
OfOthers(t) == {[i \in DOMAIN f |-> sleeps[f[i]]] :
                  f \in Places({i \in DOMAIN sleeps : sleeps[i].thread # t})}

Exit(t) == /\ at[t] \in {"user", "woken"}
           /\ sleeps' \in OfOthers(t)
           /\ Leaves(t, "done")
           /\ UNCHANGED <<signalled, timerVars, jumped>>

----------------------------------------------------------------------------
\* Is a timer behind one that is not active, and so behind its back?
Mixed(list, tm) == \E i, j \in DOMAIN list : i < j /\ ~tm[list[i]].active /\ tm[list[j]].active
Record(list, tm) == /\ armed' = list /\ timer' = tm
                    /\ mixed' = (mixed \/ Mixed(list, tm))
                    /\ UNCHANGED <<threadVars, jumped, scene>>

\* create_timer: at the end of the list, its next_expiration not assigned.
CreateTimer(x) == /\ x \in scene /\ ~timer[x].live
                  /\ \E g \in Garbage :
                       Record(Append(armed, x),
                              [timer EXCEPT ![x] = [NoTimer EXCEPT !.live = TRUE, !.next = g]])

DeleteTimer(x) == /\ timer[x].live
                  /\ Record(RemoveFirst(armed, x), [timer EXCEPT ![x] = NoTimer])

PlaceTimer(list, x, tm) ==
  LET others == RemoveFirst(list, x)
  IN  Insert(others, x, SelectInSeq(others, LAMBDA y : tm[y].next >= tm[x].next))

\* set_time: with zero the timer stays on the list.
Disarm(x) == /\ timer[x].live
             /\ Record(armed, [timer EXCEPT ![x].active = FALSE])

Arm(x, n, abs, p) ==
  LET tm == [timer EXCEPT ![x] = [live |-> TRUE, active |-> TRUE, next |-> n,
                                  abs |-> abs, period |-> p]]
  IN  /\ timer[x].live
      /\ Record(PlaceTimer(armed, x, tm), tm)

SetTime(x) == \/ Disarm(x)
              \/ \E p \in Periods : \/ \E n \in Delays : n # 0 /\ Arm(x, n, FALSE, p)
                                    \/ \E n \in Offsets : Arm(x, n, TRUE, p)

----------------------------------------------------------------------------
\* add_clock_time: num is added to the clock, by a tick or, for the entries with an
\* absolute time only, by clock_settime.  A negative num is a huge unsigned one.
Counted(e, num, set) ==
  IF set /\ ~e.abs THEN e
  ELSE [e EXCEPT !.counter = IF @ < (num % Wide) THEN 0 ELSE @ - (num % Wide)]

CountedTimer(x, num, set) ==
  IF ~x.active \/ (set /\ ~x.abs) THEN x
  ELSE [x EXCEPT !.next = IF @ < num THEN 0 ELSE @ - num]

\* The loop over the head of list_t: a periodic timer is placed again.
FireTimer(c) ==
  LET x == Head(c.list)
      tm == [c.timer EXCEPT ![x].next = c.timer[x].period, ![x].abs = FALSE]
  IN  IF c.timer[x].period = 0 THEN [c EXCEPT !.list = Tail(@)]
      ELSE [c EXCEPT !.list = PlaceTimer(@, x, tm), !.timer = tm]

TimerDue(c) == /\ c.list # <<>> /\ c.timer[Head(c.list)].active
               /\ c.timer[Head(c.list)].next <= 0

TimersTurn(c) == IF TimerDue(c) THEN FireTimer(c) ELSE c

\* Seeded fault: one timer at most fires in a tick.
FireFirstTimer(list, tm) == TimersTurn([list |-> list, timer |-> tm])

FireTimers(list, tm) ==
  LET after[i \in 0..Len(list)] ==
        IF i = 0 THEN [list |-> list, timer |-> tm] ELSE TimersTurn(after[i - 1])
  IN  after[Len(list)]

\* The loop over the head of list_c.  The unblock may bring another entry of the
\* thread to zero, and that may be the next head.
SleepDue(c) == c.list # <<>> /\ Head(c.list).counter = 0

FireSleep(c) == LET t == Head(c.list).thread
                IN  [list |-> Zeroed(Tail(c.list), t), woken |-> c.woken \cup {t}]

SleepsTurn(c) == IF SleepDue(c) THEN FireSleep(c) ELSE c

FireSleeps(list) ==
  LET after[i \in 0..Len(list)] ==
        IF i = 0 THEN [list |-> list, woken |-> {}] ELSE SleepsTurn(after[i - 1])
  IN  after[Len(list)]

AddClockTime(num, set) ==
  LET tm == [x \in Timers |-> CountedTimer(timer[x], num, set)]
      ts == FireTimers(armed, tm)
      ss == FireSleeps([i \in DOMAIN sleeps |-> Counted(sleeps[i], num, set)])
  IN  /\ armed' = ts.list /\ timer' = ts.timer
      /\ mixed' = (mixed \/ Mixed(ts.list, ts.timer))
      /\ sleeps' = ss.list
      /\ at' = Roused(ss.woken)
      /\ UNCHANGED <<timed, signalled, owed, scene>>

Tick == /\ AddClockTime(1, FALSE)
        /\ left' = [t \in Sleepers |-> IF left[t] <= 0 THEN left[t] ELSE left[t] - 1]
        /\ UNCHANGED <<back, jumped>>

\* The deadlines that come nearer, or go further away, when the clock is set.
Absolute == {t \in Sleepers : Mine(t, sleeps) # 0 /\ sleeps[Mine(t, sleeps)].abs}

ClockSettime(num) ==
  /\ \A x \in Timers : timer[x].next - num < Wide
  /\ \A t \in Sleepers : left[t] - num \in -Wide..Wide
  /\ AddClockTime(num, TRUE)
  /\ left' = [t \in Sleepers |-> IF t \in Absolute THEN left[t] - num ELSE left[t]]
  /\ back' = IF num < 0 THEN back \cup Absolute ELSE back
  /\ jumped' = TRUE

ClockNext == \/ Tick
             \/ \E num \in Jumps : ClockSettime(num)
             \/ \E t \in Sleepers : \/ Nanosleep(t) \/ TimedWait(t) \/ Turn(t)
                                    \/ Unblock(t) \/ Signal(t) \/ Exit(t)
             \/ \E x \in Timers : CreateTimer(x) \/ DeleteTimer(x) \/ SetTime(x)

ClockSpec == ClockInit /\ [][ClockNext]_clockVars

----------------------------------------------------------------------------
ClockTypeOK == /\ \A i \in DOMAIN sleeps :
                    sleeps[i] \in [thread : Sleepers, counter : 0..(Wide - 1), abs : BOOLEAN,
                                   stale : BOOLEAN]
               /\ at \in [Sleepers -> {"user", "asleep", "woken", "done"}]
               /\ timed \subseteq Sleepers /\ signalled \subseteq Sleepers
               /\ \A i \in DOMAIN armed : armed[i] \in Timers
               /\ timer \in [Timers -> [live : BOOLEAN, active : BOOLEAN, next : Int,
                                        abs : BOOLEAN, period : Nat]]
               /\ left \in [Sleepers -> Int]
               /\ owed \subseteq Sleepers /\ back \subseteq Sleepers
               /\ jumped \in BOOLEAN /\ mixed \in BOOLEAN

\* place_sleep, add_clock_time: nobody sleeps beyond his deadline, whatever other
\* sleeps begin, end or are left behind; unless the deadline was past to begin
\* with, which makes a huge counter of it, or the clock was set.
NoOversleep == ~jumped => \A t \in Sleepers : at[t] = "asleep" => left[t] # 0

\* clock_nanosleep: it returns 0 at the deadline and not before, however often the
\* thread is woken; unless the clock is set back, which ends absolute sleeps.
NoEarlyReturn ==
  [][\A t \in Sleepers \ (timed \cup signalled \cup back) :
        at[t] = "woken" /\ at'[t] = "user" => left[t] <= 0]_clockVars

\* unblock() and block(list, time): who waits with a timeout and is woken does not
\* go on sleeping.
WokenWaitEnds == \A t \in owed : at[t] # "asleep"

\* place_timer, add_clock_time: a tick leaves no timer behind that is due, unless
\* one that is not active stood in front of others, or the clock was set.
TimersOnTime ==
  [][Tick => \/ mixed' \/ jumped
             \/ \A i \in DOMAIN armed' :
                  timer'[armed'[i]].active => timer'[armed'[i]].next > 0]_clockVars
=============================================================================
