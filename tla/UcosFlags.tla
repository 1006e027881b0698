----------------------------- MODULE UcosFlags -----------------------------
(***************************************************************************)
(* An event flag group of the MicroC/OS-II interface                       *)
(* (rtos/api/ucos/uc_microcos.cpp): OSFlagPend with and without a timeout, *)
(* OSFlagAccept, OSFlagPost, OSFlagDel.                                    *)
(*                                                                         *)
(* A thread that pends puts a record of its wait on the group's list, a    *)
(* pointer into its own stack; OSFlagPost takes off the records that are   *)
(* satisfied and wakes their threads.  A thread that a timeout or a signal *)
(* wakes leaves its record on the list: a later post reads what has become *)
(* of that memory.  Flags are consumed without a look at the list.         *)
(***************************************************************************)
EXTENDS Integers, FiniteSetsExt, SequencesExt

CONSTANTS Callers, Bits,
          Waits,       \* what each thread pends for
          MaxEntries   \* bound on the list when a thread goes to sleep

VARIABLES alive,       \* the group exists
          flags,       \* OSFlagFlags: the bits that are set
          waitList,    \* OSFlagWaitList
          pc,          \* "user", "asleep", "awoken"
          call,        \* the wait of a thread that is in OSFlagPend
          ready,       \* MicroCOS_flags_ready of each thread
          expired,     \* threads with m_timeout_expired set, which nobody resets
          disturbed,   \* history: threads a signal or the clock took out of a pend
          overlooked   \* history: sleepers that a consumption has satisfied

flagVars == <<alive, flags, waitList, pc, call, ready, expired, disturbed, overlooked>>
threadVars == <<pc, call, ready, expired, disturbed>>

ALL == {"SET_ALL", "CLR_ALL"}
SET == {"SET_ALL", "SET_ANY"}
Kinds == {"SET_ALL", "CLR_ALL", "SET_ANY", "CLR_ANY"}

ASSUME WaitsAssumption ==
  /\ MaxEntries \in Nat
  /\ Waits \in [Callers -> SUBSET [kind : Kinds, want : SUBSET Bits,
                                  consume : BOOLEAN, timed : BOOLEAN]]

NoWait == [kind |-> "none"]        \* neither is a type uc_FlagUnblock knows
Unknown == [kind |-> "unknown"]

FlagsInit == /\ alive = TRUE
             /\ flags \in SUBSET Bits
             /\ waitList = <<>>
             /\ pc = [t \in Callers |-> "user"]
             /\ call = [t \in Callers |-> NoWait]
             /\ ready = [t \in Callers |-> {}]
             /\ expired = {} /\ disturbed = {} /\ overlooked = {}

----------------------------------------------------------------------------
\* flags_ready: the bits a wait is for that are as it wants them.
Matching(w, F) == IF w.kind \in SET THEN w.want \cap F ELSE w.want \ F

Meets(w, R) == IF w.kind \in ALL THEN R = w.want ELSE R # {}
Holds(w, F) == Meets(w, Matching(w, F))

\* OS_FLAG_CONSUME, when nothing is to be waited for; CLR_ANY sets every bit but
\* those it found clear.
TakenNow(w, F) == CASE ~w.consume -> F
                    [] w.consume /\ w.kind \in SET -> F \ Matching(w, F)
                    [] w.consume /\ w.kind = "CLR_ALL" -> F \cup Matching(w, F)
                    [] OTHER -> F \cup (Bits \ Matching(w, F))

\* The same after a wait, whatever the flags are by then.
TakenLater(w, F) == CASE ~w.consume -> F
                      [] w.consume /\ w.kind \in SET -> F \ w.want
                      [] OTHER -> F \cup w.want

\* Flags are consumed: those whom that satisfies are not told.
Consume(F) ==
  /\ flags' = F
  /\ overlooked' = {t \in Callers : /\ pc'[t] = "asleep"
                                    /\ \/ t \in overlooked
                                       \/ ~Holds(call[t], flags) /\ Holds(call[t], F)}

----------------------------------------------------------------------------
\* OSFlagAccept, and OSFlagPend when the condition holds.
Accept(t, w) == /\ alive /\ pc[t] = "user"
                /\ Holds(w, flags)
                /\ UNCHANGED <<alive, waitList, threadVars>>
                /\ Consume(TakenNow(w, flags))

\* uc_FlagBlock up to its sleep.
Pend(t, w) == /\ alive /\ pc[t] = "user"
              /\ ~Holds(w, flags)
              /\ Len(waitList) < MaxEntries
              /\ waitList' = Append(waitList, [thread |-> t, wait |-> w, live |-> TRUE])
              /\ pc' = [pc EXCEPT ![t] = "asleep"]
              /\ call' = [call EXCEPT ![t] = w]
              /\ UNCHANGED <<alive, flags, ready, expired, disturbed, overlooked>>

\* Back from the sleep: OS_TIMEOUT if this or an earlier sleep of the thread ever
\* ran out, else MicroCOS_flags_ready.  A record still on the list is left there.
Answers(t) == IF call[t].timed /\ t \in expired THEN "OS_TIMEOUT" ELSE "OS_NO_ERR"

PendReturns(t) ==
  /\ pc[t] = "awoken"
  /\ pc' = [pc EXCEPT ![t] = "user"]
  /\ call' = [call EXCEPT ![t] = NoWait]
  /\ waitList' = [i \in DOMAIN waitList |->
                    IF waitList[i].thread = t THEN [waitList[i] EXCEPT !.live = FALSE] ELSE waitList[i]]
  /\ IF Answers(t) = "OS_NO_ERR" /\ alive
     THEN Consume(TakenLater(call[t], flags))
     ELSE UNCHANGED <<flags, overlooked>>
  /\ UNCHANGED <<alive, ready, expired, disturbed>>

\* add_clock_time: the timeout, or the end of another sleep of the thread.
WaitEnds(t) == /\ pc[t] = "asleep" /\ call[t].timed
               /\ pc' = [pc EXCEPT ![t] = "awoken"]
               /\ expired' = expired \cup {t}
               /\ disturbed' = disturbed \cup {t}
               /\ overlooked' = overlooked \ {t}
               /\ UNCHANGED <<alive, flags, waitList, call, ready>>

OtherSleepEnds(t) == /\ pc[t] = "user" /\ t \notin expired
                     /\ expired' = expired \cup {t}
                     /\ UNCHANGED <<alive, flags, waitList, pc, call, ready, disturbed, overlooked>>

\* verify_signal_thread unblocks the thread a signal is for.
Signal(t) == /\ pc[t] = "asleep"
             /\ pc' = [pc EXCEPT ![t] = "awoken"]
             /\ disturbed' = disturbed \cup {t}
             /\ overlooked' = overlooked \ {t}
             /\ UNCHANGED <<alive, flags, waitList, call, ready, expired>>

----------------------------------------------------------------------------
\* What the memory of a record reads as: the record while its thread is in the
\* pend; then what is left of it, the record of the thread's next pend, which lies
\* in the same place, or a wait of no known type.
Dead == {i \in DOMAIN waitList : ~waitList[i].live}
Reading(i, kept, reused) == CASE i \notin Dead \/ i \in kept -> waitList[i].wait
                              [] i \in reused -> call[waitList[i].thread]
                              [] OTHER -> Unknown

\* Seeded fault: after an erase the loop goes on one too far.
EveryOtherHit(reads, F) ==
  LET H == {i \in DOMAIN waitList : reads[i] \notin {NoWait, Unknown} /\ Holds(reads[i], F)}
  IN  {i \in H : i - 1 \notin H}

\* Positions of the list that uc_FlagUnblock finds satisfied.
Hits(reads, F) == {i \in DOMAIN waitList : reads[i] \notin {NoWait, Unknown} /\ Holds(reads[i], F)}

\* Seeded fault: the record is not erased.
NotErased(H) == {waitList}

\* What is left without the positions of H, in its order: the one such list.
Increasing(S) == {f \in [1..Cardinality(S) -> S] :
                    S \subseteq Range(f) /\ \A i, j \in DOMAIN f : i < j => f[i] < f[j]}

Erased(H) == {[i \in DOMAIN f |-> waitList[f[i]]] : f \in Increasing(DOMAIN waitList \ H)}

\* Each hit sets MicroCOS_flags_ready, the last one for good, and unblocks.
FlagUnblock(F) ==
  \E kept \in SUBSET Dead : \E reused \in SUBSET (Dead \ kept) :
    LET reads == [i \in DOMAIN waitList |-> Reading(i, kept, reused)]
        H == Hits(reads, F)
        Of(t) == {i \in H : waitList[i].thread = t}
    IN  /\ waitList' \in Erased(H)
        /\ ready' = [t \in Callers |-> IF Of(t) = {} THEN ready[t]
                                       ELSE Matching(reads[Max(Of(t))], F)]
        /\ pc' = [t \in Callers |-> IF Of(t) # {} /\ pc[t] = "asleep"
                                    THEN "awoken" ELSE pc[t]]

\* OSFlagPost with OS_FLAG_SET and OS_FLAG_CLR, by any thread or a handler.
Post == /\ alive
        /\ \E F \in {flags \cup B : B \in SUBSET Bits} \cup SUBSET flags :
             flags' = F /\ FlagUnblock(F)
        /\ overlooked' = {}
        /\ UNCHANGED <<alive, call, expired, disturbed>>

\* OSFlagDel, with OS_DEL_NO_PEND on an empty list and with OS_DEL_ALWAYS, which
\* leaves the sleepers asleep: either way the memory is gone.
Del == /\ alive /\ alive' = FALSE /\ waitList' = <<>>
       /\ UNCHANGED <<flags, threadVars, overlooked>>

FlagsNext == \/ Post \/ Del
             \/ \E t \in Callers : \/ PendReturns(t) \/ WaitEnds(t) \/ OtherSleepEnds(t)
                                   \/ Signal(t)
                                   \/ \E w \in Waits[t] : Accept(t, w) \/ Pend(t, w)

FlagsSpec == FlagsInit /\ [][FlagsNext]_flagVars

----------------------------------------------------------------------------
FlagsTypeOK == /\ alive \in BOOLEAN /\ flags \subseteq Bits
               /\ \A i \in DOMAIN waitList :
                    /\ waitList[i].thread \in Callers /\ waitList[i].live \in BOOLEAN
                    /\ waitList[i].wait \in Waits[waitList[i].thread]
               /\ pc \in [Callers -> {"user", "asleep", "awoken"}]
               /\ \A t \in Callers : IF pc[t] = "user" THEN call[t] = NoWait
                                      ELSE call[t] \in Waits[t]
               /\ ready \in [Callers -> SUBSET Bits]
               /\ expired \subseteq Callers /\ disturbed \subseteq Callers
               /\ overlooked \subseteq Callers

\* uc_FlagUnblock: whoever sleeps in OSFlagPend waits for something that is not so,
\* whatever records others have left on the list; unless flags another thread
\* consumed made it so.
NoSleeperOnReady ==
  \A t \in Callers : alive /\ pc[t] = "asleep" /\ Holds(call[t], flags) => t \in overlooked

\* OSFlagPend, uc_FlagUnblock: a thread that is woken, and that no signal and no
\* timeout ever took out of a pend, has in MicroCOS_flags_ready bits that satisfy
\* the wait it is in, not an earlier one of its own nor anybody else's.
WokenIsReady ==
  \A t \in Callers \ disturbed : pc[t] = "awoken" => Meets(call[t], ready[t])
=============================================================================
