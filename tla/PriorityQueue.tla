---------------------------- MODULE PriorityQueue ----------------------------
(***************************************************************************)
(* What a POSIX message queue promises: messages wait by priority, those   *)
(* of a priority in the order they were sent; a receive takes the oldest   *)
(* of the highest; nobody waits to receive while there is a message, nor   *)
(* to send while there is room, without being served or giving up.         *)
(* MQueue implements this module.                                          *)
(***************************************************************************)
EXTENDS Naturals, Sequences, FiniteSets

CONSTANTS Threads, ProcessOf, Prios, Capacity

VARIABLES held,        \* for each priority, where its messages came from, oldest first
          receiving,   \* threads inside a receive that has not returned
          sending      \* pairs of a thread inside a send and its priority

qvars == <<held, receiving, sending>>

Used == {p \in Prios : held[p] # <<>>}
Top == {p \in Used : \A q \in Used : q <= p}

Full == Cardinality(UNION {{<<p, i>> : i \in DOMAIN held[p]} : p \in Prios}) >= Capacity

Init == /\ held = [p \in Prios |-> <<>>]
        /\ receiving = {}
        /\ sending = {}

Put(t, p) == /\ ~Full
             /\ held' = [held EXCEPT ![p] = Append(@, ProcessOf[t])]
             /\ sending' = sending \ {<<t, p>>}
             /\ UNCHANGED receiving

Take(t) == \E p \in Top : /\ held' = [held EXCEPT ![p] = Tail(@)]
                          /\ receiving' = receiving \ {t}
                          /\ UNCHANGED sending

AskToReceive(t) == /\ Used = {}
                   /\ receiving' = receiving \cup {t}
                   /\ UNCHANGED <<held, sending>>

AskToSend(t, p) == /\ Full
                   /\ sending' = sending \cup {<<t, p>>}
                   /\ UNCHANGED <<held, receiving>>

\* A timeout, a descriptor that no longer waits, or a thread that ends.
StopReceiving(t) == receiving' = receiving \ {t} /\ UNCHANGED <<held, sending>>
StopSending(t, p) == sending' = sending \ {<<t, p>>} /\ UNCHANGED <<held, receiving>>

ServeReceiver == Used # {} /\ \E t \in receiving : Take(t) \/ StopReceiving(t)
ServeSender == ~Full /\ \E s \in sending : Put(s[1], s[2]) \/ StopSending(s[1], s[2])

Next == \E t \in Threads :
          \/ Take(t) \/ AskToReceive(t) \/ StopReceiving(t)
          \/ \E p \in Prios : Put(t, p) \/ AskToSend(t, p) \/ StopSending(t, p)

Spec == /\ Init /\ [][Next]_qvars
        /\ WF_qvars(ServeReceiver) /\ WF_qvars(ServeSender)
=============================================================================
