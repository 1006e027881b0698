------------------------------ MODULE WaitList ------------------------------
(***************************************************************************)
(* The lists of blocked threads: every object a thread can wait for keeps  *)
(* a vector<UC_thread_class *> blocked_threads, to which block() appends   *)
(* the thread and from which unblock() erases it.                          *)
(***************************************************************************)
EXTENDS Integers, Sequences

\* The threads on a list.
On(list) == {list[i] : i \in 1..Len(list)}

\* vector::erase of the first element equal to t, as unblock() does.
Without(list, t) ==
  IF t \notin On(list) THEN list
  ELSE LET i == CHOOSE k \in 1..Len(list) :
                  list[k] = t /\ \A j \in 1..(k - 1) : list[j] # t
       IN  [j \in 1..(Len(list) - 1) |-> IF j < i THEN list[j] ELSE list[j + 1]]

NoRepeat(list) == \A i, j \in 1..Len(list) : list[i] = list[j] => i = j
=============================================================================
