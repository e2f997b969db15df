------------------------------ MODULE ThreadPool ------------------------------
(* What the thread list of dbgModule/thread/threadlib.c promises: a pool in  *)
(* which every thread is entered once, behind the others, and from which it  *)
(* leaves without disturbing the order of those that stay.                   *)
EXTENDS Naturals, Sequences

CONSTANT Threads

VARIABLES
  pool,    \* the listed threads, in the order a listing prints them
  status   \* per thread: not yet listed, listed, or removed

Init ==
  /\ pool = <<>>
  /\ status = [t \in Threads |-> "new"]

Enter(t) ==
  /\ status[t] = "new"
  /\ pool' = Append(pool, t)
  /\ status' = [status EXCEPT ![t] = "in"]

Leave(t) ==
  /\ status[t] = "in"
  /\ \E i \in 1..Len(pool) :
       pool[i] = t /\ pool' = SubSeq(pool, 1, i - 1) \o SubSeq(pool, i + 1, Len(pool))
  /\ status' = [status EXCEPT ![t] = "out"]

Next == \E t \in Threads : Enter(t) \/ Leave(t)

Spec == Init /\ [][Next]_<<pool, status>>
=============================================================================
