----------------------------- MODULE SynchSpec -----------------------------
(***************************************************************************)
(* What the users of threads/synch.h may rely on, without the scheduler:   *)
(* a lock has at most one owner and passes from one to the next only       *)
(* through being free; a semaphore is a count that a successful down takes *)
(* one from; and who blocks in a down is one who asked.                    *)
(***************************************************************************)
EXTENDS Naturals

CONSTANTS Threads, Locks, Tokens, NULL

VARIABLES
  owner,    (* the thread that has a lock, NULL when it is free            *)
  count,    (* what is left in a semaphore                                 *)
  asking    (* the lock or semaphore a thread waits to obtain              *)

svars == << owner, count, asking >>

Init ==
  /\ owner = [l \in Locks |-> NULL]
  /\ count = [s \in Tokens |-> 0]
  /\ asking = [t \in Threads |-> NULL]

Ask(t, x) ==
  /\ asking[t] = NULL
  /\ asking' = [asking EXCEPT ![t] = x]
  /\ UNCHANGED << owner, count >>

(* The lock is free, or the count positive, when it is obtained.           *)
Take(t, x) ==
  \/ /\ x \in Locks /\ owner[x] = NULL
     /\ owner' = [owner EXCEPT ![x] = t]
     /\ UNCHANGED count
  \/ /\ x \in Tokens /\ count[x] > 0
     /\ count' = [count EXCEPT ![x] = @ - 1]
     /\ UNCHANGED owner

Obtain(t, x) ==
  /\ asking[t] = x
  /\ Take(t, x)
  /\ asking' = [asking EXCEPT ![t] = NULL]

Try(t, x) ==
  /\ asking[t] = NULL
  /\ Take(t, x)
  /\ UNCHANGED asking

Release(t, l) ==
  /\ owner[l] = t /\ asking[t] = NULL
  /\ owner' = [owner EXCEPT ![l] = NULL]
  /\ UNCHANGED << count, asking >>

Post(s) ==
  /\ count' = [count EXCEPT ![s] = @ + 1]
  /\ UNCHANGED << owner, asking >>

Next ==
  \/ \E t \in Threads : Obtain(t, asking[t])
  \/ \E t \in Threads, x \in Locks \cup Tokens : Ask(t, x) \/ Try(t, x)
  \/ \E t \in Threads, l \in Locks : Release(t, l)
  \/ \E s \in Tokens : Post(s)

Spec == Init /\ [][Next]_svars
=============================================================================
