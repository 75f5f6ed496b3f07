------------------------------ MODULE MCKernel -----------------------------
(* Instances of the kernel core for TLC.                                   *)
EXTENDS KernelProperties

CONSTANTS l1, l2, tid_lock

MCLocks1 == {tid_lock, l1}
MCLocks2 == {tid_lock, l1, l2}
MCRank == [l \in Locks |-> IF l = tid_lock THEN 3 ELSE IF l = l2 THEN 2 ELSE 1]
=============================================================================
