---------------------------- MODULE ThreadLists ----------------------------
(***************************************************************************)
(* The operations of lib/kernel/list.c that the scheduler and the          *)
(* synchronization primitives rest on, on sequences of threads.  A struct  *)
(* list is the sequence of its elements, front first.                      *)
(*                                                                         *)
(* The comparator every list of threads is given is thread_priority_cmp,   *)
(* which answers "a's priority <= b's priority"; it is spelled out in each *)
(* definition because what the two functions return depends on its being   *)
(* reflexive.                                                              *)
(*                                                                         *)
(* The positions are given as sets ({} when the list is empty, one element *)
(* otherwise) so that an action picks its position with \E.                *)
(***************************************************************************)
EXTENDS Integers, Sequences, SequencesExt

(* Mutation of InsertPoints: after the elements of the same priority.      *)
InsertPointsAfterEquals(list, key, p) ==
  { i \in 1 .. Len(list) + 1 :
      /\ \A j \in 1 .. i - 1 : key[list[j]] <= p
      /\ i <= Len(list) => p < key[list[i]] }

(* list_insert_ordered with thread_priority_cmp: before the first element  *)
(* e with  p <= key[e], at the end when there is none.                     *)
InsertPoints(list, key, p) ==
  { i \in 1 .. Len(list) + 1 :
      /\ \A j \in 1 .. i - 1 : key[list[j]] < p
      /\ i <= Len(list) => p <= key[list[i]] }

(* Mutation of StrictInsertPoints: the list is kept latest first.               *)
StrictInsertPointsReversed(list, key, p) ==
  { i \in 1 .. Len(list) + 1 :
      /\ \A j \in 1 .. i - 1 : p <= key[list[j]]
      /\ i <= Len(list) => key[list[i]] < p }

(* list_insert_ordered with the strict comparator compare_budzilniks.      *)
StrictInsertPoints(list, key, p) ==
  { i \in 1 .. Len(list) + 1 :
      /\ \A j \in 1 .. i - 1 : key[list[j]] <= p
      /\ i <= Len(list) => p < key[list[i]] }

(* list_max with thread_priority_cmp: the scan replaces its candidate by   *)
(* every later element that is not smaller, so the last maximum wins.      *)
MaxPoints(list, key) ==
  { i \in DOMAIN list :
      /\ \A j \in DOMAIN list : key[list[j]] <= key[list[i]]
      /\ \A j \in DOMAIN list : i < j => key[list[j]] < key[list[i]] }

(* list_remove of an element given by its position in the list.            *)
PointsOf(list, t) == { i \in DOMAIN list : list[i] = t }
=============================================================================
