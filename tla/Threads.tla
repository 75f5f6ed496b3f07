------------------------------ MODULE Threads ------------------------------
(***************************************************************************)
(* The Pintos scheduler, threads/thread.c: the run queue, the thread       *)
(* states, blocking, unblocking, yielding and switching.                   *)
(*                                                                         *)
(* Pintos runs on one CPU.  The code of one thread is cut into the pieces  *)
(* between which an interrupt can arrive: everything between intr_disable  *)
(* and the matching intr_set_level is one step, and a thread switch ends a *)
(* step.  pc[t] says where thread t is; only `current' moves.              *)
(***************************************************************************)
EXTENDS ThreadLists, FiniteSets

CONSTANTS
  Threads,      (* the struct thread pages, idle's and main's included     *)
  Main, Idle,   (* initial_thread and the thread that runs idle()          *)
  NULL,
  PRI_MIN, PRI_MAX, PRI_DEFAULT,
  TIME_SLICE

ASSUME ThreadsAssumption ==
  /\ Main \in Threads /\ Idle \in Threads /\ Main # Idle
  /\ NULL \notin Threads
  /\ PRI_MIN \in Nat /\ PRI_MAX \in Nat
  /\ PRI_DEFAULT \in PRI_MIN .. PRI_MAX
  /\ TIME_SLICE \in Nat \ {0}

(* There are only so many pages.                                           *)
ASSUME ThreadsFinite == IsFiniteSet(Threads)

VARIABLES
  status,           (* t->status; "NONE" is a page that holds no thread    *)
  current,          (* thread_current()                                    *)
  ready_list,
  priority,         (* t->priority, donations included                     *)
  defaultPriority,  (* t->defaultPriority                                  *)
  idle_thread,      (* NULL until idle() has run                           *)
  cpu_ready_count,
  thread_ticks,     (* ticks of the running time slice                     *)
  in_intr,          (* in_external_intr                                    *)
  yield_on_return,
  pc                (* where each thread is                                *)

runVars   == << status, current, ready_list, cpu_ready_count, thread_ticks >>
prioVars  == << priority, defaultPriority >>
intrVars  == << in_intr, yield_on_return >>

Prio == PRI_MIN .. PRI_MAX

(* Where a thread can be.  "run" is the code of the client between two     *)
(* calls into the kernel.                                                  *)
Labels ==
  { "none", "boot", "boot_wait", "idle_start", "idle_loop", "hlt", "run",
    "donate", "down", "up", "rel_yield", "rel_thread_yield", "recalc",
    "assign", "yield", "thread_yield", "try_hold", "create_release",
    "create_unblock" }

(* The places with interrupts off: the timer cannot interrupt there.       *)
IntrOff == { "boot", "donate", "down" }

-----------------------------------------------------------------------------
(* next_thread_to_run: the back of the run queue, or the idle thread.      *)
NextThreadToRun(ready) == IF ready = << >> THEN idle_thread ELSE Last(ready)

(* Mutation of Schedule: the next thread is looked at but not popped.      *)
SchedulePeeks(st, ready) ==
  LET next == NextThreadToRun(ready)
  IN  /\ current' = next
      /\ ready_list' = ready
      /\ status' = [st EXCEPT ![next] = "RUNNING"]
      /\ thread_ticks' = 0

(* schedule and thread_schedule_tail, from a state in which the statuses   *)
(* are st and the run queue is `ready': the next thread runs with a fresh  *)
(* time slice, and the page of a dying thread is freed unless it is        *)
(* main's.                                                                 *)
Schedule(st, ready) ==
  LET next  == NextThreadToRun(ready)
      freed == IF st[current] = "DYING" /\ current # Main
               THEN [st EXCEPT ![current] = "NONE"] ELSE st
  IN  /\ current' = next
      /\ ready_list' = IF ready = << >> THEN ready ELSE Front(ready)
      /\ status' = [freed EXCEPT ![next] = "RUNNING"]
      /\ thread_ticks' = 0

(* Mutation of ThreadBlock: idle is not excepted.                          *)
ThreadBlockCountsIdle ==
  /\ cpu_ready_count' = cpu_ready_count - 1
  /\ Schedule([status EXCEPT ![current] = "BLOCKED"], ready_list)

(* thread_block, called with interrupts off by the running thread.         *)
ThreadBlock ==
  /\ cpu_ready_count' = cpu_ready_count - (IF current = idle_thread THEN 0 ELSE 1)
  /\ Schedule([status EXCEPT ![current] = "BLOCKED"], ready_list)

(* thread_unblock.                                                         *)
ThreadUnblock(t) ==
  /\ status[t] = "BLOCKED"
  /\ \E i \in InsertPoints(ready_list, priority, priority[t]) :
       ready_list' = InsertAt(ready_list, i, t)
  /\ status' = [status EXCEPT ![t] = "READY"]
  /\ cpu_ready_count' = cpu_ready_count + (IF t = idle_thread THEN 0 ELSE 1)
  /\ UNCHANGED << current, thread_ticks >>

(* thread_yield: idle does not go on the run queue.                        *)
ThreadYield ==
  /\ \/ /\ current # idle_thread
        /\ \E i \in InsertPoints(ready_list, priority, priority[current]) :
             Schedule([status EXCEPT ![current] = "READY"],
                      InsertAt(ready_list, i, current))
     \/ /\ current = idle_thread
        /\ Schedule([status EXCEPT ![current] = "READY"], ready_list)
  /\ UNCHANGED cpu_ready_count

(* thread_exit after the user program hooks.                               *)
ThreadExit ==
  /\ cpu_ready_count' = cpu_ready_count - (IF current = idle_thread THEN 0 ELSE 1)
  /\ Schedule([status EXCEPT ![current] = "DYING"], ready_list)

(* Mutation of ShouldYield: it looks at the wrong end of the run queue.    *)
ShouldYieldToFront(ready) ==
  /\ ready # << >>
  /\ priority[current] < priority[Head(ready)]

(* The test of yield_if_necessary, on a run queue `ready'.                 *)
ShouldYield(ready) ==
  /\ ready # << >>
  /\ priority[current] < priority[Last(ready)]

(* Mutation of SliceOver: one tick too many.                               *)
SliceOverLate == thread_ticks >= TIME_SLICE

(* The test thread_tick ends with.                                         *)
SliceOver == thread_ticks + 1 >= TIME_SLICE
=============================================================================
