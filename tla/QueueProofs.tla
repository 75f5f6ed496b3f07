----------------------------- MODULE QueueProofs -----------------------------
(***************************************************************************)
(* Proofs about the lists of the Pintos kernel, for every set of threads,  *)
(* of locks and of semaphores: which list a thread is on, in which order   *)
(* threads wait for locks, when a sleeper is woken, what cpu_ready_count   *)
(* counts, that sema_up loses no wake-up, and that the ready thread of the *)
(* highest priority runs.                                                  *)
(*                                                                         *)
(* QueueInv ties the place of a thread in its code to the list it is on;   *)
(* SleepInv, CountInv and HighestInv build on it.  For each there is one   *)
(* lemma for a step, or for a group of steps that disturb it alike.        *)
(***************************************************************************)
EXTENDS KernelProofs, FiniteSetTheorems

-----------------------------------------------------------------------------
(* The run queue and the wait lists.                                       *)

(* The places of thread_create after allocate_tid has been entered.        *)
Creating == {"create_release", "create_unblock"}

(* What the place of a thread says of the lists and locks it is on.  Idle  *)
(* goes round its loop and calls nothing that blocks; the thread to create *)
(* is there from the head of thread_create until it is unblocked; a thread *)
(* that is to wait for a lock is between the head of lock_acquire and the  *)
(* taking of the semaphore; and it is on a wait list within sema_down.     *)
PlaceOK(t) ==
  /\ t = Idle =>
       /\ pc[t] \in {"idle_start", "up", "yield", "thread_yield", "idle_loop", "hlt"}
       /\ pc[t] = "up" => arg[t] \notin Locks
       /\ pc[t] # "idle_start" => ret[t] = "idle_loop" /\ idle_thread = Idle
  /\ t # Idle => pc[t] \notin {"idle_start", "idle_loop", "hlt"} /\ ret[t] # "idle_loop"
  /\ child[t] # NULL =>
       \/ pc[t] \in Creating
       \/ /\ ret[t] \in Creating
          /\ pc[t] \notin {"none", "boot", "boot_wait", "idle_start", "run", "try_hold"}
  /\ \A l \in Locks : waitingFor[t] = l <=> pc[t] \in {"donate", "down"} /\ arg[t] = l
  /\ pc[t] = "boot" => t = current /\ ready_list = << >>
  /\ \A s \in Semas : WaitsOn(t, s) => pc[t] = "down" /\ arg[t] = s

(* A thread waits for a lock above all it owns.                            *)
Ordered(t) ==
  \A l \in Locks : waitingFor[t] = l => \A m \in OwnedLocks(t) : LockRank[m] < LockRank[l]

QueueInv == ElemExclusive /\ \A t \in Threads : PlaceOK(t) /\ Ordered(t)

(* The lists agree with the statuses st, whoever is running.               *)
Linked(st, ready, wait) ==
  /\ IsInjective(ready)
  /\ \A s \in Semas : IsInjective(wait[s])
  /\ \A s, r \in Semas : s # r => ToSet(wait[s]) \cap ToSet(wait[r]) = {}
  /\ \A t \in Threads :
       /\ t \in ToSet(ready) => st[t] = "READY"
       /\ st[t] = "READY" => t \in ToSet(ready) \/ t = idle_thread
       /\ (\E s \in Semas : t \in ToSet(wait[s])) => st[t] = "BLOCKED"
       /\ st[t] = "BLOCKED" =>
            (\E s \in Semas : t \in ToSet(wait[s])) \/ t = idle_thread \/ Newborn(t)

(* ElemExclusive, taken apart into the lists and the running thread.       *)
LEMMA ElemIsLinked ==
  ElemExclusive <=> /\ Linked(status, ready_list, waiters)
                    /\ \A t \in Threads : status[t] = "RUNNING" <=> t = current
BY DEF ElemExclusive, Linked, Queued, WaitsOn

(* schedule takes the thread it runs off the run queue.                    *)
LEMMA ScheduleLinks ==
  ASSUME NEW st \in [Threads -> Statuses], NEW ready \in Seq(Threads), current \in Threads,
         ready = << >> => idle_thread \in Threads,
         \A t \in Threads : st[t] # "RUNNING",
         NEW wait, waiters' = wait, Linked(st, ready, wait),
         \A s \in Semas : idle_thread \notin ToSet(wait[s]),
         UNCHANGED << idle_thread, child >>, Schedule(st, ready)
  PROVE  ElemExclusive'
<1> DEFINE next == NextThreadToRun(ready)
<1>1. /\ next \in Threads /\ IsInjective(ready_list') /\ next \notin ToSet(ready_list')
      /\ \A t \in Threads \ {next} : t \in ToSet(ready_list') <=> t \in ToSet(ready)
      /\ ready # << >> => next \in ToSet(ready)
  <2>1. CASE ready = << >>
    <3>1. ready_list' = << >> /\ next = idle_thread /\ ToSet(<< >>) = {}
      BY <2>1 DEF Schedule, NextThreadToRun, ToSet
    <3>2. QED BY <2>1, <3>1 DEF Linked
  <2>2. CASE ready # << >>
    BY <2>2, FrontLastLemma DEF Schedule, NextThreadToRun, Linked
  <2>3. QED BY <2>1, <2>2
<1>2. \A s \in Semas : next \notin ToSet(wait[s])
  <2>1. CASE ready = << >>
    BY <2>1 DEF NextThreadToRun
  <2>2. CASE ready # << >>
    BY <1>1, <2>2 DEF Linked
  <2>3. QED BY <2>1, <2>2
<1>3. /\ current' = next /\ status'[next] = "RUNNING"
      /\ \A t \in Threads \ {next} :
           status'[t] = st[t] \/ (st[t] = "DYING" /\ status'[t] = "NONE")
  BY <1>1 DEF Schedule
<1>4. \A t \in Threads : Newborn(t)' <=> Newborn(t)
  BY DEF Newborn
<1> HIDE DEF next
<1>5. \A t \in Threads : status'[t] = "RUNNING" <=> t = current'
  BY <1>3
<1>6. ASSUME NEW t \in Threads
      PROVE  /\ t \in ToSet(ready_list') => status'[t] = "READY"
             /\ status'[t] = "READY" => t \in ToSet(ready_list') \/ t = idle_thread'
             /\ (\E s \in Semas : t \in ToSet(wait[s])) => status'[t] = "BLOCKED"
             /\ status'[t] = "BLOCKED" =>
                  (\E s \in Semas : t \in ToSet(wait[s])) \/ t = idle_thread' \/ Newborn(t)'
  <2>1. CASE t = next
    BY <1>1, <1>2, <1>3, <2>1
  <2>2. CASE t # next
    BY <1>1, <1>3, <1>4, <2>2 DEF Linked
  <2>3. QED BY <2>1, <2>2
<1>7. QED BY <1>1, <1>5, <1>6 DEF Linked, ElemExclusive, Queued, WaitsOn

LEMMA WaitersAreThreads ==
  ASSUME TypeInv, NEW s \in Semas PROVE ToSet(waiters[s]) \subseteq Threads
<1>1. waiters[s] \in Seq(Threads)
  BY DEF TypeInv, TypeOK, SyncTypeOK
<1>2. ASSUME NEW w \in Seq(Threads) PROVE ToSet(w) \subseteq Threads
  BY DEF ToSet
<1>3. QED BY <1>1, <1>2

(* Idle is on no wait list.                                                *)
LEMMA IdleWaitsNowhere ==
  ASSUME TypeInv, QueueInv
  PROVE  \A s \in Semas : idle_thread \notin ToSet(waiters[s])
<1>1. \A s \in Semas : Idle \notin ToSet(waiters[s])
  BY ThreadsAssumption DEF QueueInv, PlaceOK, WaitsOn
<1>2. idle_thread \in {NULL, Idle}
  BY DEF TypeInv, TypeOK, IntrTypeOK
<1>3. QED BY <1>1, <1>2, WaitersAreThreads, ThreadsAssumption

(* thread_yield: the running thread goes on the run queue, idle nowhere.   *)
LEMMA YieldLinks ==
  ASSUME TypeInv, QueueInv, ThreadYield, UNCHANGED << waiters, idle_thread, child >>
  PROVE  ElemExclusive'
<1> DEFINE st == [status EXCEPT ![current] = "READY"]
<1>1. /\ st \in [Threads -> Statuses] /\ current \in Threads /\ st[current] = "READY"
      /\ \A t \in Threads \ {current} : st[t] = status[t]
      /\ ready_list \in Seq(Threads)
  BY DEF TypeInv, TypeOK, RunTypeOK, Statuses
<1>2. /\ Linked(status, ready_list, waiters)
      /\ \A t \in Threads : status[t] = "RUNNING" <=> t = current
  BY ElemIsLinked DEF QueueInv
<1>3. \A s \in Semas : idle_thread \notin ToSet(waiters[s])
  BY IdleWaitsNowhere
<1>4. \A t \in Threads : st[t] # "RUNNING"
  BY <1>1, <1>2
<1>5. current \notin ToSet(ready_list) /\ \A s \in Semas : current \notin ToSet(waiters[s])
  BY <1>1, <1>2 DEF Linked
<1> HIDE DEF st
<1>6. CASE current = idle_thread
  <2>1. Schedule(st, ready_list)
    BY <1>6 DEF ThreadYield, st
  <2>2. Linked(st, ready_list, waiters)
    BY <1>1, <1>2, <1>5, <1>6 DEF Linked
  <2>3. QED BY <1>1, <1>3, <1>4, <1>6, <2>1, <2>2, ScheduleLinks
<1>7. CASE current # idle_thread
  <2>1. PICK i \in InsertPoints(ready_list, priority, priority[current]) :
          Schedule(st, InsertAt(ready_list, i, current))
    BY <1>7 DEF ThreadYield, st
  <2> DEFINE ready == InsertAt(ready_list, i, current)
  <2>2. i \in 1 .. Len(ready_list) + 1
    BY <1>1, PointsLemma
  <2>3. /\ ready \in Seq(Threads) /\ IsInjective(ready)
        /\ ToSet(ready) = ToSet(ready_list) \cup {current}
    BY <1>1, <1>2, <1>5, <2>2, InsertAtLemma DEF Linked
  <2>4. ready # << >>
    BY <2>3 DEF ToSet
  <2> HIDE DEF ready
  <2>5. Linked(st, ready, waiters)
    BY <1>1, <1>2, <1>5, <2>3 DEF Linked
  <2>6. QED BY <1>1, <1>3, <1>4, <2>1, <2>3, <2>4, <2>5, ScheduleLinks DEF ready
<1>8. QED BY <1>6, <1>7

(* thread_unblock of a thread that is taken off its wait list, or has just *)
(* been created.                                                           *)
LEMMA UnblockLinks ==
  ASSUME TypeInv, ElemExclusive, NEW t \in Threads, ThreadUnblock(t),
         idle_thread' = idle_thread,
         \A s \in Semas : /\ IsInjective(waiters'[s])
                          /\ ToSet(waiters'[s]) = ToSet(waiters[s]) \ {t},
         \A u \in Threads \ {t} : Newborn(u) => Newborn(u)'
  PROVE  ElemExclusive'
<1>1. /\ Linked(status, ready_list, waiters)
      /\ \A u \in Threads : status[u] = "RUNNING" <=> u = current
  BY ElemIsLinked
<1>2. status[t] = "BLOCKED" /\ t \notin ToSet(ready_list) /\ ready_list \in Seq(Threads)
  BY <1>1 DEF Linked, ThreadUnblock, TypeInv, TypeOK, RunTypeOK
<1>3. PICK i \in InsertPoints(ready_list, priority, priority[t]) :
        ready_list' = InsertAt(ready_list, i, t)
  BY DEF ThreadUnblock
<1>4. i \in 1 .. Len(ready_list) + 1
  BY <1>2, PointsLemma
<1>5. ToSet(ready_list') = ToSet(ready_list) \cup {t} /\ IsInjective(ready_list')
  BY <1>1, <1>2, <1>3, <1>4, InsertAtLemma DEF Linked
<1>6. /\ current' = current /\ status'[t] = "READY"
      /\ \A u \in Threads \ {t} : status'[u] = status[u]
  BY DEF ThreadUnblock, TypeInv, TypeOK, RunTypeOK
<1>7. \A u \in Threads : status'[u] = "RUNNING" <=> u = current'
  BY <1>1, <1>2, <1>6
<1>8. ASSUME NEW u \in Threads
      PROVE  /\ u \in ToSet(ready_list') => status'[u] = "READY"
             /\ status'[u] = "READY" => u \in ToSet(ready_list') \/ u = idle_thread'
             /\ (\E s \in Semas : u \in ToSet(waiters'[s])) => status'[u] = "BLOCKED"
             /\ status'[u] = "BLOCKED" =>
                  (\E s \in Semas : u \in ToSet(waiters'[s])) \/ u = idle_thread' \/ Newborn(u)'
  <2>1. CASE u = t
    BY <1>5, <1>6, <2>1
  <2>2. CASE u # t
    BY <1>1, <1>5, <1>6, <2>2 DEF Linked
  <2>3. QED BY <2>1, <2>2
<1>9. \A s, r \in Semas : s # r => ToSet(waiters'[s]) \cap ToSet(waiters'[r]) = {}
  BY <1>1 DEF Linked
<1>10. QED BY <1>5, <1>7, <1>8, <1>9 DEF ElemExclusive, Queued, WaitsOn

(* A step that leaves everybody where he is on the lists.                  *)
LEMMA SameLinks ==
  ASSUME TypeInv, ElemExclusive, UNCHANGED << status, current, waiters, child >>,
         IsInjective(ready_list'), ToSet(ready_list') = ToSet(ready_list),
         idle_thread' \in {idle_thread, Idle}
  PROVE  ElemExclusive'
<1>1. \A t \in Threads : t = idle_thread => t = idle_thread'
  BY ThreadsAssumption DEF TypeInv, TypeOK, IntrTypeOK
<1>2. \A t \in Threads : Newborn(t)' <=> Newborn(t)
  BY DEF Newborn
<1>3. QED BY <1>1, <1>2 DEF ElemExclusive, Queued, WaitsOn

(* The running thread is on no list.                                       *)
LEMMA RunningIsNowhere ==
  ASSUME TypeInv, ElemExclusive
  PROVE  /\ current \in Threads /\ status[current] = "RUNNING"
         /\ ~Queued(current) /\ \A s \in Semas : ~WaitsOn(current, s)
BY DEF ElemExclusive, TypeInv, TypeOK, RunTypeOK

(* A step of c moves nobody else: neither in his code nor onto a wait      *)
(* list, and gives him no lock.                                            *)
Alone(c) ==
  \A t \in Threads \ {c} :
    /\ pc'[t] = pc[t] /\ arg'[t] = arg[t] /\ ret'[t] = ret[t]
    /\ waitingFor'[t] = waitingFor[t] /\ child'[t] = child[t]
    /\ \A l \in Locks : holder'[l] = t => holder[l] = t
    /\ \A s \in Semas : WaitsOn(t, s)' => WaitsOn(t, s)

(* What a step of c has to show: for the others nothing changes.           *)
LEMMA MoveLemma ==
  ASSUME TypeInv, QueueInv, ElemExclusive', NEW c \in Threads, c = current, Alone(c),
         idle_thread' = idle_thread \/ c = Idle,
         PlaceOK(c)', Ordered(c)'
  PROVE  QueueInv'
<1>1. ASSUME NEW t \in Threads, t # c PROVE PlaceOK(t)' /\ Ordered(t)'
  <2>1. PlaceOK(t) /\ Ordered(t)
    BY DEF QueueInv
  <2>2. PlaceOK(t)'
    BY <1>1, <2>1 DEF Alone, PlaceOK
  <2>3. Ordered(t)'
    BY <1>1, <2>1 DEF Alone, Ordered, OwnedLocks
  <2>4. QED BY <2>2, <2>3
<1>2. QED BY <1>1 DEF QueueInv

(* sema_up moves at most one thread from its wait list to the run queue.   *)
LEMMA SemaUpLinks ==
  ASSUME TypeInv, QueueInv, NEW s \in Semas, SemaUpBody(s), UNCHANGED << idle_thread, child >>
  PROVE  /\ ElemExclusive' /\ current' = current
         /\ \A t \in Threads, r \in Semas : WaitsOn(t, r)' => WaitsOn(t, r)
<1>1. CASE UNCHANGED << runVars, waiters >>
  BY <1>1, SameLinks DEF QueueInv, ElemExclusive, WaitsOn, runVars
<1>2. ASSUME NEW i \in MaxPoints(waiters[s], priority),
             waiters' = [waiters EXCEPT ![s] = RemoveAt(@, i)],
             ThreadUnblock(waiters[s][i])
      PROVE  /\ ElemExclusive' /\ current' = current
             /\ \A t \in Threads, r \in Semas : WaitsOn(t, r)' => WaitsOn(t, r)
  <2> DEFINE w == waiters[s]
             t == w[i]
  <2>1. w \in Seq(Threads) /\ IsInjective(w)
    BY DEF QueueInv, ElemExclusive, TypeInv, TypeOK, SyncTypeOK
  <2>2. i \in 1 .. Len(w)
    BY <1>2, <2>1, PointsLemma
  <2>3. t \in Threads /\ t \in ToSet(w)
    BY <2>1, <2>2, ElementOfSeq, LenProperties DEF ToSet
  <2>4. /\ IsInjective(RemoveAt(w, i))
        /\ ToSet(RemoveAt(w, i)) = ToSet(w) \ {t}
    BY <2>1, <2>2, RemoveAtLemma
  <2>5. waiters'[s] = RemoveAt(w, i) /\ \A r \in Semas \ {s} : waiters'[r] = waiters[r]
    BY <1>2 DEF TypeInv, TypeOK, SyncTypeOK
  <2>6. ThreadUnblock(t)
    BY <1>2
  <2> HIDE DEF t
  <2>7. ASSUME NEW r \in Semas
        PROVE  IsInjective(waiters'[r]) /\ ToSet(waiters'[r]) = ToSet(waiters[r]) \ {t}
    <3>1. CASE r = s
      BY <2>4, <2>5, <3>1
    <3>2. CASE r # s
      <4>1. t \notin ToSet(waiters[r])
        BY <2>3, <3>2 DEF QueueInv, ElemExclusive
      <4>2. QED BY <2>5, <3>2, <4>1 DEF QueueInv, ElemExclusive
    <3>3. QED BY <3>1, <3>2
  <2>8. \A u \in Threads : Newborn(u) => Newborn(u)'
    BY DEF Newborn
  <2>9. ElemExclusive'
    BY <2>3, <2>6, <2>7, <2>8, UnblockLinks DEF QueueInv
  <2>10. QED BY <2>6, <2>7, <2>9 DEF WaitsOn, ThreadUnblock
<1>3. QED BY <1>1, <1>2 DEF SemaUpBody

(* The running thread goes on without touching a list.                     *)
LEMMA QuietMove ==
  ASSUME TypeInv, QueueInv, UNCHANGED << status, current, ready_list, waiters, child >>,
         NEW c \in Threads, c = current,
         \A t \in Threads \ {c} :
           /\ pc'[t] = pc[t] /\ arg'[t] = arg[t] /\ ret'[t] = ret[t]
           /\ waitingFor'[t] = waitingFor[t]
           /\ \A l \in Locks : holder'[l] = t => holder[l] = t,
         idle_thread' = idle_thread \/ (idle_thread' = Idle /\ c = Idle),
         (\A s \in Semas : ~WaitsOn(c, s)') => PlaceOK(c)' /\ Ordered(c)'
  PROVE  QueueInv'
<1>1. ElemExclusive'
  BY SameLinks DEF QueueInv, ElemExclusive
<1>2. \A s \in Semas : ~WaitsOn(c, s)'
  BY RunningIsNowhere DEF QueueInv, WaitsOn
<1>3. Alone(c)
  BY DEF Alone, WaitsOn
<1>4. QED BY <1>1, <1>2, <1>3, MoveLemma

(* The head of sema_down.                                                  *)
LEMMA SemaDownMoves ==
  ASSUME TypeInv, QueueInv, NEW s \in Semaphores, SemaDown(s)
  PROVE  QueueInv'
<1> DEFINE c == current
<1>1. c \in Threads
  BY RunningIsNowhere DEF QueueInv
<1>2. PlaceOK(c) /\ Ordered(c)
  BY <1>1 DEF QueueInv
<1>3. /\ UNCHANGED << status, current, ready_list, waiters, child, idle_thread >>
      /\ \A t \in Threads \ {c} :
           /\ pc'[t] = pc[t] /\ arg'[t] = arg[t] /\ ret'[t] = ret[t]
           /\ waitingFor'[t] = waitingFor[t]
           /\ \A l \in Locks : holder'[l] = t => holder[l] = t
  BY DEF SemaDown, Call, Goto, runVars, semaVars, lockVars
<1>4. ASSUME \A r \in Semas : ~WaitsOn(c, r)' PROVE PlaceOK(c)' /\ Ordered(c)'
  <2>1. PlaceOK(c)'
    BY <1>2, <1>4, SynchAssumption
    DEF PlaceOK, SemaDown, Call, At, Goto, runVars, lockVars, TypeInv, TypeOK,
        CallTypeOK
  <2>2. Ordered(c)'
    BY <1>2 DEF Ordered, OwnedLocks, SemaDown, runVars, lockVars
  <2>3. QED BY <2>1, <2>2
<1>5. QED BY <1>1, <1>3, <1>4, QuietMove

(* sema_try_down.                                                          *)
LEMMA SemaTryDownMoves ==
  ASSUME TypeInv, QueueInv, NEW s \in Semaphores, SemaTryDown(s)
  PROVE  QueueInv'
<1> DEFINE c == current
<1>1. c \in Threads
  BY RunningIsNowhere DEF QueueInv
<1>2. PlaceOK(c) /\ Ordered(c)
  BY <1>1 DEF QueueInv
<1>3. /\ UNCHANGED << status, current, ready_list, waiters, child, idle_thread >>
      /\ \A t \in Threads \ {c} :
           /\ pc'[t] = pc[t] /\ arg'[t] = arg[t] /\ ret'[t] = ret[t]
           /\ waitingFor'[t] = waitingFor[t]
           /\ \A l \in Locks : holder'[l] = t => holder[l] = t
  BY DEF SemaTryDown, runVars, lockVars, callVars
<1>4. ASSUME \A r \in Semas : ~WaitsOn(c, r)' PROVE PlaceOK(c)' /\ Ordered(c)'
  <2>1. PlaceOK(c)'
    BY <1>2, <1>4 DEF PlaceOK, SemaTryDown, runVars, lockVars, callVars
  <2>2. Ordered(c)'
    BY <1>2 DEF Ordered, OwnedLocks, SemaTryDown, runVars, lockVars
  <2>3. QED BY <2>1, <2>2
<1>5. QED BY <1>1, <1>3, <1>4, QuietMove

(* The head of sema_up.                                                    *)
LEMMA SemaUpMoves ==
  ASSUME TypeInv, QueueInv, NEW s \in Semaphores, SemaUp(s)
  PROVE  QueueInv'
<1> DEFINE c == current
<1>1. c \in Threads
  BY RunningIsNowhere DEF QueueInv
<1>2. PlaceOK(c) /\ Ordered(c)
  BY <1>1 DEF QueueInv
<1>3. /\ UNCHANGED << status, current, ready_list, waiters, child, idle_thread >>
      /\ \A t \in Threads \ {c} :
           /\ pc'[t] = pc[t] /\ arg'[t] = arg[t] /\ ret'[t] = ret[t]
           /\ waitingFor'[t] = waitingFor[t]
           /\ \A l \in Locks : holder'[l] = t => holder[l] = t
  BY DEF SemaUp, Call, Goto, runVars, semaVars, lockVars
<1>4. ASSUME \A r \in Semas : ~WaitsOn(c, r)' PROVE PlaceOK(c)' /\ Ordered(c)'
  <2>1. PlaceOK(c)'
    BY <1>2, <1>4 DEF PlaceOK, Creating, SemaUp, Call, At, Goto, runVars, lockVars
  <2>2. Ordered(c)'
    BY <1>2 DEF Ordered, OwnedLocks, SemaUp, runVars, lockVars
  <2>3. QED BY <2>1, <2>2
<1>5. QED BY <1>1, <1>3, <1>4, QuietMove

(* The head of lock_acquire: the caller waits above all it owns.           *)
LEMMA LockAcquireMoves ==
  ASSUME TypeInv, QueueInv, NEW l \in Locks, LockAcquire(l)
  PROVE  QueueInv'
<1> DEFINE c == current
<1>1. c \in Threads
  BY RunningIsNowhere DEF QueueInv
<1>2. PlaceOK(c) /\ Ordered(c)
  BY <1>1 DEF QueueInv
<1>3. /\ UNCHANGED << status, current, ready_list, waiters, child, idle_thread >>
      /\ \A t \in Threads \ {c} :
           /\ pc'[t] = pc[t] /\ arg'[t] = arg[t] /\ ret'[t] = ret[t]
           /\ waitingFor'[t] = waitingFor[t]
           /\ \A m \in Locks : holder'[m] = t => holder[m] = t
  BY DEF LockAcquire, LockAcquireHead, Call, Goto, runVars, semaVars
<1>4. ASSUME \A s \in Semas : ~WaitsOn(c, s)' PROVE PlaceOK(c)' /\ Ordered(c)'
  <2>1. PlaceOK(c)'
    BY <1>2, <1>4
    DEF PlaceOK, LockAcquire, LockAcquireHead, Call, At, Goto, runVars, TypeInv, TypeOK,
        CallTypeOK, SyncTypeOK
  <2>2. Ordered(c)'
    BY <1>2 DEF Ordered, OwnedLocks, LockAcquire, LockAcquireHead, InOrder, runVars
  <2>3. QED BY <2>1, <2>2
<1>5. QED BY <1>1, <1>3, <1>4, QuietMove

(* lock_try_acquire takes the semaphore, or not.                           *)
LEMMA LockTryAcquireMoves ==
  ASSUME TypeInv, QueueInv, NEW l \in Locks, LockTryAcquire(l)
  PROVE  QueueInv'
<1> DEFINE c == current
<1>1. c \in Threads
  BY RunningIsNowhere DEF QueueInv
<1>2. PlaceOK(c) /\ Ordered(c)
  BY <1>1 DEF QueueInv
<1>3. /\ UNCHANGED << status, current, ready_list, waiters, child, idle_thread >>
      /\ \A t \in Threads \ {c} :
           /\ pc'[t] = pc[t] /\ arg'[t] = arg[t] /\ ret'[t] = ret[t]
           /\ waitingFor'[t] = waitingFor[t]
           /\ \A m \in Locks : holder'[m] = t => holder[m] = t
  BY DEF LockTryAcquire, Call, Goto, runVars, lockVars
<1>4. ASSUME \A s \in Semas : ~WaitsOn(c, s)' PROVE PlaceOK(c)' /\ Ordered(c)'
  <2>1. PlaceOK(c)'
    BY <1>2, <1>4 DEF PlaceOK, Creating, LockTryAcquire, Call, At, Goto, runVars, lockVars
  <2>2. Ordered(c)'
    BY <1>2 DEF Ordered, OwnedLocks, LockTryAcquire, runVars, lockVars
  <2>3. QED BY <2>1, <2>2
<1>5. QED BY <1>1, <1>3, <1>4, QuietMove

(* The head of lock_release.                                               *)
LEMMA LockReleaseMoves ==
  ASSUME TypeInv, QueueInv, NEW l \in Locks, LockRelease(l)
  PROVE  QueueInv'
<1> DEFINE c == current
<1>1. c \in Threads
  BY RunningIsNowhere DEF QueueInv
<1>2. PlaceOK(c) /\ Ordered(c)
  BY <1>1 DEF QueueInv
<1>3. /\ UNCHANGED << status, current, ready_list, waiters, child, idle_thread >>
      /\ \A t \in Threads \ {c} :
           /\ pc'[t] = pc[t] /\ arg'[t] = arg[t] /\ ret'[t] = ret[t]
           /\ waitingFor'[t] = waitingFor[t]
           /\ \A m \in Locks : holder'[m] = t => holder[m] = t
  BY ThreadsAssumption DEF LockRelease, LockReleaseHead, Call, Goto, runVars, semaVars
<1>4. ASSUME \A s \in Semas : ~WaitsOn(c, s)' PROVE PlaceOK(c)' /\ Ordered(c)'
  <2>1. PlaceOK(c)'
    BY <1>2, <1>4
    DEF PlaceOK, Creating, LockRelease, LockReleaseHead, Call, At, Goto, runVars
  <2>2. Ordered(c)'
    BY <1>2 DEF Ordered, OwnedLocks, LockRelease, LockReleaseHead, runVars
  <2>3. QED BY <2>1, <2>2
<1>5. QED BY <1>1, <1>3, <1>4, QuietMove

(* thread_set_priority.                                                    *)
LEMMA SetPriorityMoves ==
  ASSUME TypeInv, QueueInv, NEW p \in Prio, SetPriority(p)
  PROVE  QueueInv'
<1> DEFINE c == current
<1>1. c \in Threads
  BY RunningIsNowhere DEF QueueInv
<1>2. PlaceOK(c) /\ Ordered(c)
  BY <1>1 DEF QueueInv
<1>3. /\ UNCHANGED << status, current, ready_list, waiters, child, idle_thread >>
      /\ \A t \in Threads \ {c} :
           /\ pc'[t] = pc[t] /\ arg'[t] = arg[t] /\ ret'[t] = ret[t]
           /\ waitingFor'[t] = waitingFor[t]
           /\ \A l \in Locks : holder'[l] = t => holder[l] = t
  BY DEF SetPriority, Goto, runVars, semaVars, lockVars
<1>4. ASSUME \A s \in Semas : ~WaitsOn(c, s)' PROVE PlaceOK(c)' /\ Ordered(c)'
  <2>1. PlaceOK(c)'
    BY <1>2, <1>4 DEF PlaceOK, Creating, SetPriority, At, Goto, runVars, lockVars
  <2>2. Ordered(c)'
    BY <1>2 DEF Ordered, OwnedLocks, SetPriority, runVars, lockVars
  <2>3. QED BY <2>1, <2>2
<1>5. QED BY <1>1, <1>3, <1>4, QuietMove

(* thread_yield_if_necessary tests.                                        *)
LEMMA YieldIfNecessaryMoves ==
  ASSUME TypeInv, QueueInv, YieldIfNecessary
  PROVE  QueueInv'
<1> DEFINE c == current
<1>1. c \in Threads
  BY RunningIsNowhere DEF QueueInv
<1>2. PlaceOK(c) /\ Ordered(c)
  BY <1>1 DEF QueueInv
<1>3. /\ UNCHANGED << status, current, ready_list, waiters, child, idle_thread >>
      /\ \A t \in Threads \ {c} :
           /\ pc'[t] = pc[t] /\ arg'[t] = arg[t] /\ ret'[t] = ret[t]
           /\ waitingFor'[t] = waitingFor[t]
           /\ \A l \in Locks : holder'[l] = t => holder[l] = t
  BY DEF YieldIfNecessary, Goto, runVars, semaVars, lockVars, callVars
<1>4. ASSUME \A s \in Semas : ~WaitsOn(c, s)' PROVE PlaceOK(c)' /\ Ordered(c)'
  <2>1. PlaceOK(c)'
    BY <1>2, <1>4
    DEF PlaceOK, Creating, YieldIfNecessary, AfterYield, At, Goto, runVars, lockVars,
        callVars, TypeInv, TypeOK, CallTypeOK
  <2>2. Ordered(c)'
    BY <1>2 DEF Ordered, OwnedLocks, YieldIfNecessary, runVars, lockVars
  <2>3. QED BY <2>1, <2>2
<1>5. QED BY <1>1, <1>3, <1>4, QuietMove

(* lock_release computes the priority ...                                  *)
LEMMA RecalculateMoves ==
  ASSUME TypeInv, QueueInv, Recalculate
  PROVE  QueueInv'
<1> DEFINE c == current
<1>1. c \in Threads
  BY RunningIsNowhere DEF QueueInv
<1>2. PlaceOK(c) /\ Ordered(c)
  BY <1>1 DEF QueueInv
<1>3. /\ UNCHANGED << status, current, ready_list, waiters, child, idle_thread >>
      /\ \A t \in Threads \ {c} :
           /\ pc'[t] = pc[t] /\ arg'[t] = arg[t] /\ ret'[t] = ret[t]
           /\ waitingFor'[t] = waitingFor[t]
           /\ \A l \in Locks : holder'[l] = t => holder[l] = t
  BY DEF Recalculate, Goto, runVars, semaVars, lockVars
<1>4. ASSUME \A s \in Semas : ~WaitsOn(c, s)' PROVE PlaceOK(c)' /\ Ordered(c)'
  <2>1. PlaceOK(c)'
    BY <1>2, <1>4 DEF PlaceOK, Creating, Recalculate, At, Goto, runVars, lockVars
  <2>2. Ordered(c)'
    BY <1>2 DEF Ordered, OwnedLocks, Recalculate, runVars, lockVars
  <2>3. QED BY <2>1, <2>2
<1>5. QED BY <1>1, <1>3, <1>4, QuietMove

(* ... and stores it.                                                      *)
LEMMA AssignPriorityMoves ==
  ASSUME TypeInv, QueueInv, AssignPriority
  PROVE  QueueInv'
<1> DEFINE c == current
<1>1. c \in Threads
  BY RunningIsNowhere DEF QueueInv
<1>2. PlaceOK(c) /\ Ordered(c)
  BY <1>1 DEF QueueInv
<1>3. /\ UNCHANGED << status, current, ready_list, waiters, child, idle_thread >>
      /\ \A t \in Threads \ {c} :
           /\ pc'[t] = pc[t] /\ arg'[t] = arg[t] /\ ret'[t] = ret[t]
           /\ waitingFor'[t] = waitingFor[t]
           /\ \A l \in Locks : holder'[l] = t => holder[l] = t
  BY DEF AssignPriority, Goto, runVars, semaVars, lockVars
<1>4. ASSUME \A s \in Semas : ~WaitsOn(c, s)' PROVE PlaceOK(c)' /\ Ordered(c)'
  <2>1. PlaceOK(c)'
    BY <1>2, <1>4 DEF PlaceOK, Creating, AssignPriority, At, Goto, runVars, lockVars
  <2>2. Ordered(c)'
    BY <1>2 DEF Ordered, OwnedLocks, AssignPriority, runVars, lockVars
  <2>3. QED BY <2>1, <2>2
<1>5. QED BY <1>1, <1>3, <1>4, QuietMove

(* lock_try_acquire sets the holder.                                       *)
LEMMA TryHoldMoves ==
  ASSUME TypeInv, QueueInv, TryHold
  PROVE  QueueInv'
<1> DEFINE c == current
<1>1. c \in Threads
  BY RunningIsNowhere DEF QueueInv
<1>2. PlaceOK(c) /\ Ordered(c)
  BY <1>1 DEF QueueInv
<1>3. /\ UNCHANGED << status, current, ready_list, waiters, child, idle_thread >>
      /\ \A t \in Threads \ {c} :
           /\ pc'[t] = pc[t] /\ arg'[t] = arg[t] /\ ret'[t] = ret[t]
           /\ waitingFor'[t] = waitingFor[t]
           /\ \A l \in Locks : holder'[l] = t => holder[l] = t
  BY DEF TryHold, Goto, runVars, semaVars
<1>4. ASSUME \A s \in Semas : ~WaitsOn(c, s)' PROVE PlaceOK(c)' /\ Ordered(c)'
  <2>1. PlaceOK(c)'
    BY <1>2, <1>4 DEF PlaceOK, Creating, TryHold, At, Goto, runVars
  <2>2. Ordered(c)'
    BY <1>2 DEF Ordered, PlaceOK, TryHold, At, runVars
  <2>3. QED BY <2>1, <2>2
<1>5. QED BY <1>1, <1>3, <1>4, QuietMove

(* allocate_tid gives tid_lock back.                                       *)
LEMMA CreateReleaseMoves ==
  ASSUME TypeInv, QueueInv, CreateRelease
  PROVE  QueueInv'
<1> DEFINE c == current
<1>1. c \in Threads
  BY RunningIsNowhere DEF QueueInv
<1>2. PlaceOK(c) /\ Ordered(c)
  BY <1>1 DEF QueueInv
<1>3. /\ UNCHANGED << status, current, ready_list, waiters, child, idle_thread >>
      /\ \A t \in Threads \ {c} :
           /\ pc'[t] = pc[t] /\ arg'[t] = arg[t] /\ ret'[t] = ret[t]
           /\ waitingFor'[t] = waitingFor[t]
           /\ \A l \in Locks : holder'[l] = t => holder[l] = t
  BY ThreadsAssumption DEF CreateRelease, LockReleaseHead, Call, Goto, runVars, semaVars
<1>4. ASSUME \A s \in Semas : ~WaitsOn(c, s)' PROVE PlaceOK(c)' /\ Ordered(c)'
  <2>1. PlaceOK(c)'
    BY <1>2, <1>4
    DEF PlaceOK, Creating, CreateRelease, LockReleaseHead, Call, At, Goto, runVars,
        TypeInv, TypeOK, CallTypeOK
  <2>2. Ordered(c)'
    BY <1>2 DEF Ordered, OwnedLocks, CreateRelease, LockReleaseHead, runVars
  <2>3. QED BY <2>1, <2>2
<1>5. QED BY <1>1, <1>3, <1>4, QuietMove

(* thread_start waits for idle.                                            *)
LEMMA WaitForIdleMoves ==
  ASSUME TypeInv, QueueInv, WaitForIdle
  PROVE  QueueInv'
<1> DEFINE c == current
<1>1. c \in Threads
  BY RunningIsNowhere DEF QueueInv
<1>2. PlaceOK(c) /\ Ordered(c)
  BY <1>1 DEF QueueInv
<1>3. /\ UNCHANGED << status, current, ready_list, waiters, child, idle_thread >>
      /\ \A t \in Threads \ {c} :
           /\ pc'[t] = pc[t] /\ arg'[t] = arg[t] /\ ret'[t] = ret[t]
           /\ waitingFor'[t] = waitingFor[t]
           /\ \A l \in Locks : holder'[l] = t => holder[l] = t
  BY DEF WaitForIdle, Call, Goto, runVars, semaVars, lockVars
<1>4. ASSUME \A s \in Semas : ~WaitsOn(c, s)' PROVE PlaceOK(c)' /\ Ordered(c)'
  <2>1. PlaceOK(c)'
    BY <1>2, <1>4, SynchAssumption
    DEF PlaceOK, Creating, WaitForIdle, Call, At, Goto, runVars, lockVars, TypeInv,
        TypeOK, CallTypeOK
  <2>2. Ordered(c)'
    BY <1>2 DEF Ordered, OwnedLocks, WaitForIdle, runVars, lockVars
  <2>3. QED BY <2>1, <2>2
<1>5. QED BY <1>1, <1>3, <1>4, QuietMove

(* idle says who it is.                                                    *)
LEMMA IdleStartMoves ==
  ASSUME TypeInv, QueueInv, IdleStart
  PROVE  QueueInv'
<1> DEFINE c == current
<1>1. c \in Threads
  BY RunningIsNowhere DEF QueueInv
<1>2. PlaceOK(c) /\ Ordered(c)
  BY <1>1 DEF QueueInv
<1>3. /\ UNCHANGED << status, current, ready_list, waiters, child >>
      /\ idle_thread' = Idle /\ c = Idle
      /\ \A t \in Threads \ {c} :
           /\ pc'[t] = pc[t] /\ arg'[t] = arg[t] /\ ret'[t] = ret[t]
           /\ waitingFor'[t] = waitingFor[t]
           /\ \A l \in Locks : holder'[l] = t => holder[l] = t
  BY <1>2 DEF IdleStart, Call, At, Goto, runVars, semaVars, lockVars, PlaceOK
<1>4. ASSUME \A s \in Semas : ~WaitsOn(c, s)' PROVE PlaceOK(c)' /\ Ordered(c)'
  <2>1. PlaceOK(c)'
    BY <1>2, <1>4, SynchAssumption
    DEF PlaceOK, Creating, IdleStart, Call, At, Goto, runVars, lockVars, TypeInv,
        TypeOK, CallTypeOK
  <2>2. Ordered(c)'
    BY <1>2 DEF Ordered, OwnedLocks, IdleStart, runVars, lockVars
  <2>3. QED BY <2>1, <2>2
<1>5. QED BY <1>1, <1>3, <1>4, QuietMove

(* timer_sleep puts the caller on sleeping_threads, which is another list. *)
LEMMA TimerSleepMoves ==
  ASSUME TypeInv, QueueInv, NEW n \in Naps, TimerSleep(n)
  PROVE  QueueInv'
<1> DEFINE c == current
<1>1. c \in Threads
  BY RunningIsNowhere DEF QueueInv
<1>2. PlaceOK(c) /\ Ordered(c)
  BY <1>1 DEF QueueInv
<1>3. /\ UNCHANGED << status, current, ready_list, waiters, child, idle_thread >>
      /\ \A t \in Threads \ {c} :
           /\ pc'[t] = pc[t] /\ arg'[t] = arg[t] /\ ret'[t] = ret[t]
           /\ waitingFor'[t] = waitingFor[t]
           /\ \A l \in Locks : holder'[l] = t => holder[l] = t
  BY DEF TimerSleep, Call, Goto, runVars, semaVars, lockVars
<1>4. ASSUME \A s \in Semas : ~WaitsOn(c, s)' PROVE PlaceOK(c)' /\ Ordered(c)'
  <2>1. PlaceOK(c)'
    BY <1>2, <1>4, SynchAssumption
    DEF PlaceOK, TimerSleep, Call, At, Goto, runVars, lockVars, TypeInv, TypeOK,
        CallTypeOK
  <2>2. Ordered(c)'
    BY <1>2 DEF Ordered, OwnedLocks, TimerSleep, runVars, lockVars
  <2>3. QED BY <2>1, <2>2
<1>5. QED BY <1>1, <1>3, <1>4, QuietMove

(* A tick.                                                                 *)
LEMMA TimerInterruptMoves ==
  ASSUME TypeInv, QueueInv, TimerInterrupt
  PROVE  QueueInv'
<1> DEFINE c == current
<1>1. c \in Threads
  BY RunningIsNowhere DEF QueueInv
<1>2. PlaceOK(c) /\ Ordered(c)
  BY <1>1 DEF QueueInv
<1>3. /\ UNCHANGED << status, current, ready_list, waiters, child, idle_thread >>
      /\ \A t \in Threads \ {c} :
           /\ pc'[t] = pc[t] /\ arg'[t] = arg[t] /\ ret'[t] = ret[t]
           /\ waitingFor'[t] = waitingFor[t]
           /\ \A l \in Locks : holder'[l] = t => holder[l] = t
  BY DEF TimerInterrupt, runVars, semaVars, lockVars, callVars
<1>4. ASSUME \A s \in Semas : ~WaitsOn(c, s)' PROVE PlaceOK(c)' /\ Ordered(c)'
  <2>1. PlaceOK(c)'
    BY <1>2, <1>4 DEF PlaceOK, TimerInterrupt, runVars, lockVars, callVars
  <2>2. Ordered(c)'
    BY <1>2 DEF Ordered, OwnedLocks, TimerInterrupt, runVars, lockVars
  <2>3. QED BY <2>1, <2>2
<1>5. QED BY <1>1, <1>3, <1>4, QuietMove

(* A step that goes on after a change of the lists.                        *)
LEMMA YieldMoves ==
  ASSUME TypeInv, QueueInv, Yield PROVE QueueInv'
<1>1. PICK c \in Threads : c = current /\ \A s \in Semas : ~WaitsOn(c, s)
  BY RunningIsNowhere DEF QueueInv
<1>2. PlaceOK(c) /\ Ordered(c)
  BY DEF QueueInv
<1>3. ElemExclusive'
  BY YieldLinks DEF Yield, semaVars, callVars
<1>4. Alone(c)
  BY DEF Alone, Yield, semaVars, lockVars, callVars, WaitsOn
<1>5. PlaceOK(c)' /\ Ordered(c)'
  BY <1>1, <1>2 DEF PlaceOK, Ordered, Yield, At, semaVars, lockVars, callVars, WaitsOn
<1>6. QED BY <1>1, <1>3, <1>4, <1>5, MoveLemma DEF Yield

(* A yield within a call.                                                  *)
LEMMA YieldNowMoves ==
  ASSUME TypeInv, QueueInv, YieldNow PROVE QueueInv'
<1>1. PICK c \in Threads : c = current /\ \A s \in Semas : ~WaitsOn(c, s)
  BY RunningIsNowhere DEF QueueInv
<1>2. PlaceOK(c) /\ Ordered(c)
  BY DEF QueueInv
<1>3. ElemExclusive'
  BY YieldLinks DEF YieldNow, semaVars, callVars
<1>4. Alone(c)
  BY <1>1 DEF Alone, YieldNow, Goto, semaVars, lockVars, callVars, WaitsOn
<1>5. PlaceOK(c)'
  BY <1>2
  DEF PlaceOK, Creating, YieldNow, AfterYield, At, Goto, semaVars, lockVars, callVars,
      WaitsOn, TypeInv, TypeOK, CallTypeOK
<1>6. Ordered(c)'
  BY <1>2 DEF Ordered, OwnedLocks, YieldNow, lockVars
<1>7. QED BY <1>1, <1>3, <1>4, <1>5, <1>6, MoveLemma DEF YieldNow

(* The end of the handler, with the yield it asked for.                    *)
LEMMA ReturnFromInterruptMoves ==
  ASSUME TypeInv, QueueInv, ReturnFromInterrupt PROVE QueueInv'
<1>1. PICK c \in Threads : c = current /\ \A s \in Semas : ~WaitsOn(c, s)
  BY RunningIsNowhere DEF QueueInv
<1>2. PlaceOK(c) /\ Ordered(c)
  BY DEF QueueInv
<1>3. ElemExclusive'
  <2>1. CASE ThreadYield
    BY <2>1, YieldLinks DEF ReturnFromInterrupt, semaVars, callVars
  <2>2. CASE UNCHANGED << status, current, ready_list >>
    BY <2>2, SameLinks DEF QueueInv, ElemExclusive, ReturnFromInterrupt, semaVars, callVars
  <2>3. QED BY <2>1, <2>2 DEF ReturnFromInterrupt
<1>4. Alone(c)
  BY <1>1 DEF Alone, ReturnFromInterrupt, semaVars, lockVars, callVars, WaitsOn
<1>5. pc[c] # "boot"
  BY <1>1 DEF ReturnFromInterrupt, TypeInv, IdleReady, IntrOff
<1>6. PlaceOK(c)'
  BY <1>2, <1>5
  DEF PlaceOK, Creating, ReturnFromInterrupt, semaVars, lockVars, callVars, WaitsOn
<1>7. Ordered(c)'
  BY <1>2 DEF Ordered, OwnedLocks, ReturnFromInterrupt, lockVars
<1>8. QED BY <1>1, <1>3, <1>4, <1>6, <1>7, MoveLemma DEF ReturnFromInterrupt

(* The second half of sema_up.                                             *)
LEMMA UpMoves ==
  ASSUME TypeInv, QueueInv, Up PROVE QueueInv'
<1>1. PICK c \in Threads : c = current /\ \A s \in Semas : ~WaitsOn(c, s)
  BY RunningIsNowhere DEF QueueInv
<1>sema. arg[c] \in Semas
  BY <1>1 DEF Up, At, TypeInv, CallsWellFormed
<1>2. PlaceOK(c) /\ Ordered(c)
  BY DEF QueueInv
<1>3. /\ ElemExclusive'
      /\ \A t \in Threads, r \in Semas : WaitsOn(t, r)' => WaitsOn(t, r)
  BY <1>1, <1>sema, SemaUpLinks DEF Up
<1>4. Alone(c)
  BY <1>1, <1>3 DEF Alone, Up, Goto, lockVars
<1>5. PlaceOK(c)'
  BY <1>2, <1>3 DEF PlaceOK, Creating, Up, At, Goto, lockVars, TypeInv, TypeOK, CallTypeOK
<1>6. Ordered(c)'
  BY <1>2 DEF Ordered, OwnedLocks, Up, lockVars
<1>7. QED BY <1>1, <1>3, <1>4, <1>5, <1>6, MoveLemma DEF Up

(* The handler ups the semaphore of a sleeper.                             *)
LEMMA WakeSleeperMoves ==
  ASSUME TypeInv, QueueInv, WakeSleeper PROVE QueueInv'
<1>1. PICK c \in Threads : c = current /\ \A s \in Semas : ~WaitsOn(c, s)
  BY RunningIsNowhere DEF QueueInv
<1>sema. Head(sleeping_threads) \in Semas
  <2>1. sleeping_threads # << >> /\ sleeping_threads \in Seq(Threads)
    BY DEF WakeSleeper, SleeperDue, TypeInv, TypeOK, IntrTypeOK
  <2>2. QED BY <2>1 DEF Semas
<1>2. PlaceOK(c) /\ Ordered(c)
  BY DEF QueueInv
<1>3. /\ ElemExclusive'
      /\ \A t \in Threads, r \in Semas : WaitsOn(t, r)' => WaitsOn(t, r)
  BY <1>sema, SemaUpLinks DEF WakeSleeper, callVars
<1>4. Alone(c)
  BY <1>3 DEF Alone, WakeSleeper, lockVars, callVars
<1>5. pc[c] # "boot"
  BY <1>1 DEF WakeSleeper, TypeInv, IdleReady, IntrOff
<1>6. PlaceOK(c)' /\ Ordered(c)'
  BY <1>2, <1>3, <1>5 DEF PlaceOK, Ordered, OwnedLocks, WakeSleeper, lockVars, callVars
<1>7. QED BY <1>1, <1>3, <1>4, <1>6, MoveLemma DEF WakeSleeper

(* The running thread gives way and stays off the run queue.               *)
LEMMA LeaveLinks ==
  ASSUME TypeInv, QueueInv, pc[current] \notin {"boot", "idle_start"},
         NEW s \in {"BLOCKED", "DYING"}, Schedule([status EXCEPT ![current] = s], ready_list),
         NEW wait, waiters' = wait,
         \A r \in Semas : IsInjective(wait[r]) /\ ToSet(wait[r]) \subseteq Threads,
         \A r, q \in Semas : r # q => ToSet(wait[r]) \cap ToSet(wait[q]) = {},
         \A t \in Threads, r \in Semas : t # current => (t \in ToSet(wait[r]) <=> WaitsOn(t, r)),
         \/ s = "BLOCKED" /\ current = idle_thread /\ wait = waiters
         \/ s = "BLOCKED" /\ current # idle_thread /\ \E r \in Semas : current \in ToSet(wait[r])
         \/ s = "DYING" /\ wait = waiters,
         UNCHANGED << idle_thread, child >>
  PROVE  ElemExclusive'
<1> DEFINE st == [status EXCEPT ![current] = s]
<1>1. /\ st \in [Threads -> Statuses] /\ current \in Threads /\ st[current] = s
      /\ \A t \in Threads \ {current} : st[t] = status[t]
      /\ ready_list \in Seq(Threads)
  BY DEF TypeInv, TypeOK, RunTypeOK, Statuses
<1>2. /\ Linked(status, ready_list, waiters)
      /\ \A t \in Threads : status[t] = "RUNNING" <=> t = current
  BY ElemIsLinked DEF QueueInv
<1>3. \A t \in Threads : st[t] # "RUNNING"
  BY <1>1, <1>2
<1>4. current \notin ToSet(ready_list) /\ \A r \in Semas : ~WaitsOn(current, r)
  BY RunningIsNowhere DEF QueueInv, Queued
<1>5. \A r \in Semas : idle_thread \notin ToSet(wait[r])
  <2>1. idle_thread \in Threads => idle_thread = current \/ \A r \in Semas : ~WaitsOn(idle_thread, r)
    BY IdleWaitsNowhere DEF WaitsOn
  <2>2. idle_thread = current => wait = waiters \/ \A r \in Semas : current \notin ToSet(wait[r])
    OBVIOUS
  <2>3. QED BY <1>4, <2>1, <2>2, IdleWaitsNowhere
<1>6. ready_list = << >> => idle_thread \in Threads
  BY SwitchLemma
<1> HIDE DEF st
<1>7. Linked(st, ready_list, wait)
  <2>1. ASSUME NEW t \in Threads
        PROVE  /\ t \in ToSet(ready_list) => st[t] = "READY"
               /\ st[t] = "READY" => t \in ToSet(ready_list) \/ t = idle_thread
               /\ (\E r \in Semas : t \in ToSet(wait[r])) => st[t] = "BLOCKED"
               /\ st[t] = "BLOCKED" =>
                    (\E r \in Semas : t \in ToSet(wait[r])) \/ t = idle_thread \/ Newborn(t)
    <3>1. CASE t = current
      BY <1>1, <1>4, <3>1 DEF WaitsOn
    <3>2. CASE t # current
      BY <1>1, <1>2, <3>2 DEF Linked, WaitsOn
    <3>3. QED BY <3>1, <3>2
  <2>2. QED BY <1>2, <2>1 DEF Linked
<1>8. QED BY <1>1, <1>3, <1>5, <1>6, <1>7, ScheduleLinks DEF st

(* thread_exit.                                                            *)
LEMMA ExitMoves ==
  ASSUME TypeInv, QueueInv, Exit PROVE QueueInv'
<1>1. PICK c \in Threads : c = current /\ \A s \in Semas : ~WaitsOn(c, s)
  BY RunningIsNowhere DEF QueueInv
<1>2. PlaceOK(c) /\ Ordered(c)
  BY DEF QueueInv
<1>3. ElemExclusive'
  BY WaitersAreThreads, LeaveLinks
  DEF Exit, ThreadExit, At, semaVars, callVars, QueueInv, ElemExclusive, WaitsOn
<1>4. Alone(c)
  BY <1>1 DEF Alone, Exit, Goto, semaVars, lockVars, callVars, WaitsOn
<1>5. PlaceOK(c)'
  BY <1>2 DEF PlaceOK, Creating, Exit, At, Goto, semaVars, lockVars, callVars, WaitsOn
<1>6. Ordered(c)'
  BY <1>1 DEF Ordered, OwnedLocks, Exit, lockVars
<1>7. QED BY <1>1, <1>3, <1>4, <1>5, <1>6, MoveLemma DEF Exit

(* idle blocks.                                                            *)
LEMMA IdleBlockMoves ==
  ASSUME TypeInv, QueueInv, IdleBlock PROVE QueueInv'
<1>1. PICK c \in Threads : c = current /\ \A s \in Semas : ~WaitsOn(c, s)
  BY RunningIsNowhere DEF QueueInv
<1>2. PlaceOK(c) /\ Ordered(c)
  BY DEF QueueInv
<1>3. c = idle_thread
  BY <1>1, <1>2 DEF IdleBlock, At, PlaceOK
<1>4. ElemExclusive'
  BY <1>1, <1>3, WaitersAreThreads, LeaveLinks
  DEF IdleBlock, ThreadBlock, At, semaVars, callVars, QueueInv, ElemExclusive, WaitsOn
<1>5. Alone(c)
  BY <1>1 DEF Alone, IdleBlock, Goto, semaVars, lockVars, callVars, WaitsOn
<1>6. PlaceOK(c)'
  BY <1>2 DEF PlaceOK, IdleBlock, At, Goto, semaVars, lockVars, callVars, WaitsOn
<1>7. Ordered(c)'
  BY <1>2 DEF Ordered, OwnedLocks, IdleBlock, lockVars
<1>8. QED BY <1>1, <1>4, <1>5, <1>6, <1>7, MoveLemma DEF IdleBlock

(* sema_down waits on the list of its semaphore, or takes it and, when it  *)
(* is a lock's, holds the lock.                                            *)
LEMMA DownMoves ==
  ASSUME TypeInv, QueueInv, Down PROVE QueueInv'
<1>run. PICK c \in Threads : c = current /\ \A r \in Semas : ~WaitsOn(c, r)
  BY RunningIsNowhere DEF QueueInv
<1>sema. PICK s \in Semas : s = arg[c] /\ pc[c] = "down"
  BY <1>run DEF Down, At, TypeInv, CallsWellFormed
<1>1. c = current /\ s = arg[c] /\ pc[c] = "down" /\ \A r \in Semas : ~WaitsOn(c, r)
  BY <1>run, <1>sema
<1>2. PlaceOK(c) /\ Ordered(c)
  BY DEF QueueInv
<1>3. ASSUME MustWait(s), waiters' = [waiters EXCEPT ![s] = Append(@, c)], ThreadBlock,
             UNCHANGED << pc, value, lockVars, arg >>
      PROVE  QueueInv'
  <2>1. /\ waiters'[s] = Append(waiters[s], c)
        /\ \A r \in Semas \ {s} : waiters'[r] = waiters[r]
    BY <1>3 DEF TypeInv, TypeOK, SyncTypeOK
  <2>2. /\ ToSet(waiters'[s]) = ToSet(waiters[s]) \cup {c}
        /\ IsInjective(waiters'[s])
    <3>1. waiters[s] \in Seq(Threads) /\ IsInjective(waiters[s]) /\ c \notin ToSet(waiters[s])
      BY <1>1 DEF TypeInv, TypeOK, SyncTypeOK, QueueInv, ElemExclusive, WaitsOn
    <3>2. QED BY <2>1, <3>1, AppendLemma
  <2>3. \A t \in Threads, r \in Semas : WaitsOn(t, r)' <=> WaitsOn(t, r) \/ (t = c /\ r = s)
    BY <2>1, <2>2 DEF WaitsOn
  <2>4. ElemExclusive'
    <3> DEFINE wait == waiters'
    <3>0. \A r \in Semas : /\ IsInjective(waiters[r]) /\ ToSet(waiters[r]) \subseteq Threads
                            /\ \A q \in Semas : r # q => ToSet(waiters[r]) \cap ToSet(waiters[q]) = {}
      BY WaitersAreThreads DEF QueueInv, ElemExclusive
    <3>1. /\ \A r \in Semas : IsInjective(wait[r]) /\ ToSet(wait[r]) \subseteq Threads
          /\ \A r, q \in Semas : r # q => ToSet(wait[r]) \cap ToSet(wait[q]) = {}
      <4>1. \A r \in Semas : IsInjective(wait[r]) /\ ToSet(wait[r]) \subseteq Threads
        BY <2>1, <2>2, <3>0
      <4>2. \A r \in Semas : c \notin ToSet(waiters[r])
        BY <1>1 DEF WaitsOn
      <4>3. ASSUME NEW r \in Semas, NEW q \in Semas, r # q
            PROVE  ToSet(wait[r]) \cap ToSet(wait[q]) = {}
        <5>1. ToSet(waiters[r]) \cap ToSet(waiters[q]) = {}
          BY <3>0, <4>3
        <5>2. /\ ToSet(wait[r]) \subseteq ToSet(waiters[r]) \cup (IF r = s THEN {c} ELSE {})
              /\ ToSet(wait[q]) \subseteq ToSet(waiters[q]) \cup (IF q = s THEN {c} ELSE {})
          BY <2>1, <2>2
        <5>3. QED BY <4>2, <4>3, <5>1, <5>2
      <4>4. QED BY <4>1, <4>3
    <3>2. /\ \A t \in Threads, r \in Semas :
               t # c => (t \in ToSet(wait[r]) <=> WaitsOn(t, r))
          /\ \E r \in Semas : c \in ToSet(wait[r])
      BY <2>3 DEF WaitsOn
    <3>3. c # idle_thread
      BY <1>1, <1>2, ThreadsAssumption DEF PlaceOK, TypeInv, TypeOK, IntrTypeOK
    <3>4. Schedule([status EXCEPT ![c] = "BLOCKED"], ready_list) /\ UNCHANGED << idle_thread, child >>
      BY <1>1, <1>3 DEF ThreadBlock, Down
    <3> HIDE DEF wait
    <3>5. QED BY <1>1, <3>1, <3>2, <3>3, <3>4, LeaveLinks DEF wait
  <2>5. Alone(c)
    BY <1>3, <2>3 DEF Alone, Down, lockVars
  <2>6. PlaceOK(c)' /\ Ordered(c)'
    BY <1>1, <1>2, <1>3, <2>3 DEF PlaceOK, Ordered, OwnedLocks, Down, lockVars
  <2>7. QED BY <1>1, <2>4, <2>5, <2>6, MoveLemma DEF Down
<1>4. ASSUME ~MustWait(s)
      PROVE  QueueInv'
  <2>1. /\ UNCHANGED << status, current, ready_list, waiters, child, idle_thread, ret >>
        /\ pc' = [pc EXCEPT ![c] = ret[c]] /\ arg' = [arg EXCEPT ![c] = NULL]
        /\ IF s \in Locks THEN /\ waitingFor' = [waitingFor EXCEPT ![c] = NULL]
                               /\ holder' = [holder EXCEPT ![s] = c]
                          ELSE UNCHANGED lockVars
    BY <1>1, <1>4 DEF Down, Goto, runVars
  <2>2. \A t \in Threads \ {c} :
           /\ pc'[t] = pc[t] /\ arg'[t] = arg[t] /\ ret'[t] = ret[t]
           /\ waitingFor'[t] = waitingFor[t]
           /\ \A l \in Locks : holder'[l] = t => holder[l] = t
    BY <2>1 DEF TypeInv, TypeOK, SyncTypeOK, lockVars
  <2>3. ASSUME \A r \in Semas : ~WaitsOn(c, r)' PROVE PlaceOK(c)' /\ Ordered(c)'
    <3>1. waitingFor'[c] = NULL /\ arg'[c] = NULL /\ pc'[c] = ret[c]
      BY <1>1, <1>2, <2>1 DEF TypeInv, TypeOK, CallTypeOK, SyncTypeOK, lockVars, PlaceOK
    <3>2. PlaceOK(c)'
      BY <1>1, <1>2, <2>1, <2>3, <3>1, SynchAssumption
      DEF PlaceOK, Creating, TypeInv, TypeOK, CallTypeOK, Semas
    <3>3. Ordered(c)'
      BY <3>1, SynchAssumption DEF Ordered, Semas
    <3>4. QED BY <3>2, <3>3
  <2>4. QED BY <1>1, <2>1, <2>2, <2>3, QuietMove
<1>5. QED BY <1>1, <1>3, <1>4 DEF Down

(* The list operation of donate gives a thread another place on the run    *)
(* queue and leaves everybody on it.                                       *)
LEMMA DonateMoves ==
  ASSUME TypeInv, QueueInv, Donate PROVE QueueInv'
<1>1. PICK c \in Threads : c = current /\ \A s \in Semas : ~WaitsOn(c, s)
  BY RunningIsNowhere DEF QueueInv
<1>2. PlaceOK(c) /\ Ordered(c)
  BY DEF QueueInv
<1>3. IsInjective(ready_list') /\ ToSet(ready_list') = ToSet(ready_list)
  <2>1. ready_list \in Seq(Threads) /\ IsInjective(ready_list)
    BY DEF TypeInv, TypeOK, RunTypeOK, QueueInv, ElemExclusive
  <2>2. ASSUME NEW i \in PointsOf(ready_list, donee), NEW rest, rest = RemoveAt(ready_list, i),
               NEW j \in InsertPoints(rest, priority', priority[current]),
               ready_list' = InsertAt(rest, j, donee)
        PROVE  IsInjective(ready_list') /\ ToSet(ready_list') = ToSet(ready_list)
    <3>1. i \in 1 .. Len(ready_list) /\ ready_list[i] = donee
      BY DEF PointsOf
    <3>2. donee \in Threads
      BY <2>1, <3>1
    <3>3. /\ rest \in Seq(Threads) /\ IsInjective(rest) /\ donee \notin ToSet(rest)
          /\ ToSet(ready_list) = ToSet(rest) \cup {donee}
      BY <2>1, <2>2, <3>1, RemoveAtLemma
    <3>4. j \in 1 .. Len(rest) + 1
      BY <3>3, PointsLemma
    <3>5. QED BY <2>2, <3>2, <3>3, <3>4, InsertAtLemma
  <2>3. QED BY <2>1, <2>2 DEF Donate
<1>4. /\ UNCHANGED << status, current, waiters, child, idle_thread, arg, ret, waitingFor, holder >>
      /\ pc[c] = "donate" /\ pc' \in {pc, [pc EXCEPT ![c] = "down"]}
  BY <1>1 DEF Donate, At, Goto, semaVars, lockVars
<1>5. ElemExclusive'
  BY <1>3, <1>4, SameLinks DEF QueueInv
<1>6. Alone(c)
  BY <1>4 DEF Alone, WaitsOn, TypeInv, TypeOK, CallTypeOK
<1>7. PlaceOK(c)' /\ Ordered(c)'
  <2>1. pc'[c] \in {"donate", "down"}
    BY <1>4 DEF TypeInv, TypeOK, CallTypeOK
  <2>2. PlaceOK(c)'
    BY <1>2, <1>4, <2>1 DEF PlaceOK, Creating, WaitsOn
  <2>3. QED BY <1>2, <1>4, <2>2 DEF Ordered, OwnedLocks
<1>8. QED BY <1>1, <1>4, <1>5, <1>6, <1>7, MoveLemma

(* thread_start puts idle on an empty run queue.                           *)
LEMMA ThreadStartMoves ==
  ASSUME TypeInv, QueueInv, ThreadStart PROVE QueueInv'
<1>1. PICK c \in Threads : c = current /\ \A s \in Semas : ~WaitsOn(c, s)
  BY RunningIsNowhere DEF QueueInv
<1>2. PlaceOK(c) /\ Ordered(c) /\ pc[c] = "boot" /\ ready_list = << >>
  BY <1>1 DEF QueueInv, ThreadStart, At, PlaceOK
<1>3. Idle # c /\ Idle \in Threads /\ \A s \in Semas : ~WaitsOn(Idle, s)
  BY <1>2, ThreadsAssumption DEF QueueInv, PlaceOK
<1>4. /\ status'[Idle] = "READY" /\ \A t \in Threads \ {Idle} : status'[t] = status[t]
      /\ UNCHANGED << current, waiters, child, idle_thread, arg, ret, waitingFor, holder >>
      /\ pc' = [pc EXCEPT ![c] = "boot_wait"]
  BY <1>1, <1>3
  DEF ThreadStart, Goto, TypeInv, TypeOK, RunTypeOK, semaVars, lockVars, callVars
<1>5. ToSet(ready_list') = {Idle} /\ IsInjective(ready_list') /\ ToSet(ready_list) = {}
  BY <1>2 DEF ThreadStart, ToSet, IsInjective
<1>6. ElemExclusive'
  <2>1. /\ Linked(status, ready_list, waiters)
        /\ \A t \in Threads : status[t] = "RUNNING" <=> t = current
    BY ElemIsLinked DEF QueueInv
  <2>2. \A t \in Threads : Newborn(t)' <=> Newborn(t)
    BY <1>4 DEF Newborn
  <2>3. ASSUME NEW t \in Threads
        PROVE  /\ status'[t] = "RUNNING" <=> t = current'
               /\ t \in ToSet(ready_list') => status'[t] = "READY"
               /\ status'[t] = "READY" => t \in ToSet(ready_list') \/ t = idle_thread'
               /\ (\E s \in Semas : t \in ToSet(waiters'[s])) => status'[t] = "BLOCKED"
               /\ status'[t] = "BLOCKED" =>
                    (\E s \in Semas : t \in ToSet(waiters'[s])) \/ t = idle_thread' \/ Newborn(t)'
    <3>1. CASE t = Idle
      BY <1>1, <1>3, <1>4, <1>5, <3>1 DEF WaitsOn
    <3>2. CASE t # Idle
      BY <1>4, <1>5, <2>1, <2>2, <3>2 DEF Linked
    <3>3. QED BY <3>1, <3>2
  <2>4. QED BY <1>4, <1>5, <2>1, <2>3 DEF ElemExclusive, Linked, Queued, WaitsOn
<1>7. Alone(c)
  BY <1>4 DEF Alone, WaitsOn
<1>8. PlaceOK(c)' /\ Ordered(c)'
  <2>1. pc'[c] = "boot_wait"
    BY <1>4 DEF TypeInv, TypeOK, CallTypeOK
  <2>2. PlaceOK(c)'
    BY <1>2, <1>4, <2>1 DEF PlaceOK, Creating, WaitsOn
  <2>3. QED BY <1>2, <1>4, <2>2 DEF Ordered, OwnedLocks
<1>9. QED BY <1>1, <1>4, <1>6, <1>7, <1>8, MoveLemma

(* thread_create: the new thread is blocked, on no list, and the child of  *)
(* the running one, which goes on to take tid_lock above all its locks.    *)
LEMMA ThreadCreateMoves ==
  ASSUME TypeInv, QueueInv, NEW u \in Threads, NEW p \in Prio, ThreadCreate(u, p)
  PROVE  QueueInv'
<1>1. PICK c \in Threads : c = current /\ \A s \in Semas : ~WaitsOn(c, s)
  BY RunningIsNowhere DEF QueueInv
<1>2. PlaceOK(c) /\ Ordered(c) /\ pc[c] = "run" /\ child[c] = NULL
  BY <1>1 DEF QueueInv, ThreadCreate, At, PlaceOK, Creating
<1>3. /\ u # c /\ status[u] = "NONE" /\ status'[u] = "BLOCKED" /\ child'[c] = u
      /\ \A t \in Threads \ {u} : status'[t] = status[t]
      /\ \A t \in Threads \ {c} : child'[t] = child[t]
      /\ UNCHANGED << current, ready_list, waiters, idle_thread, holder >>
  BY <1>1
  DEF ThreadCreate, LockAcquireHead, TypeInv, TypeOK, RunTypeOK, CallTypeOK, semaVars,
      QueueInv, ElemExclusive
<1>4. /\ waitingFor' = [waitingFor EXCEPT ![c] = TidLock]
      /\ arg' = [arg EXCEPT ![c] = TidLock] /\ ret' = [ret EXCEPT ![c] = "create_release"]
      /\ pc' = [pc EXCEPT ![c] = "donate"] /\ holder[TidLock] # c
  BY <1>1 DEF ThreadCreate, LockAcquireHead, Call, Goto
<1>5. ElemExclusive'
  <2>1. /\ Linked(status, ready_list, waiters)
        /\ \A t \in Threads : status[t] = "RUNNING" <=> t = current
    BY ElemIsLinked DEF QueueInv
  <2>2. Newborn(u)' /\ \A t \in Threads \ {u} : Newborn(t) => Newborn(t)'
    BY <1>2, <1>3, ThreadsAssumption DEF Newborn
  <2>3. ASSUME NEW t \in Threads
        PROVE  /\ status'[t] = "RUNNING" <=> t = current'
               /\ t \in ToSet(ready_list') => status'[t] = "READY"
               /\ status'[t] = "READY" => t \in ToSet(ready_list') \/ t = idle_thread'
               /\ (\E s \in Semas : t \in ToSet(waiters'[s])) => status'[t] = "BLOCKED"
               /\ status'[t] = "BLOCKED" =>
                    (\E s \in Semas : t \in ToSet(waiters'[s])) \/ t = idle_thread' \/ Newborn(t)'
    <3>1. CASE t = u
      BY <1>3, <2>1, <2>2 DEF Linked
    <3>2. CASE t # u
      BY <1>3, <2>1, <2>2 DEF Linked
    <3>3. QED BY <3>1, <3>2
  <2>4. QED BY <1>3, <2>1, <2>3 DEF ElemExclusive, Linked, Queued, WaitsOn
<1>6. Alone(c)
  BY <1>3, <1>4 DEF Alone, WaitsOn
<1>7. /\ pc'[c] = "donate" /\ arg'[c] = TidLock /\ ret'[c] = "create_release"
      /\ waitingFor'[c] = TidLock
  BY <1>4 DEF TypeInv, TypeOK, CallTypeOK, SyncTypeOK
<1>8. PlaceOK(c)'
  BY <1>2, <1>3, <1>7 DEF PlaceOK, Creating, WaitsOn
<1>9. Ordered(c)'
  BY <1>3, <1>4, <1>7, SynchAssumption DEF Ordered, OwnedLocks
<1>10. QED BY <1>1, <1>3, <1>5, <1>6, <1>8, <1>9, MoveLemma

(* thread_create is over: its thread is on the run queue and on no wait    *)
(* list, as it was nowhere in the code.                                    *)
LEMMA CreateUnblockMoves ==
  ASSUME TypeInv, QueueInv, CreateUnblock PROVE QueueInv'
<1>1. PICK c \in Threads : c = current /\ \A s \in Semas : ~WaitsOn(c, s)
  BY RunningIsNowhere DEF QueueInv
<1>2. PlaceOK(c) /\ Ordered(c) /\ pc[c] = "create_unblock"
  BY <1>1 DEF QueueInv, CreateUnblock, At
<1>3. PICK k \in Threads : k = child[c] /\ k # Idle /\ pc[k] = "none" /\ k # c
  <2>1. child[c] \in Threads
    BY <1>2 DEF TypeInv, CallsWellFormed
  <2>2. child[c] # Idle /\ pc[child[c]] = "none"
    BY <2>1, ThreadsAssumption DEF TypeInv, NewbornsDormant
  <2>3. QED BY <1>2, <2>1, <2>2
<1>4. PlaceOK(k) /\ Ordered(k) /\ \A s \in Semas : ~WaitsOn(k, s)
  BY <1>3 DEF QueueInv, PlaceOK
<1>5. /\ ThreadUnblock(k) /\ current' = current
      /\ UNCHANGED << waiters, idle_thread, holder, waitingFor, arg >>
      /\ child'[c] = NULL /\ \A t \in Threads \ {c} : child'[t] = child[t]
      /\ ret'[c] = "run" /\ \A t \in Threads \ {c} : ret'[t] = ret[t]
      /\ pc'[c] = "yield" /\ pc'[k] = "run" /\ \A t \in Threads \ {c, k} : pc'[t] = pc[t]
  BY <1>1, <1>3
  DEF CreateUnblock, ThreadUnblock, semaVars, lockVars, TypeInv, TypeOK, CallTypeOK
<1>6. ElemExclusive'
  <2>1. \A s \in Semas : /\ IsInjective(waiters'[s])
                         /\ ToSet(waiters'[s]) = ToSet(waiters[s]) \ {k}
    BY <1>4, <1>5 DEF QueueInv, ElemExclusive, WaitsOn
  <2>2. \A t \in Threads \ {k} : Newborn(t) => Newborn(t)'
    BY <1>3, <1>5 DEF Newborn
  <2>3. QED BY <1>5, <2>1, <2>2, UnblockLinks DEF QueueInv
<1>7. ASSUME NEW t \in Threads PROVE PlaceOK(t)' /\ Ordered(t)'
  <2>1. Ordered(t)'
    BY <1>5 DEF QueueInv, Ordered, OwnedLocks
  <2>2. PlaceOK(t)
    BY DEF QueueInv
  <2>3. /\ \A s \in Semas : WaitsOn(t, s)' <=> WaitsOn(t, s)
        /\ waitingFor'[t] = waitingFor[t] /\ arg'[t] = arg[t] /\ idle_thread' = idle_thread
    BY <1>5 DEF WaitsOn
  <2>4. CASE t = c
    <3>1. /\ pc'[c] = "yield" /\ ret'[c] = "run" /\ child'[c] = NULL
          /\ c # Idle /\ \A s \in Semas : ~WaitsOn(c, s)
      BY <1>2, <1>5 DEF PlaceOK
    <3>2. QED BY <1>2, <2>1, <2>3, <2>4, <3>1 DEF PlaceOK
  <2>5. CASE t = k
    <3>1. /\ pc'[k] = "run" /\ ret'[k] = ret[k] /\ child'[k] = NULL
          /\ pc[k] = "none" /\ k # Idle /\ \A s \in Semas : ~WaitsOn(k, s)
      BY <1>3, <1>4, <1>5 DEF PlaceOK, Creating
    <3>2. QED BY <1>4, <2>1, <2>3, <2>5, <3>1 DEF PlaceOK
  <2>6. CASE t \notin {c, k}
    <3>1. pc'[t] = pc[t] /\ ret'[t] = ret[t] /\ child'[t] = child[t] /\ pc[t] # "boot"
      BY <1>1, <1>5, <2>2, <2>6 DEF PlaceOK
    <3>2. QED BY <2>1, <2>2, <2>3, <3>1 DEF PlaceOK
  <2>7. QED BY <2>4, <2>5, <2>6
<1>8. QED BY <1>6, <1>7 DEF QueueInv

(* At boot every list is empty.                                            *)
LEMMA QueueInvInit == Init => QueueInv
<1> SUFFICES ASSUME Init PROVE QueueInv
  OBVIOUS
<1>1. ToSet(<< >>) = {} /\ IsInjective(<< >>)
  BY DEF ToSet, IsInjective
<1>2. ElemExclusive
  BY <1>1, ThreadsAssumption DEF Init, ElemExclusive, Queued, WaitsOn
<1>3. ASSUME NEW t \in Threads PROVE PlaceOK(t) /\ Ordered(t)
  BY <1>1, ThreadsAssumption, SynchAssumption DEF Init, PlaceOK, Ordered, WaitsOn, Semas
<1>4. QED BY <1>2, <1>3 DEF QueueInv

(* No step puts a thread on two lists or lets it wait below what it owns.  *)
LEMMA QueueInvStep ==
  ASSUME TypeInv, QueueInv, [Next]_vars PROVE QueueInv'
<1>1. CASE UNCHANGED vars
  <2>1. UNCHANGED << status, current, ready_list, waiters, child, idle_thread, pc, arg, ret,
                     waitingFor, holder >>
    BY <1>1 DEF vars, runVars, semaVars, lockVars, callVars
  <2>2. QED
    BY <2>1
    DEF QueueInv, ElemExclusive, Queued, WaitsOn, Newborn, PlaceOK, Ordered, OwnedLocks
<1>2. CASE Request
  <2>1. Priorities \subseteq Prio
    BY KernelAssumption
  <2>2. QED
    BY <1>2, <2>1, ThreadCreateMoves, ExitMoves, YieldMoves, SetPriorityMoves,
       SemaDownMoves, SemaUpMoves, SemaTryDownMoves, LockAcquireMoves, LockReleaseMoves,
       LockTryAcquireMoves
    DEF Request
<1>3. CASE Progress
  BY <1>3, DownMoves, UpMoves, YieldIfNecessaryMoves, YieldNowMoves, DonateMoves,
     RecalculateMoves, AssignPriorityMoves, TryHoldMoves, CreateReleaseMoves,
     CreateUnblockMoves
  DEF Progress
<1>4. CASE Boot \/ IdleBlock \/ Interrupt
  BY <1>4, ThreadStartMoves, WaitForIdleMoves, IdleStartMoves, IdleBlockMoves,
     TimerInterruptMoves, WakeSleeperMoves, ReturnFromInterruptMoves
  DEF Boot, Interrupt
<1>5. CASE \E n \in Naps : TimerSleep(n)
  BY <1>5, TimerSleepMoves
<1>6. QED BY <1>1, <1>2, <1>3, <1>4, <1>5 DEF Next

(* t->elem serves one list at a time: at every moment, interrupts and the  *)
(* middle of donate and thread_create included, a thread is linked into at *)
(* most one of the run queue and the wait lists, and into the one its      *)
(* status says.                                                            *)
THEOREM OneListEach == Spec => []ElemExclusive
<1>1. Init => TypeInv /\ QueueInv
  BY TypeInvInit, QueueInvInit
<1>2. TypeInv /\ QueueInv /\ [Next]_vars => (TypeInv /\ QueueInv)'
  BY TypeInvStep, QueueInvStep
<1>3. QueueInv => ElemExclusive
  BY DEF QueueInv
<1>4. QED BY <1>1, <1>2, <1>3, PTL DEF Spec

(* Clients that nest their locks by rank never close a circle for donate   *)
(* to run in, whatever threads are created meanwhile under tid_lock.       *)
THEOREM WaitsAreOrdered == Spec => []WaitForOrder
<1>1. Init => TypeInv /\ QueueInv
  BY TypeInvInit, QueueInvInit
<1>2. TypeInv /\ QueueInv /\ [Next]_vars => (TypeInv /\ QueueInv)'
  BY TypeInvStep, QueueInvStep
<1>3. QueueInv => WaitForOrder
  BY SynchAssumption DEF QueueInv, WaitForOrder, PlaceOK, Ordered, Semas
<1>4. QED BY <1>1, <1>2, <1>3, PTL DEF Spec

-----------------------------------------------------------------------------
(* timer_sleep.                                                            *)

(* What is true of a thread that is asleep, about to be, or about to wake. *)
(* Its own semaphore is downed by itself alone, in timer_sleep, and upped  *)
(* by the clock alone, which takes it off sleeping_threads first.          *)
SleepOK(t) ==
  /\ t \in ToSet(sleeping_threads) =>
       /\ remaining[t] > 0 \/ in_intr
       /\ pc[t] = "down" /\ arg[t] = t /\ value[t] = 0
       /\ WaitsOn(t, t) \/ t = current
  /\ remaining[t] > 0 => t \in ToSet(sleeping_threads)
  /\ arg[t] \in Threads => arg[t] = t /\ pc[t] = "down"
  /\ value[t] # 0 =>
       value[t] = 1 /\ pc[t] = "down" /\ arg[t] = t /\ t \notin ToSet(sleeping_threads)

SleepInv == Ascending(sleeping_threads, remaining) /\ \A t \in Threads : SleepOK(t)

LEMMA SleepersAreThreads ==
  ASSUME TypeInv
  PROVE  /\ sleeping_threads \in Seq(Threads) /\ ToSet(sleeping_threads) \subseteq Threads
         /\ remaining \in [Threads -> Nat] /\ current \in Threads
<1>1. /\ sleeping_threads \in Seq(Threads) /\ remaining \in [Threads -> Nat]
      /\ current \in Threads
  BY DEF TypeInv, TypeOK, IntrTypeOK, RunTypeOK
<1>2. ASSUME NEW w \in Seq(Threads) PROVE ToSet(w) \subseteq Threads
  BY DEF ToSet
<1>3. QED BY <1>1, <1>2

(* A step of c, which is not in sema_down and is on no sleeper's business. *)
Aside(c) ==
  /\ UNCHANGED << sleeping_threads, remaining, in_intr >>
  /\ \A t \in Threads : value'[t] = value[t] /\ waiters'[t] = waiters[t]
  /\ \A t \in Threads \ {c} : arg'[t] = arg[t] /\ (pc[t] = "down" => pc'[t] = "down")
  /\ arg'[c] \notin Threads /\ pc[c] # "down"

(* Such a step leaves the sleepers as they are.                            *)
LEMMA AsideSleeps ==
  ASSUME SleepInv, NEW c \in Threads, c = current, Aside(c)
  PROVE  SleepInv'
<1>1. Ascending(sleeping_threads, remaining)'
  BY DEF Aside, SleepInv
<1>2. ASSUME NEW t \in Threads PROVE SleepOK(t)'
  <2>1. SleepOK(t)
    BY DEF SleepInv
  <2>2. CASE t = c
    BY <2>1, <2>2 DEF Aside, SleepOK
  <2>3. CASE t # c
    BY <2>1, <2>3 DEF Aside, SleepOK, WaitsOn
  <2>4. QED BY <2>2, <2>3
<1>3. QED BY <1>1, <1>2 DEF SleepInv

(* Every call a client makes but timer_sleep.                              *)
LEMMA RequestAside ==
  ASSUME TypeInv, SleepInv, NEW c \in Threads, c = current, Request, UNCHANGED timerVars
  PROVE  Aside(c)
<1>1. /\ \A t \in Threads : t \in Semas /\ t \notin Semaphores /\ t \notin Locks
      /\ NULL \notin Threads /\ TidLock \in Locks
  BY SynchAssumption, ThreadsAssumption DEF Semas
<1>2. /\ value \in [Semas -> Nat] /\ waiters \in [Semas -> Seq(Threads)]
      /\ pc \in [Threads -> Labels] /\ arg \in [Threads -> Semas \cup {NULL}]
  BY DEF TypeInv, TypeOK, SyncTypeOK, CallTypeOK
<1>3. arg[c] \in Threads => pc[c] = "down"
  BY DEF SleepInv, SleepOK
<1>4. UNCHANGED << sleeping_threads, remaining >>
  BY DEF timerVars
<1> USE DEF Aside, At, Goto, Call, runVars, prioVars, intrVars, semaVars, lockVars, callVars
<1>5. ASSUME NEW u \in Threads, NEW p \in Priorities, ThreadCreate(u, p) PROVE Aside(c)
  BY <1>1, <1>2, <1>4, <1>5 DEF ThreadCreate, LockAcquireHead
<1>6. CASE Exit
  BY <1>1, <1>2, <1>3, <1>4, <1>6 DEF Exit
<1>7. CASE Yield
  BY <1>1, <1>2, <1>3, <1>4, <1>7 DEF Yield
<1>8. ASSUME NEW p \in Priorities, SetPriority(p) PROVE Aside(c)
  BY <1>1, <1>2, <1>3, <1>4, <1>8 DEF SetPriority
<1>9. ASSUME NEW s \in Semaphores, SemaDown(s) \/ SemaUp(s) PROVE Aside(c)
  BY <1>1, <1>2, <1>4, <1>9 DEF SemaDown, SemaUp
<1>10. ASSUME NEW s \in Semaphores, SemaTryDown(s) PROVE Aside(c)
  BY <1>1, <1>2, <1>3, <1>4, <1>10 DEF SemaTryDown
<1>11. ASSUME NEW l \in Locks, LockAcquire(l) \/ LockRelease(l) PROVE Aside(c)
  BY <1>1, <1>2, <1>4, <1>11 DEF LockAcquire, LockAcquireHead, LockRelease, LockReleaseHead
<1>12. ASSUME NEW l \in Locks, LockTryAcquire(l) PROVE Aside(c)
  BY <1>1, <1>2, <1>4, <1>12 DEF LockTryAcquire
<1> HIDE DEF Aside
<1>13. QED BY <1>5, <1>6, <1>7, <1>8, <1>9, <1>10, <1>11, <1>12 DEF Request

(* The rest of a call, but sema_down; the boot sequence; idle.             *)
LEMMA ProgressAside ==
  ASSUME TypeInv, SleepInv, NEW c \in Threads, c = current, Progress, ~Down,
         UNCHANGED timerVars
  PROVE  Aside(c)
<1>1. /\ \A t \in Threads : t \in Semas /\ t \notin Semaphores /\ t \notin Locks
      /\ NULL \notin Threads /\ TidLock \in Locks
  BY SynchAssumption, ThreadsAssumption DEF Semas
<1>2. /\ value \in [Semas -> Nat] /\ waiters \in [Semas -> Seq(Threads)]
      /\ pc \in [Threads -> Labels] /\ arg \in [Threads -> Semas \cup {NULL}]
  BY DEF TypeInv, TypeOK, SyncTypeOK, CallTypeOK
<1>3. arg[c] \in Threads => pc[c] = "down"
  BY DEF SleepInv, SleepOK
<1>4. UNCHANGED << sleeping_threads, remaining >>
  BY DEF timerVars
<1> USE DEF Aside, At, Goto, Call, runVars, prioVars, intrVars, semaVars, lockVars, callVars
<1>5. CASE Up
  <2>1. arg[c] \notin Threads /\ \A t \in Threads : t # arg[c]
    BY <1>3, <1>5 DEF Up
  <2>2. \A t \in Threads : value'[t] = value[t] /\ waiters'[t] = waiters[t]
    BY <1>1, <1>2, <1>5, <2>1 DEF Up, SemaUpBody
  <2>3. QED BY <1>1, <1>2, <1>4, <1>5, <2>2 DEF Up
<1>6. CASE YieldIfNecessary
  BY <1>1, <1>2, <1>3, <1>4, <1>6 DEF YieldIfNecessary
<1>7. CASE YieldNow
  BY <1>1, <1>2, <1>3, <1>4, <1>7 DEF YieldNow
<1>8. CASE Donate
  BY <1>1, <1>2, <1>3, <1>4, <1>8 DEF Donate
<1>9. CASE Recalculate \/ AssignPriority
  BY <1>1, <1>2, <1>3, <1>4, <1>9 DEF Recalculate, AssignPriority
<1>10. CASE TryHold
  BY <1>1, <1>2, <1>4, <1>10 DEF TryHold
<1>11. CASE CreateRelease
  BY <1>1, <1>2, <1>4, <1>11 DEF CreateRelease, LockReleaseHead
<1>12. CASE CreateUnblock
  <2>1. child[c] \in Threads /\ pc[child[c]] = "none"
    BY <1>1, <1>12 DEF CreateUnblock, TypeInv, CallsWellFormed, NewbornsDormant
  <2>2. QED BY <1>1, <1>2, <1>3, <1>4, <1>12, <2>1 DEF CreateUnblock
<1> HIDE DEF Aside
<1>13. QED BY <1>5, <1>6, <1>7, <1>8, <1>9, <1>10, <1>11, <1>12 DEF Progress

(* The boot sequence and the loop of idle.                                 *)
LEMMA BootAside ==
  ASSUME TypeInv, SleepInv, NEW c \in Threads, c = current, Boot \/ IdleBlock
  PROVE  Aside(c)
<1>1. /\ \A t \in Threads : t \in Semas /\ t \notin Semaphores /\ t \notin Locks
      /\ NULL \notin Threads /\ IdleStarted \in Semaphores
  BY SynchAssumption, ThreadsAssumption DEF Semas
<1>2. pc \in [Threads -> Labels] /\ arg \in [Threads -> Semas \cup {NULL}]
  BY DEF TypeInv, TypeOK, CallTypeOK
<1>3. arg[c] \in Threads => pc[c] = "down"
  BY DEF SleepInv, SleepOK
<1> USE DEF Aside, At, Goto, Call, runVars, prioVars, intrVars, semaVars, lockVars, callVars,
        timerVars
<1>4. CASE ThreadStart
  BY <1>1, <1>2, <1>3, <1>4 DEF ThreadStart
<1>5. CASE WaitForIdle \/ IdleStart
  BY <1>1, <1>2, <1>5 DEF WaitForIdle, IdleStart
<1>6. CASE IdleBlock
  BY <1>1, <1>2, <1>3, <1>6 DEF IdleBlock
<1>7. QED BY <1>4, <1>5, <1>6 DEF Boot

(* sema_down: a sleeper joins the list of its own semaphore; a thread that *)
(* takes its own semaphore was woken before.                               *)
LEMMA DownSleeps ==
  ASSUME TypeInv, SleepInv, Down, UNCHANGED timerVars
  PROVE  SleepInv'
<1>1. PICK c \in Threads : c = current
  BY SleepersAreThreads
<1>2. PICK s \in Semas : s = arg[c]
  BY <1>1 DEF Down, At, TypeInv, CallsWellFormed
<1>3. /\ UNCHANGED << sleeping_threads, remaining, in_intr >> /\ pc[c] = "down"
      /\ \A t \in Threads : t \in Semas /\ t # NULL
      /\ value \in [Semas -> Nat] /\ waiters \in [Semas -> Seq(Threads)]
      /\ pc \in [Threads -> Labels] /\ arg \in [Threads -> Semas \cup {NULL}]
  BY <1>1, ThreadsAssumption DEF Down, At, intrVars, timerVars, Semas, TypeInv, TypeOK,
         SyncTypeOK, CallTypeOK
<1>4. Ascending(sleeping_threads, remaining)'
  BY <1>3 DEF SleepInv
<1>5. \A t \in Threads : SleepOK(t)
  BY DEF SleepInv
<1>6. CASE waiters' = [waiters EXCEPT ![s] = Append(@, c)] /\ UNCHANGED << pc, value, arg >>
  <2>1. ASSUME NEW t \in Threads, WaitsOn(t, t) \/ (t = c /\ s = c) PROVE WaitsOn(t, t)'
    <3>1. ToSet(waiters'[s]) = ToSet(waiters[s]) \cup {c}
      BY <1>2, <1>3, <1>6, AppendLemma
    <3>2. QED BY <1>3, <1>6, <2>1, <3>1 DEF WaitsOn
  <2>2. ASSUME NEW t \in Threads PROVE SleepOK(t)'
    <3>1. SleepOK(t) /\ UNCHANGED << pc, value, arg, sleeping_threads, remaining, in_intr >>
      BY <1>3, <1>5, <1>6
    <3>2. t \in ToSet(sleeping_threads) => WaitsOn(t, t)'
      <4>1. t \in ToSet(sleeping_threads) => arg[t] = t /\ (WaitsOn(t, t) \/ t = c)
        BY <1>1, <3>1 DEF SleepOK
      <4>2. QED BY <1>2, <2>1, <4>1
    <3>3. QED BY <3>1, <3>2 DEF SleepOK
  <2>3. QED BY <1>4, <2>2 DEF SleepInv
<1>7. CASE /\ value[s] # 0 /\ value' = [value EXCEPT ![s] = @ - 1]
           /\ arg' = [arg EXCEPT ![c] = NULL]
           /\ UNCHANGED << current, waiters >> /\ \A t \in Threads \ {c} : pc'[t] = pc[t]
  <2>1. c \notin ToSet(sleeping_threads) /\ (s \in Threads => s = c /\ value[c] = 1)
    BY <1>2, <1>5, <1>7 DEF SleepOK
  <2>2. ASSUME NEW t \in Threads PROVE SleepOK(t)'
    <3>1. CASE t = c
      <4>1. value'[c] = 0
        BY <1>2, <1>3, <1>5, <1>7, <2>1 DEF SleepOK
      <4>2. arg'[c] = NULL
        BY <1>3, <1>7
      <4>3. QED BY <1>3, <1>5, <2>1, <3>1, <4>1, <4>2 DEF SleepOK
    <3>2. CASE t # c
      <4>1. value'[t] = value[t] /\ arg'[t] = arg[t] /\ pc'[t] = pc[t]
        BY <1>3, <1>7, <2>1, <3>2
      <4>2. QED BY <1>3, <1>5, <1>7, <4>1 DEF SleepOK, WaitsOn
    <3>3. QED BY <3>1, <3>2
  <2>3. QED BY <1>4, <2>2 DEF SleepInv
<1>8. QED BY <1>1, <1>2, <1>3, <1>6, <1>7 DEF Down, MustWait, Goto, runVars

(* timer_sleep keeps the list in the order of the wake-up times.           *)
LEMMA TimerSleepSleeps ==
  ASSUME TypeInv, SleepInv, NEW n \in Naps, TimerSleep(n)
  PROVE  SleepInv'
<1>1. PICK c \in Threads : c = current
  BY SleepersAreThreads
<1>2. /\ n \in Nat \ {0} /\ c \in Semas /\ c # NULL
      /\ UNCHANGED << current, in_intr, value, waiters >> /\ pc[c] = "run"
      /\ remaining' = [remaining EXCEPT ![c] = n]
      /\ pc' = [pc EXCEPT ![c] = "down"] /\ arg' = [arg EXCEPT ![c] = c]
  BY <1>1, KernelAssumption, ThreadsAssumption
     DEF TimerSleep, At, Call, Goto, Semas, runVars, intrVars, semaVars
<1>3. PICK i \in StrictInsertPoints(sleeping_threads, remaining, n) :
        sleeping_threads' = InsertAt(sleeping_threads, i, c)
  BY <1>1 DEF TimerSleep
<1>4. \A t \in Threads : SleepOK(t)
  BY DEF SleepInv
<1>5. c \notin ToSet(sleeping_threads) /\ value[c] = 0
  BY <1>2, <1>4 DEF SleepOK
<1>6. /\ remaining'[c] = n /\ \A t \in Threads \ {c} : remaining'[t] = remaining[t]
      /\ pc'[c] = "down" /\ \A t \in Threads \ {c} : pc'[t] = pc[t]
      /\ arg'[c] = c /\ \A t \in Threads \ {c} : arg'[t] = arg[t]
  BY <1>2, SleepersAreThreads DEF TypeInv, TypeOK, CallTypeOK
<1>7. i \in 1 .. Len(sleeping_threads) + 1
  BY SleepersAreThreads, PointsLemma
<1>8. ToSet(sleeping_threads') = ToSet(sleeping_threads) \cup {c}
  BY <1>3, <1>5, <1>7, SleepersAreThreads, InsertAtLemma
<1>9. Ascending(sleeping_threads, remaining)'
  <2>1. remaining \in [Threads -> Int] /\ n \in Int
    BY <1>2, SleepersAreThreads
  <2>2. PICK w \in Seq(Threads) : w = sleeping_threads
    BY SleepersAreThreads
  <2>3. /\ Ascending(w, remaining) /\ c \notin ToSet(w) /\ i \in StrictInsertPoints(w, remaining, n)
        /\ remaining'[c] = n /\ \A t \in Threads \ {c} : remaining'[t] = remaining[t]
    BY <1>5, <1>6, <2>2 DEF SleepInv
  <2>4. Ascending(InsertAt(w, i, c), remaining')
    BY <2>1, <2>3, StrictInsertLemma
  <2>5. QED BY <1>3, <2>2, <2>4
<1>10. ASSUME NEW t \in Threads PROVE SleepOK(t)'
  <2>1. CASE t = c
    BY <1>1, <1>2, <1>5, <1>6, <1>8, <2>1 DEF SleepOK
  <2>2. CASE t # c
    BY <1>2, <1>4, <1>6, <1>8, <2>2 DEF SleepOK, WaitsOn
  <2>3. QED BY <2>1, <2>2
<1>11. QED BY <1>9, <1>10 DEF SleepInv

(* A tick brings all the sleepers nearer, in their order.                  *)
LEMMA TimerInterruptSleeps ==
  ASSUME TypeInv, SleepInv, TimerInterrupt
  PROVE  SleepInv'
<1>1. /\ UNCHANGED << sleeping_threads, current, pc, value, waiters, arg >> /\ in_intr'
      /\ \A t \in Threads : remaining'[t] = IF remaining[t] > 0 THEN remaining[t] - 1 ELSE 0
  BY DEF TimerInterrupt, runVars, semaVars, callVars
<1>2. Ascending(sleeping_threads, remaining)'
  <2>1. \A i \in DOMAIN sleeping_threads : sleeping_threads[i] \in Threads
    BY SleepersAreThreads DEF ToSet
  <2>2. ASSUME NEW t \in Threads, NEW u \in Threads, remaining[t] <= remaining[u]
        PROVE  remaining'[t] <= remaining'[u]
    BY <1>1, <2>2, SleepersAreThreads
  <2>3. QED BY <1>1, <2>1, <2>2 DEF SleepInv, Ascending
<1>3. ASSUME NEW t \in Threads PROVE SleepOK(t)'
  <2>1. SleepOK(t) /\ (remaining'[t] > 0 => remaining[t] > 0)
    BY <1>1, SleepersAreThreads DEF SleepInv
  <2>2. QED BY <1>1, <2>1 DEF SleepOK, WaitsOn
<1>4. QED BY <1>2, <1>3 DEF SleepInv

(* The handler ups the semaphore of the thread it took off the list.       *)
LEMMA WakeSleeperSleeps ==
  ASSUME TypeInv, SleepInv, WakeSleeper
  PROVE  SleepInv'
<1>1. /\ sleeping_threads # << >> /\ in_intr /\ UNCHANGED << in_intr, pc, arg, remaining >>
      /\ sleeping_threads' = Tail(sleeping_threads)
  BY DEF WakeSleeper, SleeperDue, callVars
<1>2. PICK h \in Threads : /\ h = Head(sleeping_threads) /\ remaining[h] = 0
                           /\ h \in ToSet(sleeping_threads)
  <2>1. Head(sleeping_threads) \in ToSet(sleeping_threads)
    <3>1. ASSUME NEW w \in Seq(Threads), w # << >> PROVE Head(w) \in ToSet(w)
      BY <3>1 DEF ToSet
    <3>2. QED BY <1>1, <3>1, SleepersAreThreads
  <2>2. QED BY <2>1, SleepersAreThreads DEF WakeSleeper, SleeperDue
<1>3. /\ Ascending(sleeping_threads, remaining)'
      /\ ToSet(sleeping_threads') = ToSet(sleeping_threads) \ {h}
  BY <1>1, <1>2, SleepersAreThreads, TailLemma DEF SleepInv
<1>4. /\ h \in Semas /\ SemaUpBody(h) /\ \A t \in Threads : t \in Semas
  BY <1>2 DEF WakeSleeper, Semas
<1>5. /\ current' = current /\ value'[h] = value[h] + 1
      /\ \A t \in Threads \ {h} : value'[t] = value[t] /\ waiters'[t] = waiters[t]
  BY <1>4 DEF SemaUpBody, ThreadUnblock, runVars, TypeInv, TypeOK, SyncTypeOK
<1>6. ASSUME NEW t \in Threads PROVE SleepOK(t)'
  <2>1. SleepOK(t)
    BY DEF SleepInv
  <2>2. CASE t = h
    BY <1>1, <1>2, <1>3, <1>5, <2>1, <2>2 DEF SleepOK
  <2>3. CASE t # h
    BY <1>1, <1>3, <1>5, <2>1, <2>3 DEF SleepOK, WaitsOn
  <2>4. QED BY <2>2, <2>3
<1>7. QED BY <1>3, <1>6 DEF SleepInv

(* The handler leaves nobody on the list who is due.                       *)
LEMMA ReturnFromInterruptSleeps ==
  ASSUME TypeInv, SleepInv, ReturnFromInterrupt
  PROVE  SleepInv'
<1>1. PICK c \in Threads : c = current /\ pc[c] \notin IntrOff
  BY SleepersAreThreads DEF TypeInv, IdleReady, ReturnFromInterrupt
<1>2. /\ UNCHANGED << sleeping_threads, remaining, arg, value, waiters >>
      /\ \A t \in Threads : pc[t] = "down" => pc'[t] = "down"
  BY <1>1 DEF ReturnFromInterrupt, timerVars, semaVars, callVars, TypeInv, TypeOK, CallTypeOK
<1>3. \A t \in ToSet(sleeping_threads) : remaining[t] > 0
  <2>1. CASE sleeping_threads = << >>
    BY <2>1 DEF ToSet
  <2>2. CASE sleeping_threads # << >>
    <3>1. PICK h \in Threads : h = Head(sleeping_threads) /\ remaining[h] # 0
      <4>1. ASSUME NEW w \in Seq(Threads), w # << >> PROVE Head(w) \in Threads
        BY <4>1
      <4>2. QED BY <2>2, <4>1, SleepersAreThreads DEF ReturnFromInterrupt, SleeperDue
    <3>2. \A t \in ToSet(sleeping_threads) : remaining[h] <= remaining[t] \/ t = h
      BY <2>2, <3>1, SleepersAreThreads, TailLemma DEF SleepInv
    <3>3. QED BY <3>1, <3>2, SleepersAreThreads
  <2>3. QED BY <2>1, <2>2
<1>4. ASSUME NEW t \in Threads PROVE SleepOK(t)'
  <2>1. SleepOK(t) /\ pc[c] # "down"
    BY <1>1 DEF SleepInv, IntrOff
  <2>2. t \in ToSet(sleeping_threads) => WaitsOn(t, t)
    BY <1>1, <2>1 DEF SleepOK
  <2>3. QED BY <1>2, <1>3, <2>1, <2>2 DEF SleepOK, WaitsOn
<1>5. QED BY <1>2, <1>4 DEF SleepInv

(* At boot nobody sleeps.                                                  *)
LEMMA SleepInvInit == Init => SleepInv
<1>1. ToSet(<< >>) = {}
  BY DEF ToSet
<1>2. QED BY <1>1, SynchAssumption, ThreadsAssumption
          DEF Init, SleepInv, SleepOK, Ascending, Semas

(* No step of a thread or of the clock breaks it.                          *)
LEMMA SleepInvStep ==
  ASSUME TypeInv, SleepInv, [Next]_vars PROVE SleepInv'
<1>1. PICK c \in Threads : c = current
  BY SleepersAreThreads
<1>2. CASE UNCHANGED vars
  <2>1. UNCHANGED << sleeping_threads, remaining, in_intr, pc, arg, value, waiters, current >>
    BY <1>2 DEF vars, runVars, intrVars, semaVars, callVars, timerVars
  <2>2. QED BY <2>1 DEF SleepInv, SleepOK, WaitsOn
<1>3. CASE (Request \/ Progress) /\ UNCHANGED timerVars
  BY <1>1, <1>3, RequestAside, ProgressAside, AsideSleeps, DownSleeps
<1>4. CASE Boot \/ IdleBlock
  BY <1>1, <1>4, BootAside, AsideSleeps
<1>5. CASE Interrupt
  BY <1>5, TimerInterruptSleeps, WakeSleeperSleeps, ReturnFromInterruptSleeps DEF Interrupt
<1>6. CASE \E n \in Naps : TimerSleep(n)
  BY <1>6, TimerSleepSleeps
<1>7. QED BY <1>2, <1>3, <1>4, <1>5, <1>6 DEF Next

(* A thread in timer_sleep neither oversleeps nor wakes early: outside the *)
(* handler everybody on the list has ticks left, in the order of the list, *)
(* and waits for a semaphore that nothing but the clock ups.               *)
THEOREM SleepersAreOnTime == Spec => []SleepersOnTime
<1>1. Init => TypeInv /\ SleepInv
  BY TypeInvInit, SleepInvInit
<1>2. TypeInv /\ SleepInv /\ [Next]_vars => (TypeInv /\ SleepInv)'
  BY TypeInvStep, SleepInvStep
<1>3. TypeInv /\ SleepInv => SleepersOnTime
  BY SleepersAreThreads DEF SleepInv, SleepOK, Ascending, SleepersOnTime
<1>4. QED BY <1>1, <1>2, <1>3, PTL DEF Spec

-----------------------------------------------------------------------------
(* Who is runnable.                                                        *)

(* Once idle has set idle_thread nobody is booting.                        *)
Booted == idle_thread # NULL => \A t \in Threads : pc[t] \notin {"boot", "idle_start"}

CountInv == CpuReadyCountExact /\ NoLostWakeup /\ Booted

(* schedule makes nobody runnable but idle, and nobody unrunnable.         *)
LEMMA ScheduleRuns ==
  ASSUME NEW st \in [Threads -> Statuses], NEW ready \in Seq(Threads), current \in Threads,
         ready = << >> => idle_thread \in Threads,
         \A t \in ToSet(ready) : st[t] = "READY", Schedule(st, ready)
  PROVE  \A t \in Threads :
           /\ st[t] \in {"READY", "RUNNING"} => Runnable(t)'
           /\ t # idle_thread /\ Runnable(t)' => st[t] \in {"READY", "RUNNING"}
<1>last. ASSUME ready # << >> PROVE Last(ready) \in Threads /\ Last(ready) \in ToSet(ready)
  <2>1. ToSet(ready) = ToSet(Front(ready)) \cup {Last(ready)}
    BY <1>last, FrontLastLemma
  <2>2. Last(ready) \in Threads
    BY <1>last, FrontLastLemma
  <2>3. QED BY <2>1, <2>2
<1> DEFINE next == NextThreadToRun(ready)
<1>1. next \in Threads /\ (next = idle_thread \/ st[next] = "READY")
  <2>1. CASE ready = << >>
    BY <2>1 DEF NextThreadToRun
  <2>2. CASE ready # << >>
    BY <1>last, <2>2 DEF NextThreadToRun
  <2>3. QED BY <2>1, <2>2
<1>2. /\ status'[next] = "RUNNING"
      /\ \A t \in Threads \ {next} :
           status'[t] = st[t] \/ (st[t] = "DYING" /\ status'[t] = "NONE")
  BY <1>1 DEF Schedule
<1> HIDE DEF next
<1>3. QED BY <1>1, <1>2 DEF Runnable

(* thread_yield makes nobody runnable but idle, and nobody unrunnable.     *)
LEMMA YieldRuns ==
  ASSUME TypeInv, QueueInv, ThreadYield
  PROVE  \A t \in Threads : /\ Runnable(t) => Runnable(t)'
                            /\ t # idle_thread => (Runnable(t)' => Runnable(t))
<1> DEFINE st == [status EXCEPT ![current] = "READY"]
<1>1. /\ st \in [Threads -> Statuses] /\ current \in Threads /\ st[current] = "READY"
      /\ \A t \in Threads \ {current} : st[t] = status[t]
      /\ ready_list \in Seq(Threads) /\ status[current] = "RUNNING"
      /\ \A t \in Threads : t \in ToSet(ready_list) => status[t] = "READY"
      /\ ToSet(ready_list) \subseteq Threads
  <2>1. ASSUME NEW w \in Seq(Threads) PROVE ToSet(w) \subseteq Threads
    BY DEF ToSet
  <2>2. QED BY <2>1 DEF TypeInv, TypeOK, RunTypeOK, Statuses, QueueInv, ElemExclusive, Queued
<1> HIDE DEF st
<1>2. \A t \in Threads : Runnable(t) <=> st[t] \in {"READY", "RUNNING"}
  BY <1>1 DEF Runnable
<1>3. CASE current = idle_thread
  <2>1. Schedule(st, ready_list)
    BY <1>3 DEF ThreadYield, st
  <2>2. \A t \in ToSet(ready_list) : st[t] = "READY"
    BY <1>1
  <2>3. QED BY <1>1, <1>2, <1>3, <2>1, <2>2, ScheduleRuns
<1>4. CASE current # idle_thread
  <2>1. PICK i \in InsertPoints(ready_list, priority, priority[current]) :
          Schedule(st, InsertAt(ready_list, i, current))
    BY <1>4 DEF ThreadYield, st
  <2> DEFINE ready == InsertAt(ready_list, i, current)
  <2>2. i \in 1 .. Len(ready_list) + 1
    BY <1>1, PointsLemma
  <2>3. /\ ready \in Seq(Threads)
        /\ ToSet(ready) = ToSet(ready_list) \cup {current}
    BY <1>1, <2>2, InsertAtLemma
  <2>4. ready # << >>
    BY <2>3 DEF ToSet
  <2> HIDE DEF ready
  <2>5. \A t \in ToSet(ready) : st[t] = "READY"
    BY <1>1, <2>3
  <2>6. QED BY <1>1, <1>2, <2>1, <2>3, <2>4, <2>5, ScheduleRuns DEF ready
<1>5. QED BY <1>3, <1>4

(* thread_block and thread_exit: the running thread is runnable no more,   *)
(* unless it is idle and nobody else is.                                   *)
LEMMA LeaveRuns ==
  ASSUME TypeInv, QueueInv, pc[current] \notin {"boot", "idle_start"},
         NEW s \in {"BLOCKED", "DYING"}, Schedule([status EXCEPT ![current] = s], ready_list)
  PROVE  /\ current \in Threads /\ Runnable(current)
         /\ \A t \in Threads \ {current} : Runnable(t) => Runnable(t)'
         /\ \A t \in Threads \ {idle_thread} : Runnable(t)' => Runnable(t) /\ t # current
<1> DEFINE st == [status EXCEPT ![current] = s]
<1>1. /\ st \in [Threads -> Statuses] /\ current \in Threads /\ st[current] = s
      /\ \A t \in Threads \ {current} : st[t] = status[t]
      /\ ready_list \in Seq(Threads) /\ status[current] = "RUNNING"
      /\ \A t \in Threads : t \in ToSet(ready_list) => status[t] = "READY"
      /\ ToSet(ready_list) \subseteq Threads
  <2>1. ASSUME NEW w \in Seq(Threads) PROVE ToSet(w) \subseteq Threads
    BY DEF ToSet
  <2>2. QED BY <2>1 DEF TypeInv, TypeOK, RunTypeOK, Statuses, QueueInv, ElemExclusive, Queued
<1>2. Schedule(st, ready_list)
  OBVIOUS
<1> HIDE DEF st
<1>3. \A t \in ToSet(ready_list) : st[t] = "READY"
  BY <1>1
<1>4. \A t \in Threads : /\ st[t] \in {"READY", "RUNNING"} => Runnable(t)'
                         /\ t # idle_thread /\ Runnable(t)' => st[t] \in {"READY", "RUNNING"}
  BY <1>1, <1>2, <1>3, SwitchLemma, ScheduleRuns
<1>5. \A t \in Threads \ {current} : Runnable(t) <=> st[t] \in {"READY", "RUNNING"}
  BY <1>1 DEF Runnable
<1>6. Runnable(current) /\ st[current] \notin {"READY", "RUNNING"}
  BY <1>1 DEF Runnable
<1>7. QED BY <1>1, <1>4, <1>5, <1>6

-----------------------------------------------------------------------------
(* Counting.                                                               *)

LEMMA ReadyThreadsFinite ==
  IsFiniteSet(ReadyThreads) /\ Cardinality(ReadyThreads) \in Nat
BY ThreadsFinite, FS_Subset, FS_CardinalityType DEF ReadyThreads

(* Nobody but idle becomes runnable or stops being so.                     *)
Steady ==
  /\ UNCHANGED << cpu_ready_count, idle_thread >>
  /\ \A t \in Threads \ {idle_thread} : Runnable(t)' <=> Runnable(t)

(* Then the count stays exact.                                             *)
LEMMA SteadyCounts ==
  ASSUME CpuReadyCountExact, Steady PROVE CpuReadyCountExact'
<1>1. ReadyThreads' = ReadyThreads
  BY DEF ReadyThreads, Steady
<1>2. QED BY <1>1 DEF CpuReadyCountExact, Steady

(* One thread fewer, and one less in the count.                            *)
LEMMA LeavingCounts ==
  ASSUME TypeInv, CpuReadyCountExact, NEW c \in Threads, Runnable(c),
         idle_thread' = idle_thread,
         \A t \in Threads \ {c, idle_thread} : Runnable(t)' <=> Runnable(t),
         c # idle_thread => ~Runnable(c)',
         cpu_ready_count' = cpu_ready_count - (IF c = idle_thread THEN 0 ELSE 1)
  PROVE  CpuReadyCountExact'
<1>1. cpu_ready_count \in Int
  BY DEF TypeInv, TypeOK, RunTypeOK
<1>2. CASE c = idle_thread
  BY <1>1, <1>2, SteadyCounts DEF Steady
<1>3. CASE c # idle_thread
  <2>1. ReadyThreads' = ReadyThreads \ {c} /\ c \in ReadyThreads
    BY <1>3 DEF ReadyThreads
  <2>2. Cardinality(ReadyThreads \ {c}) = Cardinality(ReadyThreads) - 1
    BY <2>1, ReadyThreadsFinite, ThreadsFinite, FS_RemoveElement
  <2>3. QED BY <1>1, <1>3, <2>1, <2>2, ReadyThreadsFinite, ThreadsFinite DEF CpuReadyCountExact
<1>4. QED BY <1>2, <1>3

(* One thread more, and one more in the count.                             *)
LEMMA JoiningCounts ==
  ASSUME TypeInv, CpuReadyCountExact, NEW u \in Threads, ~Runnable(u), Runnable(u)',
         idle_thread' = idle_thread,
         \A t \in Threads \ {u} : Runnable(t)' <=> Runnable(t),
         cpu_ready_count' = cpu_ready_count + (IF u = idle_thread THEN 0 ELSE 1)
  PROVE  CpuReadyCountExact'
<1>1. cpu_ready_count \in Int
  BY DEF TypeInv, TypeOK, RunTypeOK
<1>2. CASE u = idle_thread
  BY <1>1, <1>2, SteadyCounts DEF Steady
<1>3. CASE u # idle_thread
  <2>1. ReadyThreads' = ReadyThreads \cup {u} /\ u \notin ReadyThreads
    BY <1>3 DEF ReadyThreads
  <2>2. Cardinality(ReadyThreads \cup {u}) = Cardinality(ReadyThreads) + 1
    BY <2>1, ReadyThreadsFinite, ThreadsFinite, FS_AddElement
  <2>3. QED BY <1>1, <1>3, <2>1, <2>2, ReadyThreadsFinite, ThreadsFinite DEF CpuReadyCountExact
<1>4. QED BY <1>2, <1>3

(* thread_unblock counts the thread it makes runnable.                     *)
LEMMA UnblockCounts ==
  ASSUME TypeInv, CpuReadyCountExact, NEW t \in Threads, ThreadUnblock(t),
         idle_thread' = idle_thread
  PROVE  CpuReadyCountExact'
<1>1. /\ ~Runnable(t) /\ Runnable(t)'
      /\ \A u \in Threads \ {t} : Runnable(u)' <=> Runnable(u)
  BY DEF ThreadUnblock, Runnable, TypeInv, TypeOK, RunTypeOK
<1>2. QED BY <1>1, JoiningCounts DEF ThreadUnblock

(* sema_up wakes a thread that waits in sema_down, or nobody.              *)
LEMMA SemaUpCounts ==
  ASSUME TypeInv, QueueInv, CpuReadyCountExact, NEW s \in Semas, SemaUpBody(s),
         idle_thread' = idle_thread
  PROVE  /\ CpuReadyCountExact'
         /\ \A t \in Threads : Runnable(t) => Runnable(t)'
         /\ \/ waiters[s] = << >> /\ waiters' = waiters
            \/ /\ waiters[s] # << >> /\ \A r \in Semas \ {s} : waiters'[r] = waiters[r]
               /\ \E t \in Threads : /\ pc[t] = "down" /\ arg[t] = s
                                     /\ ~Runnable(t) /\ Runnable(t)'
<1>1. CASE waiters[s] = << >> /\ UNCHANGED << runVars, waiters >>
  BY <1>1, SteadyCounts DEF Steady, Runnable, runVars
<1>2. ASSUME NEW i \in MaxPoints(waiters[s], priority),
             waiters' = [waiters EXCEPT ![s] = RemoveAt(@, i)],
             ThreadUnblock(waiters[s][i])
      PROVE  /\ CpuReadyCountExact'
             /\ \A t \in Threads : Runnable(t) => Runnable(t)'
             /\ waiters[s] # << >> /\ \A r \in Semas \ {s} : waiters'[r] = waiters[r]
             /\ \E t \in Threads : /\ pc[t] = "down" /\ arg[t] = s
                                   /\ ~Runnable(t) /\ Runnable(t)'
  <2>1. waiters \in [Semas -> Seq(Threads)] /\ status \in [Threads -> Statuses]
    BY DEF TypeInv, TypeOK, SyncTypeOK, RunTypeOK
  <2>2. i \in 1 .. Len(waiters[s])
    BY <2>1, PointsLemma
  <2>3. PICK t \in Threads : t = waiters[s][i] /\ WaitsOn(t, s) /\ waiters[s] # << >>
    BY <2>1, <2>2, ElementOfSeq, LenProperties, EmptySeq DEF ToSet, WaitsOn
  <2>4. ThreadUnblock(t)
    BY <1>2, <2>3
  <2>5. /\ ~Runnable(t) /\ Runnable(t)'
        /\ \A u \in Threads \ {t} : Runnable(u)' <=> Runnable(u)
    BY <2>1, <2>4 DEF ThreadUnblock, Runnable
  <2>6. pc[t] = "down" /\ arg[t] = s
    BY <2>3 DEF QueueInv, PlaceOK
  <2>7. \A r \in Semas \ {s} : waiters'[r] = waiters[r]
    BY <1>2, <2>1
  <2>8. QED BY <2>3, <2>4, <2>5, <2>6, <2>7, UnblockCounts
<1>3. QED BY <1>1, <1>2 DEF SemaUpBody

-----------------------------------------------------------------------------
(* Wake-ups.                                                               *)

LEMMA RetryingFinite ==
  ASSUME NEW s PROVE IsFiniteSet(Retrying(s)) /\ Cardinality(Retrying(s)) \in Nat
BY ThreadsFinite, FS_Subset, FS_CardinalityType DEF Retrying

(* Those on their way through sema_down stay there, runnable.              *)
StillTrying(T) ==
  \A t \in T : Runnable(t) /\ pc[t] = "down" =>
    Runnable(t)' /\ pc'[t] = "down" /\ arg'[t] = arg[t]

(* A step that puts nobody on a wait list and ups no semaphore.            *)
Harmless ==
  /\ StillTrying(Threads)
  /\ \A s \in Semas : value'[s] <= value[s] /\ waiters'[s] = waiters[s]

(* The steps that boot are the first of their threads.                     *)
BootsNobody ==
  \A t \in Threads : pc'[t] \in {"boot", "idle_start"} => pc'[t] = pc[t]

(* Such a step loses no wake-up.                                           *)
LEMMA HarmlessWakes ==
  ASSUME TypeInv, TypeInv', NoLostWakeup, Harmless PROVE NoLostWakeup'
<1>1. ASSUME NEW s \in Semas, waiters'[s] # << >>
      PROVE  value'[s] <= Cardinality(Retrying(s))'
  <2>1. Retrying(s) \subseteq Retrying(s)'
    BY DEF Harmless, StillTrying, Retrying
  <2>2. Cardinality(Retrying(s)) <= Cardinality(Retrying(s)')
    <3>1. Retrying(s)' \subseteq Threads
      BY DEF Retrying
    <3>2. IsFiniteSet(Retrying(s)')
      BY <3>1, ThreadsFinite, FS_Subset
    <3>3. QED BY <2>1, <3>2, FS_Subset
  <2>3. /\ value'[s] <= value[s] /\ value[s] <= Cardinality(Retrying(s))
        /\ value[s] \in Nat /\ value'[s] \in Nat
    BY <1>1 DEF Harmless, NoLostWakeup, TypeInv, TypeOK, SyncTypeOK
  <2>4. Cardinality(Retrying(s)) \in Nat /\ Cardinality(Retrying(s)') \in Nat
    <3>1. Retrying(s) \subseteq Threads /\ Retrying(s)' \subseteq Threads
      BY DEF Retrying
    <3>2. QED BY <3>1, ThreadsFinite, FS_Subset, FS_CardinalityType
  <2>5. QED BY <2>2, <2>3, <2>4
<1>2. QED BY <1>1 DEF NoLostWakeup

(* A semaphore is upped: the value grows by one, and when somebody waits   *)
(* so does the number of those that try again.                             *)
LEMMA UpWakes ==
  ASSUME TypeInv, TypeInv', QueueInv, NoLostWakeup, NEW s \in Semas,
         value' = [value EXCEPT ![s] = @ + 1], StillTrying(Threads),
         \A t \in Threads : pc[t] = "down" => pc'[t] = "down" /\ arg'[t] = arg[t],
         \/ waiters[s] = << >> /\ waiters' = waiters
         \/ /\ waiters[s] # << >> /\ \A r \in Semas \ {s} : waiters'[r] = waiters[r]
            /\ \E t \in Threads : /\ pc[t] = "down" /\ arg[t] = s
                                  /\ ~Runnable(t) /\ Runnable(t)'
  PROVE  NoLostWakeup'
<1>1. value \in [Semas -> Nat]
  BY DEF TypeInv, TypeOK, SyncTypeOK
<1>2. ASSUME NEW r \in Semas, waiters'[r] # << >> PROVE value'[r] <= Cardinality(Retrying(r))'
  <2>1. Retrying(r) \subseteq Retrying(r)' /\ Retrying(r)' \subseteq Threads
    BY DEF StillTrying, Retrying
  <2>2. IsFiniteSet(Retrying(r)') /\ IsFiniteSet(Retrying(r))
    BY <2>1, ThreadsFinite, FS_Subset
  <2>3. /\ Cardinality(Retrying(r)) \in Nat /\ Cardinality(Retrying(r)') \in Nat
        /\ Cardinality(Retrying(r)) <= Cardinality(Retrying(r)')
    BY <2>1, <2>2, FS_Subset, FS_CardinalityType
  <2>4. waiters[r] # << >> /\ value[r] <= Cardinality(Retrying(r))
    BY <1>2 DEF NoLostWakeup
  <2>5. CASE r # s
    BY <1>1, <2>3, <2>4, <2>5
  <2>6. CASE r = s
    <3>1. PICK t \in Threads : /\ pc[t] = "down" /\ arg[t] = s
                               /\ ~Runnable(t) /\ Runnable(t)'
      BY <2>4, <2>6
    <3>2. t \notin Retrying(r) /\ Retrying(r) \cup {t} \subseteq Retrying(r)'
      BY <2>1, <2>6, <3>1 DEF Retrying
    <3>3. /\ Cardinality(Retrying(r) \cup {t}) = Cardinality(Retrying(r)) + 1
          /\ Cardinality(Retrying(r) \cup {t}) <= Cardinality(Retrying(r)')
      BY <2>2, <3>2, FS_AddElement, FS_Subset
    <3>4. QED BY <1>1, <2>3, <2>4, <2>6, <3>3
  <2>7. QED BY <2>5, <2>6
<1>3. QED BY <1>2 DEF NoLostWakeup

(* Every call a client makes but thread_exit.                              *)
LEMMA RequestCounts ==
  ASSUME TypeInv, QueueInv, NEW c \in Threads, c = current, Request, ~Exit
  PROVE  Harmless /\ Steady /\ BootsNobody
<1>1. /\ value \in [Semas -> Nat] /\ Semaphores \subseteq Semas /\ Locks \subseteq Semas
      /\ pc \in [Threads -> Labels] /\ arg \in [Threads -> Semas \cup {NULL}]
      /\ status \in [Threads -> Statuses]
  BY DEF TypeInv, TypeOK, SyncTypeOK, CallTypeOK, RunTypeOK, Semas
<1> USE DEF Harmless, Steady, BootsNobody, StillTrying, At, Goto, Call,
            runVars, prioVars, intrVars, semaVars, lockVars, callVars
<1>2. ASSUME NEW u \in Threads, NEW p \in Priorities, ThreadCreate(u, p)
      PROVE  Harmless /\ Steady /\ BootsNobody
  <2>1. \A t \in Threads : Runnable(t)' <=> Runnable(t)
    BY <1>1, <1>2 DEF ThreadCreate, Runnable
  <2>2. QED BY <1>1, <1>2, <2>1 DEF ThreadCreate, LockAcquireHead
<1>3. CASE Yield
  <2>1. /\ \A t \in Threads \ {idle_thread} : Runnable(t)' <=> Runnable(t)
        /\ \A t \in Threads : Runnable(t) => Runnable(t)'
        /\ UNCHANGED << cpu_ready_count, idle_thread, pc, value, waiters, arg >>
    BY <1>3, YieldRuns DEF Yield, ThreadYield
  <2>2. QED BY <1>1, <2>1
<1>4. ASSUME NEW p \in Priorities, SetPriority(p) PROVE Harmless /\ Steady /\ BootsNobody
  BY <1>1, <1>4 DEF SetPriority, Runnable
<1>5. ASSUME NEW s \in Semaphores, SemaDown(s) \/ SemaUp(s) \/ SemaTryDown(s)
      PROVE  Harmless /\ Steady /\ BootsNobody
  BY <1>1, <1>5 DEF SemaDown, SemaUp, SemaTryDown, Runnable
<1>6. ASSUME NEW l \in Locks, LockAcquire(l) \/ LockRelease(l)
      PROVE  Harmless /\ Steady /\ BootsNobody
  BY <1>1, <1>6 DEF LockAcquire, LockAcquireHead, LockRelease, LockReleaseHead, Runnable
<1>7. ASSUME NEW l \in Locks, LockTryAcquire(l) PROVE Harmless /\ Steady /\ BootsNobody
  BY <1>1, <1>7 DEF LockTryAcquire, Runnable
<1> HIDE DEF Harmless, Steady, BootsNobody
<1>8. QED BY <1>2, <1>3, <1>4, <1>5, <1>6, <1>7 DEF Request

(* The rest of a call, but for the steps treated below.                    *)
LEMMA ProgressCounts ==
  ASSUME TypeInv, QueueInv, NEW c \in Threads, c = current, Progress,
         ~Down, ~Up, ~CreateUnblock
  PROVE  Harmless /\ Steady /\ BootsNobody
<1>1. /\ value \in [Semas -> Nat] /\ Locks \subseteq Semas
      /\ pc \in [Threads -> Labels] /\ arg \in [Threads -> Semas \cup {NULL}]
      /\ status \in [Threads -> Statuses] /\ ret[c] \notin {"boot", "idle_start"}
  BY DEF TypeInv, TypeOK, SyncTypeOK, CallTypeOK, RunTypeOK, Semas
<1> USE DEF Harmless, Steady, BootsNobody, StillTrying, At, Goto, Call,
            runVars, prioVars, intrVars, semaVars, lockVars, callVars
<1>2. CASE YieldIfNecessary
  BY <1>1, <1>2 DEF YieldIfNecessary, AfterYield, Runnable
<1>3. CASE YieldNow
  <2>1. /\ \A t \in Threads \ {idle_thread} : Runnable(t)' <=> Runnable(t)
        /\ \A t \in Threads : Runnable(t) => Runnable(t)'
        /\ UNCHANGED << cpu_ready_count, idle_thread, value, waiters, arg >>
    BY <1>3, YieldRuns DEF YieldNow, ThreadYield
  <2>2. /\ \A t \in Threads \ {c} : pc'[t] = pc[t]
        /\ pc[c] # "down" /\ pc'[c] \notin {"boot", "idle_start"}
    BY <1>1, <1>3 DEF YieldNow, AfterYield
  <2>3. QED BY <1>1, <2>1, <2>2
<1>4. CASE Donate
  BY <1>1, <1>4 DEF Donate, Runnable
<1>5. CASE Recalculate \/ AssignPriority \/ TryHold
  BY <1>1, <1>5 DEF Recalculate, AssignPriority, TryHold, Runnable
<1>6. CASE CreateRelease
  BY <1>1, <1>6 DEF CreateRelease, LockReleaseHead, Runnable
<1> HIDE DEF Harmless, Steady, BootsNobody
<1>7. QED BY <1>2, <1>3, <1>4, <1>5, <1>6 DEF Progress

(* The steps of the boot sequence, of timer_sleep and of the interrupt     *)
(* that wake nobody.                                                       *)
LEMMA ClockCounts ==
  ASSUME TypeInv, QueueInv, NEW c \in Threads, c = current,
         \/ WaitForIdle \/ TimerInterrupt \/ ReturnFromInterrupt
         \/ \E n \in Naps : TimerSleep(n)
  PROVE  Harmless /\ Steady /\ BootsNobody
<1>1. /\ value \in [Semas -> Nat]
      /\ pc \in [Threads -> Labels] /\ arg \in [Threads -> Semas \cup {NULL}]
      /\ status \in [Threads -> Statuses] /\ in_intr => pc[c] \notin IntrOff
  BY DEF TypeInv, TypeOK, SyncTypeOK, CallTypeOK, RunTypeOK, IdleReady
<1> USE DEF Harmless, Steady, BootsNobody, StillTrying, At, Goto, Call,
            runVars, prioVars, intrVars, semaVars, lockVars, callVars
<1>2. CASE WaitForIdle \/ TimerInterrupt
  BY <1>1, <1>2 DEF WaitForIdle, TimerInterrupt, Runnable
<1>3. ASSUME NEW n \in Naps, TimerSleep(n) PROVE Harmless /\ Steady /\ BootsNobody
  BY <1>1, <1>3 DEF TimerSleep, Runnable
<1>4. CASE ReturnFromInterrupt
  <2>1. /\ \A t \in Threads \ {idle_thread} : Runnable(t)' <=> Runnable(t)
        /\ \A t \in Threads : Runnable(t) => Runnable(t)'
        /\ UNCHANGED << cpu_ready_count, idle_thread, value, waiters, arg >>
    BY <1>4, YieldRuns DEF ReturnFromInterrupt, ThreadYield, Runnable
  <2>2. \A t \in Threads : pc'[t] = pc[t] \/ (pc[t] = "hlt" /\ pc'[t] = "idle_loop")
    BY <1>1, <1>4 DEF ReturnFromInterrupt
  <2>3. QED BY <1>1, <2>1, <2>2
<1> HIDE DEF Harmless, Steady, BootsNobody
<1>5. QED BY <1>2, <1>3, <1>4

(* The steps that make somebody runnable or block him.                     *)
CountsOn == CpuReadyCountExact' /\ NoLostWakeup' /\ BootsNobody

(* sema_down blocks, or takes one from the value.                          *)
LEMMA DownCounts ==
  ASSUME TypeInv, TypeInv', QueueInv, CountInv, Down PROVE CountsOn
<1>1. PICK c \in Threads, s \in Semas : c = current /\ s = arg[c] /\ pc[c] = "down"
  BY DEF Down, At, TypeInv, TypeOK, RunTypeOK, CallsWellFormed
<1>2. /\ value \in [Semas -> Nat] /\ waiters \in [Semas -> Seq(Threads)]
      /\ pc \in [Threads -> Labels] /\ arg \in [Threads -> Semas \cup {NULL}]
      /\ ret[c] \notin {"boot", "idle_start", "down"} /\ idle_thread' = idle_thread
      /\ ~in_intr
  BY <1>1 DEF Down, At, TypeInv, TypeOK, SyncTypeOK, CallTypeOK
<1>3. CASE value[s] = 0 /\ ThreadBlock /\ waiters' = [waiters EXCEPT ![s] = Append(@, c)]
           /\ UNCHANGED << pc, value, arg >>
  <2>1. /\ Runnable(c) /\ \A t \in Threads \ {c} : Runnable(t) => Runnable(t)'
        /\ \A t \in Threads \ {idle_thread} : Runnable(t)' => Runnable(t) /\ t # c
    BY <1>1, <1>3, LeaveRuns DEF ThreadBlock
  <2>2. CpuReadyCountExact'
    BY <1>1, <1>2, <1>3, <2>1, LeavingCounts DEF ThreadBlock, CountInv
  <2>3. ASSUME NEW r \in Semas, waiters'[r] # << >>
        PROVE  value'[r] <= Cardinality(Retrying(r))'
    <3>1. Retrying(r)' \subseteq Threads
      BY DEF Retrying
    <3>2. IsFiniteSet(Retrying(r)') /\ Cardinality(Retrying(r)') \in Nat
      BY <3>1, ThreadsFinite, FS_Subset, FS_CardinalityType
    <3>3. CASE r = s
      BY <1>3, <3>2, <3>3
    <3>4. CASE r # s
      <4>1. Retrying(r) \subseteq Retrying(r)'
        BY <1>1, <1>3, <2>1, <3>4 DEF Retrying
      <4>2. Cardinality(Retrying(r)) <= Cardinality(Retrying(r)')
        BY <3>2, <4>1, FS_Subset
      <4>3. value[r] <= Cardinality(Retrying(r))
        BY <1>2, <1>3, <2>3, <3>4 DEF CountInv, NoLostWakeup
      <4>4. QED BY <1>2, <1>3, <3>2, <4>2, <4>3, RetryingFinite
    <3>5. QED BY <3>3, <3>4
  <2>4. BootsNobody
    BY <1>3 DEF BootsNobody
  <2>5. QED BY <2>2, <2>3, <2>4 DEF CountsOn, NoLostWakeup
<1>4. CASE /\ value[s] # 0 /\ value' = [value EXCEPT ![s] = @ - 1]
           /\ pc' = [pc EXCEPT ![c] = ret[c]] /\ arg' = [arg EXCEPT ![c] = NULL]
           /\ UNCHANGED << runVars, waiters >>
  <2>1. CpuReadyCountExact'
    BY <1>2, <1>4, SteadyCounts DEF Steady, Runnable, CountInv, runVars
  <2>2. ASSUME NEW r \in Semas, waiters'[r] # << >>
        PROVE  value'[r] <= Cardinality(Retrying(r))'
    <3>1. value[r] <= Cardinality(Retrying(r)) /\ value[r] \in Nat
      BY <1>2, <1>4, <2>2 DEF CountInv, NoLostWakeup
    <3>2. Runnable(c)
      BY <1>1 DEF QueueInv, ElemExclusive, Runnable
    <3>3. CASE r = s
      <4>1. c \in Retrying(s) /\ Retrying(s)' = Retrying(s) \ {c}
        BY <1>1, <1>2, <1>4, <3>2 DEF Retrying, Runnable, runVars
      <4>2. Cardinality(Retrying(s) \ {c}) = Cardinality(Retrying(s)) - 1
        BY <4>1, RetryingFinite, FS_RemoveElement
      <4>3. QED BY <1>2, <1>4, <3>1, <3>3, <4>1, <4>2, RetryingFinite
    <3>4. CASE r # s
      <4>1. Retrying(r)' = Retrying(r)
        BY <1>1, <1>2, <1>4, <3>4 DEF Retrying, Runnable, runVars
      <4>2. QED BY <1>2, <1>4, <3>1, <3>4, <4>1
    <3>5. QED BY <3>3, <3>4
  <2>3. BootsNobody
    BY <1>2, <1>4 DEF BootsNobody
  <2>4. QED BY <2>1, <2>2, <2>3 DEF CountsOn, NoLostWakeup
<1>5. QED BY <1>1, <1>3, <1>4 DEF Down, MustWait, Goto

(* The second half of sema_up.                                             *)
LEMMA UpCounts ==
  ASSUME TypeInv, TypeInv', QueueInv, CountInv, Up PROVE CountsOn
<1>1. PICK c \in Threads, s \in Semas : c = current /\ s = arg[c] /\ pc[c] = "up"
  BY DEF Up, At, TypeInv, TypeOK, RunTypeOK, CallsWellFormed
<1>2. /\ SemaUpBody(s) /\ idle_thread' = idle_thread
      /\ value' = [value EXCEPT ![s] = @ + 1] /\ arg' = [arg EXCEPT ![c] = NULL]
      /\ pc' = [pc EXCEPT ![c] = "yield"] \/ pc' = [pc EXCEPT ![c] = "rel_yield"]
      /\ pc \in [Threads -> Labels] /\ arg \in [Threads -> Semas \cup {NULL}]
  BY <1>1 DEF Up, SemaUpBody, Goto, TypeInv, TypeOK, CallTypeOK
<1>3. /\ \A t \in Threads : pc[t] = "down" => pc'[t] = "down" /\ arg'[t] = arg[t]
      /\ BootsNobody
  BY <1>1, <1>2 DEF BootsNobody
<1>4. StillTrying(Threads)
  BY <1>2, <1>3, SemaUpCounts DEF StillTrying, CountInv
<1>5. NoLostWakeup'
  BY <1>2, <1>3, <1>4, SemaUpCounts, UpWakes DEF CountInv
<1>6. QED BY <1>2, <1>3, <1>5, SemaUpCounts DEF CountInv, CountsOn

(* The timer interrupt wakes a sleeper.                                    *)
LEMMA WakeSleeperCounts ==
  ASSUME TypeInv, TypeInv', QueueInv, CountInv, WakeSleeper PROVE CountsOn
<1>1. PICK h \in Threads : h = Head(sleeping_threads)
  <2>1. ASSUME NEW w \in Seq(Threads), w # << >> PROVE Head(w) \in Threads
    BY <2>1
  <2>2. QED BY <2>1 DEF WakeSleeper, SleeperDue, TypeInv, TypeOK, IntrTypeOK
<1>2. /\ h \in Semas /\ SemaUpBody(h) /\ UNCHANGED << idle_thread, pc, arg >>
      /\ value' = [value EXCEPT ![h] = @ + 1]
  BY <1>1 DEF WakeSleeper, SemaUpBody, Semas, callVars
<1>3. /\ \A t \in Threads : pc[t] = "down" => pc'[t] = "down" /\ arg'[t] = arg[t]
      /\ BootsNobody
  BY <1>2 DEF BootsNobody
<1>4. StillTrying(Threads)
  BY <1>2, <1>3, SemaUpCounts DEF StillTrying, CountInv
<1>5. NoLostWakeup'
  BY <1>2, <1>3, <1>4, SemaUpCounts, UpWakes DEF CountInv
<1>6. QED BY <1>2, <1>3, <1>5, SemaUpCounts DEF CountInv, CountsOn

(* idle blocks, a thread exits.                                            *)
LEMMA LeavesCounts ==
  ASSUME TypeInv, TypeInv', QueueInv, CountInv, Exit \/ IdleBlock PROVE CountsOn
<1>1. PICK c \in Threads : c = current /\ pc[c] \in {"run", "idle_loop"}
  BY DEF Exit, IdleBlock, At, TypeInv, TypeOK, RunTypeOK
<1>2. /\ \E s \in {"BLOCKED", "DYING"} : Schedule([status EXCEPT ![current] = s], ready_list)
      /\ cpu_ready_count' = cpu_ready_count - (IF c = idle_thread THEN 0 ELSE 1)
      /\ UNCHANGED << idle_thread, value, waiters, arg >>
      /\ \E label \in {"none", "hlt"} : pc' = [pc EXCEPT ![c] = label]
      /\ pc \in [Threads -> Labels] /\ value \in [Semas -> Nat]
  BY <1>1 DEF Exit, IdleBlock, ThreadExit, ThreadBlock, Goto, semaVars, callVars,
         TypeInv, TypeOK, CallTypeOK, SyncTypeOK
<1>3. /\ Runnable(c) /\ \A t \in Threads \ {c} : Runnable(t) => Runnable(t)'
      /\ \A t \in Threads \ {idle_thread} : Runnable(t)' => Runnable(t) /\ t # c
  BY <1>1, <1>2, LeaveRuns
<1>4. CpuReadyCountExact'
  BY <1>2, <1>3, LeavingCounts DEF CountInv
<1>5. Harmless /\ BootsNobody
  BY <1>1, <1>2, <1>3 DEF Harmless, StillTrying, BootsNobody
<1>6. QED BY <1>4, <1>5, HarmlessWakes DEF CountInv, CountsOn

(* thread_create unblocks the thread it made.                              *)
LEMMA CreateUnblockCounts ==
  ASSUME TypeInv, TypeInv', QueueInv, CountInv, CreateUnblock PROVE CountsOn
<1>1. PICK c \in Threads, k \in Threads :
        c = current /\ k = child[c] /\ pc[k] = "none" /\ pc[c] = "create_unblock"
  BY ThreadsAssumption DEF CreateUnblock, At, TypeInv, TypeOK, RunTypeOK, CallsWellFormed,
                           NewbornsDormant
<1>2. /\ ThreadUnblock(k) /\ UNCHANGED << idle_thread, value, waiters, arg >>
      /\ pc' = [pc EXCEPT ![c] = "yield", ![k] = "run"]
      /\ pc \in [Threads -> Labels] /\ value \in [Semas -> Nat]
      /\ status \in [Threads -> Statuses]
  BY <1>1 DEF CreateUnblock, semaVars, TypeInv, TypeOK, CallTypeOK, SyncTypeOK, RunTypeOK
<1>3. /\ \A t \in Threads \ {c, k} : pc'[t] = pc[t]
      /\ pc'[c] \in {"yield", "run"} /\ pc'[k] \in {"yield", "run"}
  BY <1>1, <1>2
<1>4. \A t \in Threads : Runnable(t) => Runnable(t)'
  BY <1>2 DEF ThreadUnblock, Runnable
<1>5. Harmless /\ BootsNobody
  BY <1>1, <1>2, <1>3, <1>4 DEF Harmless, StillTrying, BootsNobody
<1>6. CpuReadyCountExact'
  BY <1>2, UnblockCounts DEF CountInv
<1>7. QED BY <1>5, <1>6, HarmlessWakes DEF CountInv, CountsOn

(* Idle is counted when it is created ...                                  *)
LEMMA ThreadStartCounts ==
  ASSUME TypeInv, TypeInv', QueueInv, CountInv, ThreadStart PROVE CountsOn
<1>1. PICK c \in Threads : c = current /\ pc[c] = "boot" /\ c # Idle /\ ready_list = << >>
  BY DEF ThreadStart, At, TypeInv, TypeOK, RunTypeOK, QueueInv, PlaceOK
<1>2. idle_thread = NULL /\ Idle \in Threads /\ Idle # idle_thread
  BY <1>1, ThreadsAssumption DEF CountInv, Booted
<1>3. /\ status' = [status EXCEPT ![Idle] = "READY"] /\ pc' = [pc EXCEPT ![c] = "boot_wait"]
      /\ cpu_ready_count' = cpu_ready_count + 1
      /\ UNCHANGED << idle_thread, value, waiters, arg >>
      /\ pc \in [Threads -> Labels] /\ value \in [Semas -> Nat]
      /\ status \in [Threads -> Statuses]
  BY <1>1 DEF ThreadStart, Goto, semaVars, callVars, TypeInv, TypeOK, CallTypeOK,
         SyncTypeOK, RunTypeOK
<1>4. ~Runnable(Idle)
  <2>1. Idle \notin ToSet(ready_list)
    BY <1>1 DEF ToSet
  <2>2. QED BY <1>1, <1>2, <2>1 DEF QueueInv, ElemExclusive, Queued, Runnable
<1>5. Runnable(Idle)' /\ \A t \in Threads \ {Idle} : Runnable(t)' <=> Runnable(t)
  BY <1>2, <1>3 DEF Runnable
<1>6. CpuReadyCountExact'
  BY <1>2, <1>3, <1>4, <1>5, JoiningCounts DEF CountInv
<1>7. Harmless /\ BootsNobody
  BY <1>1, <1>3, <1>4, <1>5 DEF Harmless, StillTrying, BootsNobody
<1>8. QED BY <1>6, <1>7, HarmlessWakes DEF CountInv, CountsOn

(* ... and taken out of the count's bounds when it has said who it is.     *)
LEMMA IdleStartCounts ==
  ASSUME TypeInv, TypeInv', QueueInv, CountInv, IdleStart PROVE CountsOn /\ Booted'
<1>1. current = Idle /\ Idle \in Threads /\ pc[Idle] = "idle_start"
  BY ThreadsAssumption DEF IdleStart, At, TypeInv, TypeOK, RunTypeOK, IdleReady
<1>2. idle_thread = NULL
  BY <1>1 DEF CountInv, Booted
<1>3. /\ idle_thread' = Idle /\ pc' = [pc EXCEPT ![Idle] = "up"]
      /\ \A t \in Threads \ {Idle} : arg'[t] = arg[t]
      /\ UNCHANGED << status, cpu_ready_count, value, waiters >>
      /\ pc \in [Threads -> Labels] /\ value \in [Semas -> Nat] /\ cpu_ready_count \in Int
  BY <1>1 DEF IdleStart, Call, Goto, runVars, semaVars, TypeInv, TypeOK, CallTypeOK,
         SyncTypeOK, RunTypeOK
<1>4. CpuReadyCountExact'
  <2>1. Idle \in ReadyThreads /\ ReadyThreads' = ReadyThreads \ {Idle}
    BY <1>1, <1>2, <1>3, ThreadsAssumption DEF ReadyThreads, Runnable, QueueInv, ElemExclusive
  <2>2. Cardinality(ReadyThreads \ {Idle}) = Cardinality(ReadyThreads) - 1
    BY <2>1, ReadyThreadsFinite, FS_RemoveElement
  <2>3. Idle # NULL
    BY ThreadsAssumption
  <2>4. QED BY <1>2, <1>3, <2>1, <2>2, <2>3, ReadyThreadsFinite DEF CountInv,
               CpuReadyCountExact
<1>5. Harmless /\ BootsNobody
  BY <1>1, <1>3 DEF Harmless, StillTrying, BootsNobody, Runnable
<1>6. Booted'
  BY <1>1, <1>3 DEF Booted, QueueInv, PlaceOK, TypeInv, IdleReady
<1>7. QED BY <1>4, <1>5, <1>6, HarmlessWakes DEF CountInv, CountsOn

(* At boot one thread runs and is counted.                                 *)
LEMMA CountInvInit == Init => CountInv
<1> SUFFICES ASSUME Init PROVE CountInv
  OBVIOUS
<1>1. ReadyThreads = {Main}
  BY ThreadsAssumption DEF Init, ReadyThreads, Runnable
<1>2. CpuReadyCountExact
  <2>1. Cardinality(ReadyThreads) = 1
    BY <1>1, FS_Singleton
  <2>2. QED BY <2>1 DEF Init, CpuReadyCountExact
<1>3. NoLostWakeup /\ Booted
  BY DEF Init, NoLostWakeup, Booted
<1>4. QED BY <1>2, <1>3 DEF CountInv

(* No step breaks the count or loses a wake-up.                            *)
LEMMA CountInvStep ==
  ASSUME TypeInv, TypeInv', QueueInv, CountInv, [Next]_vars PROVE CountInv'
<1>1. PICK c \in Threads : c = current
  BY DEF TypeInv, TypeOK, RunTypeOK
<1>2. CASE Harmless /\ Steady /\ BootsNobody
  BY <1>2, HarmlessWakes, SteadyCounts DEF CountInv, Booted, BootsNobody, Steady
<1>3. CASE CountsOn /\ idle_thread' = idle_thread
  BY <1>3 DEF CountInv, CountsOn, Booted, BootsNobody
<1>4. CASE UNCHANGED vars
  <2>1. UNCHANGED << status, cpu_ready_count, idle_thread, pc, arg, value, waiters >>
    BY <1>4 DEF vars, runVars, semaVars, callVars
  <2>2. QED BY <2>1 DEF CountInv, CpuReadyCountExact, ReadyThreads, NoLostWakeup, Retrying,
                        Runnable, Booted
<1>5. CASE IdleStart
  BY <1>5, IdleStartCounts DEF CountInv, CountsOn
<1>6. CASE Down \/ Up \/ WakeSleeper \/ Exit \/ IdleBlock \/ CreateUnblock \/ ThreadStart
  <2>1. idle_thread' = idle_thread
    BY <1>6 DEF Down, Up, WakeSleeper, Exit, IdleBlock, CreateUnblock, ThreadStart
  <2>2. QED BY <1>3, <1>6, <2>1, DownCounts, UpCounts, WakeSleeperCounts, LeavesCounts,
               CreateUnblockCounts, ThreadStartCounts
<1>7. CASE Next
  BY <1>1, <1>2, <1>5, <1>6, <1>7, RequestCounts, ProgressCounts, ClockCounts
     DEF Next, Boot, Interrupt
<1>8. QED BY <1>4, <1>7

(* cpu_ready_count is what next_load_avg takes it for: the number of ready *)
(* and running threads, idle aside, through every block, unblock, exit and *)
(* switch; and one less until idle has run.                                *)
THEOREM CountIsExact == Spec => []CpuReadyCountExact
<1>1. Init => TypeInv /\ QueueInv /\ CountInv
  BY TypeInvInit, QueueInvInit, CountInvInit
<1>2. TypeInv /\ QueueInv /\ CountInv /\ [Next]_vars => (TypeInv /\ QueueInv /\ CountInv)'
  BY TypeInvStep, QueueInvStep, CountInvStep
<1>3. CountInv => CpuReadyCountExact
  BY DEF CountInv
<1>4. QED BY <1>1, <1>2, <1>3, PTL DEF Spec

(* sema_up loses no wake-up: while somebody waits for a semaphore that is  *)
(* up, as many threads as its value says are on their way to take it.      *)
THEOREM WakeupsAreKept == Spec => []NoLostWakeup
<1>1. Init => TypeInv /\ QueueInv /\ CountInv
  BY TypeInvInit, QueueInvInit, CountInvInit
<1>2. TypeInv /\ QueueInv /\ CountInv /\ [Next]_vars => (TypeInv /\ QueueInv /\ CountInv)'
  BY TypeInvStep, QueueInvStep, CountInvStep
<1>3. CountInv => NoLostWakeup
  BY DEF CountInv
<1>4. QED BY <1>1, <1>2, <1>3, PTL DEF Spec

-----------------------------------------------------------------------------
(* Who runs.                                                               *)

(* The places between making a thread ready, or changing a priority, and   *)
(* the yield that follows.                                                 *)
Testing == {"yield", "rel_yield", "thread_yield", "rel_thread_yield"}

(* No thread of a list has a higher priority than the running one.         *)
Leads(ready) == \A t \in ToSet(ready) : priority[t] <= priority[current]

(* The run queue is in the order of the priorities, and the running thread *)
(* leads it wherever it is not about to yield.                             *)
Led ==
  /\ Ascending(ready_list, priority)
  /\ Leads(ready_list) \/ pc[current] \in Testing \/ (in_intr /\ yield_on_return)

(* While main boots nobody has changed a priority.                         *)
BootPriorities ==
  \A t \in Threads : pc[t] = "boot" => \A u \in Threads : priority[u] = PRI_DEFAULT

HighestInv == Led /\ BootPriorities

(* donate gives a ready thread a higher priority without moving it in      *)
(* ready_list, as it does with a holder that waits for nothing             *)
(* (synch.c:234-236).                                                      *)
RaisesInPlace ==
  /\ At("donate") /\ CanRaise /\ waitingFor[donee] = NULL
  /\ donee \in ToSet(ready_list) /\ priority[donee] < priority[current]

(* What the lists and the priorities are.                                  *)
LEMMA RunTypes ==
  ASSUME TypeInv
  PROVE  /\ current \in Threads /\ ready_list \in Seq(Threads)
         /\ ToSet(ready_list) \subseteq Threads
         /\ priority \in [Threads -> Int]
         /\ pc \in [Threads -> Labels]
<1>1. /\ current \in Threads /\ ready_list \in Seq(Threads) /\ pc \in [Threads -> Labels]
      /\ priority \in [Threads -> Prio]
  BY DEF TypeInv, TypeOK, RunTypeOK, PrioTypeOK, CallTypeOK
<1>2. ASSUME NEW w \in Seq(Threads) PROVE ToSet(w) \subseteq Threads
  BY DEF ToSet
<1>3. Prio \subseteq Int
  BY ThreadsAssumption DEF Prio
<1>4. QED BY <1>1, <1>2, <1>3

(* schedule runs the last of an ordered list, or idle.                     *)
LEMMA ScheduleLeads ==
  ASSUME NEW st, NEW ready \in Seq(Threads), Ascending(ready, priority),
         priority \in [Threads -> Int], Schedule(st, ready), priority' = priority
  PROVE  Ascending(ready_list, priority)' /\ Leads(ready_list)'
<1>1. CASE ready = << >>
  <2>1. ready_list' = << >> /\ ToSet(<< >>) = {} /\ DOMAIN << >> = {}
    BY <1>1 DEF Schedule, ToSet
  <2>2. QED BY <2>1 DEF Leads, Ascending
<1>2. CASE ready # << >>
  <2>1. PICK n \in Nat \ {0} : n = Len(ready) /\ DOMAIN ready = 1 .. n
    BY <1>2, EmptySeq, LenProperties
  <2>2. PICK f \in Seq(Threads) : /\ f = Front(ready) /\ DOMAIN f = 1 .. n - 1
                                  /\ \A j \in 1 .. n - 1 : f[j] = ready[j]
    BY <1>2, <2>1, FrontElements, LenProperties
  <2>3. ready_list' = f /\ current' = ready[n]
    BY <1>2, <2>1, <2>2 DEF Schedule, NextThreadToRun, Last
  <2>4. \A i, j \in 1 .. n : i < j => ready[i] # ready[j] /\ priority[ready[i]] <= priority[ready[j]]
    BY <2>1 DEF Ascending
  <2>5. \A j \in 1 .. n - 1 : j \in 1 .. n /\ j < n
    OBVIOUS
  <2>6. Ascending(f, priority)
    BY <2>2, <2>4, <2>5 DEF Ascending
  <2>7. \A j \in 1 .. n - 1 : priority[f[j]] <= priority[ready[n]]
    BY <2>2, <2>4, <2>5
  <2>8. \A t \in ToSet(f) : priority[t] <= priority[ready[n]]
    BY <2>2, <2>7 DEF ToSet
  <2>9. QED BY <2>3, <2>6, <2>8 DEF Leads
<1>3. QED BY <1>1, <1>2

(* thread_yield puts the running thread in its place and runs the last.    *)
LEMMA YieldLeads ==
  ASSUME TypeInv, QueueInv, Ascending(ready_list, priority), ThreadYield, priority' = priority
  PROVE  Ascending(ready_list, priority)' /\ Leads(ready_list)'
<1>1. PICK c \in Threads : c = current /\ c \notin ToSet(ready_list)
  BY RunningIsNowhere DEF QueueInv, Queued
<1>2. CASE current = idle_thread
  BY <1>2, RunTypes, ScheduleLeads DEF ThreadYield
<1>3. CASE current # idle_thread
  <2>1. PICK i \in InsertPoints(ready_list, priority, priority[c]) :
          Schedule([status EXCEPT ![c] = "READY"], InsertAt(ready_list, i, c))
    BY <1>1, <1>3 DEF ThreadYield
  <2>2. InsertAt(ready_list, i, c) \in Seq(Threads)
    BY RunTypes, PointsLemma, InsertAtLemma
  <2>3. Ascending(InsertAt(ready_list, i, c), priority)
    BY <1>1, RunTypes, InsertLemma
  <2>4. QED BY <2>1, <2>2, <2>3, RunTypes, ScheduleLeads
<1>4. QED BY <1>2, <1>3

(* thread_unblock puts a blocked thread in its place.                      *)
LEMMA UnblockRises ==
  ASSUME TypeInv, QueueInv, Ascending(ready_list, priority), NEW t \in Threads,
         ThreadUnblock(t), priority' = priority
  PROVE  Ascending(ready_list, priority)'
<1>1. t \notin ToSet(ready_list)
  BY DEF ThreadUnblock, QueueInv, ElemExclusive, Queued
<1>2. PICK i \in InsertPoints(ready_list, priority, priority[t]) :
        ready_list' = InsertAt(ready_list, i, t)
  BY DEF ThreadUnblock
<1>3. Ascending(InsertAt(ready_list, i, t), priority)
  BY <1>1, RunTypes, InsertLemma
<1>4. QED BY <1>2, <1>3

(* ... and so does sema_up with the waiter it wakes.                       *)
LEMMA SemaUpRises ==
  ASSUME TypeInv, QueueInv, Ascending(ready_list, priority), NEW s \in Semas,
         SemaUpBody(s), priority' = priority
  PROVE  Ascending(ready_list, priority)' /\ current' = current
<1>1. CASE UNCHANGED << runVars, waiters >>
  BY <1>1 DEF runVars
<1>2. ASSUME NEW i \in MaxPoints(waiters[s], priority), ThreadUnblock(waiters[s][i])
      PROVE  Ascending(ready_list, priority)' /\ current' = current
  <2>1. waiters[s] \in Seq(Threads)
    BY DEF TypeInv, TypeOK, SyncTypeOK
  <2>2. waiters[s][i] \in Threads
    BY <2>1, PointsLemma, ElementOfSeq
  <2>3. PICK t \in Threads : t = waiters[s][i]
    BY <2>2
  <2>4. ThreadUnblock(t)
    BY <1>2, <2>3
  <2>5. current' = current
    BY <2>4 DEF ThreadUnblock
  <2>6. QED BY <2>4, <2>5, UnblockRises
<1>3. QED BY <1>1, <1>2 DEF SemaUpBody

(* yield_if_necessary looks at the last of the run queue; that is enough.  *)
LEMMA LedIfNoYield ==
  ASSUME NEW ready \in Seq(Threads), Ascending(ready, priority), current \in Threads,
         priority \in [Threads -> Int], ~ShouldYield(ready)
  PROVE  Leads(ready)
<1>1. CASE ready = << >>
  <2>1. ToSet(ready) = {}
    BY <1>1 DEF ToSet
  <2>2. QED BY <2>1 DEF Leads
<1>2. CASE ready # << >>
  <2>1. PICK m \in Nat \ {0} : m = Len(ready) /\ DOMAIN ready = 1 .. m
    BY <1>2, EmptySeq, LenProperties
  <2>2. \A j \in 1 .. m : ready[j] \in Threads /\ priority[ready[j]] \in Int
    BY <2>1, ElementOfSeq
  <2>3. PICK p \in Int : p = priority[current] /\ priority[ready[m]] <= p
    <3>1. m \in 1 .. m /\ ~(priority[current] < priority[ready[m]])
      BY <1>2, <2>1 DEF ShouldYield, Last
    <3>2. QED BY <2>2, <3>1
  <2>4. ASSUME NEW j \in 1 .. m PROVE priority[ready[j]] <= p
    <3>1. j = m \/ priority[ready[j]] <= priority[ready[m]]
      BY <2>1 DEF Ascending
    <3>2. QED BY <2>1, <2>2, <2>3, <3>1
  <2>5. QED BY <2>1, <2>3, <2>4 DEF Leads, ToSet
<1>3. QED BY <1>1, <1>2

(* Neither the run queue nor the priorities of it and of the running       *)
(* thread change.                                                          *)
Calm ==
  /\ UNCHANGED << ready_list, current >>
  /\ \A t \in Threads : t \in ToSet(ready_list) \/ t = current => priority'[t] = priority[t]

LEMMA CalmLeads ==
  ASSUME TypeInv, Calm, Ascending(ready_list, priority)
  PROVE  Ascending(ready_list, priority)' /\ (Leads(ready_list) => Leads(ready_list)')
<1>1. PICK w \in Seq(Threads) : w = ready_list /\ w = ready_list'
  BY RunTypes DEF Calm
<1>2. \A j \in DOMAIN w : w[j] \in Threads /\ w[j] \in ToSet(w)
  BY LenProperties, ElementOfSeq DEF ToSet
<1>3. \A j \in DOMAIN w : priority'[w[j]] = priority[w[j]]
  BY <1>1, <1>2 DEF Calm
<1>4. Ascending(w, priority')
  BY <1>1, <1>3 DEF Ascending
<1>5. Leads(ready_list) => Leads(ready_list)'
  BY RunTypes DEF Leads, Calm
<1>6. QED BY <1>1, <1>4, <1>5

(* The order is kept when only threads outside the run queue change.       *)
LEMMA OrderKept ==
  ASSUME TypeInv, UNCHANGED ready_list, Ascending(ready_list, priority),
         NEW t, t \notin ToSet(ready_list), \A u \in Threads \ {t} : priority'[u] = priority[u]
  PROVE  Ascending(ready_list, priority)'
<1>1. PICK w \in Seq(Threads) : w = ready_list /\ w = ready_list'
  BY RunTypes
<1>2. \A j \in DOMAIN w : w[j] \in Threads /\ w[j] # t
  BY <1>1, LenProperties, ElementOfSeq DEF ToSet
<1>3. QED BY <1>1, <1>2 DEF Ascending

(* A thread that is at neither of those places, outside the handler, leads.*)
LEMMA CalmStep ==
  ASSUME TypeInv, Led, Calm, ~in_intr, pc[current] \notin Testing
  PROVE  Led'
BY CalmLeads DEF Led

(* Every call a client makes: he leads, and goes on leading, has the test  *)
(* of yield_if_necessary before him, or switches to the last of the list.  *)
LEMMA RequestLeads ==
  ASSUME TypeInv, QueueInv, Led, Request PROVE Led'
<1>1. /\ pc[current] = "run" /\ ~in_intr /\ pc[current] \notin Testing
      /\ current \in Threads /\ Ascending(ready_list, priority)
  BY RunTypes DEF Request, ThreadCreate, Exit, Yield, SetPriority, SemaDown, SemaUp, SemaTryDown,
         LockAcquire, LockRelease, LockTryAcquire, At, Testing, Led
<1>2. current \notin ToSet(ready_list)
  BY RunningIsNowhere DEF QueueInv, Queued
<1>3. ASSUME NEW u \in Threads, NEW p \in Priorities, ThreadCreate(u, p) PROVE Led'
  <2>1. u \notin ToSet(ready_list) /\ u # current
    BY <1>3, RunningIsNowhere DEF ThreadCreate, QueueInv, ElemExclusive, Queued
  <2>2. Calm
    BY <1>3, <2>1, RunTypes DEF ThreadCreate, Calm
  <2>3. QED BY <1>1, <2>2, CalmStep
<1>4. CASE Exit
  BY <1>1, <1>4, RunTypes, ScheduleLeads DEF Exit, ThreadExit, prioVars, Led
<1>5. CASE Yield
  BY <1>1, <1>5, YieldLeads DEF Yield, prioVars, Led
<1>6. ASSUME NEW p \in Priorities, SetPriority(p) PROVE Led'
  <2>1. /\ UNCHANGED << ready_list, current >> /\ pc'[current] = "yield"
        /\ \A t \in Threads \ {current} : priority'[t] = priority[t]
    BY <1>6, RunTypes DEF SetPriority, Goto, runVars
  <2>2. Ascending(ready_list, priority)'
    BY <1>1, <1>2, <2>1, OrderKept
  <2>3. QED BY <2>1, <2>2 DEF Led, Testing
<1>7. CASE UNCHANGED << runVars, prioVars >>
  BY <1>1, <1>7, CalmStep DEF Calm, runVars, prioVars
<1>8. QED BY <1>3, <1>4, <1>5, <1>6, <1>7
          DEF Request, SemaDown, SemaUp, SemaTryDown, LockAcquire, LockRelease, LockTryAcquire

(* sema_down takes one, or blocks and lets the last of the list run.       *)
LEMMA DownLeads ==
  ASSUME TypeInv, QueueInv, Led, Down PROVE Led'
<1>1. /\ ~in_intr /\ pc[current] \notin Testing /\ Ascending(ready_list, priority)
      /\ priority' = priority
  BY DEF Down, At, Testing, Led, prioVars
<1>2. CASE ThreadBlock
  BY <1>1, <1>2, RunTypes, ScheduleLeads DEF ThreadBlock, Led
<1>3. CASE UNCHANGED runVars
  BY <1>1, <1>3, CalmStep DEF Calm, runVars
<1>4. QED BY <1>2, <1>3 DEF Down

(* donate raises a holder to the priority of the running thread, and puts  *)
(* it in its new place in the run queue if it waits for a lock itself.     *)
LEMMA DonateLeads ==
  ASSUME TypeInv, QueueInv, Led, Donate, ~RaisesInPlace PROVE Led'
<1>1. /\ ~in_intr /\ pc[current] \notin Testing /\ Ascending(ready_list, priority)
      /\ Leads(ready_list) /\ UNCHANGED current /\ At("donate")
  BY DEF Donate, At, Testing, Led
<1>2. CASE UNCHANGED << priority, ready_list >>
  BY <1>1, <1>2, CalmStep DEF Calm
<1>3. CASE CanRaise /\ priority' = [priority EXCEPT ![donee] = priority[current]]
  <2>1. PICK d \in Threads, p \in Int :
               /\ d = donee /\ p = priority[current] /\ priority[d] \in Int
               /\ priority[d] <= p
    BY <1>3, RunTypes DEF CanRaise, TypeInv, TypeOK, CallTypeOK
  <2>2. /\ priority'[d] = p /\ priority' \in [Threads -> Int]
        /\ \A t \in Threads \ {d} : priority'[t] = priority[t]
    BY <1>3, <2>1, RunTypes
  <2>3. CASE UNCHANGED ready_list /\ d \notin ToSet(ready_list)
    <3>1. Calm
      BY <1>1, <2>1, <2>2, <2>3, RunTypes DEF Calm
    <3>2. QED BY <1>1, <3>1, CalmStep
  <2>4. CASE UNCHANGED ready_list /\ priority[d] = p
    <3>1. Calm
      BY <1>1, <2>1, <2>2, <2>4 DEF Calm
    <3>2. QED BY <1>1, <3>1, CalmStep
  <2>5. ASSUME NEW i \in PointsOf(ready_list, d),
               NEW j \in InsertPoints(RemoveAt(ready_list, i), priority', p),
               ready_list' = InsertAt(RemoveAt(ready_list, i), j, d)
        PROVE  Led'
    <3>1. PICK w \in Seq(Threads) : w = ready_list /\ i \in 1 .. Len(w) /\ w[i] = d
      BY RunTypes, PointsLemma DEF PointsOf
    <3>2. PICK rest \in Seq(Threads) :
                 /\ rest = RemoveAt(w, i) /\ ToSet(w) = ToSet(rest) \cup {d}
                 /\ Ascending(rest, priority') /\ d \notin ToSet(rest)
      <4>1. Ascending(w, priority) /\ \A t \in Threads \ {w[i]} : priority'[t] = priority[t]
        BY <1>1, <2>2, <3>1
      <4>2. Ascending(RemoveAt(w, i), priority') /\ w[i] \notin ToSet(RemoveAt(w, i))
        BY <3>1, <4>1, RemoveAscends
      <4>3. RemoveAt(w, i) \in Seq(Threads) /\ ToSet(w) = ToSet(RemoveAt(w, i)) \cup {w[i]}
        BY <3>1, RemoveAtLemma
      <4>4. QED BY <3>1, <4>2, <4>3
    <3>3. Ascending(InsertAt(rest, j, d), priority')
      BY <2>2, <2>5, <3>1, <3>2, InsertLemma
    <3>4. ToSet(InsertAt(rest, j, d)) = ToSet(w)
      BY <2>5, <3>1, <3>2, PointsLemma, InsertAtLemma
    <3>5. ready_list' = InsertAt(rest, j, d)
      BY <2>5, <3>1, <3>2
    <3>6. \A t \in ToSet(w) : priority'[t] <= p
      <4>1. /\ \A t \in ToSet(w) : t \in Threads /\ priority[t] <= p
            /\ priority'[d] = p /\ p <= p
        BY <1>1, <2>1, <2>2, <3>1, RunTypes DEF Leads
      <4>2. QED BY <2>2, <4>1
    <3>7. priority'[current'] = p
      BY <1>1, <2>1, <2>2, RunTypes
    <3>8. QED BY <3>3, <3>4, <3>5, <3>6, <3>7 DEF Led, Leads
  <2>6. QED
    <3>1. CASE waitingFor[donee] = NULL
      <4>1. UNCHANGED ready_list
        BY <1>3, <3>1 DEF Donate
      <4>2. d \notin ToSet(ready_list) \/ priority[d] = p
        BY <1>1, <1>3, <2>1, <3>1 DEF RaisesInPlace
      <4>3. QED BY <2>3, <2>4, <4>1, <4>2
    <3>2. CASE waitingFor[donee] # NULL
      <4>1. PointsOf(ready_list, d) = {} => d \notin ToSet(ready_list)
        BY DEF PointsOf, ToSet
      <4>2. QED BY <1>3, <2>1, <2>3, <2>5, <3>2, <4>1 DEF Donate
    <3>3. QED BY <3>1, <3>2
<1>4. QED BY <1>2, <1>3 DEF Donate

(* The rest of a call.                                                     *)
LEMMA ProgressLeads ==
  ASSUME TypeInv, QueueInv, Led, Progress, ~RaisesInPlace PROVE Led'
<1>1. /\ ~in_intr /\ current \in Threads /\ Ascending(ready_list, priority)
      /\ pc \in [Threads -> Labels] /\ current \notin ToSet(ready_list)
  BY RunTypes, RunningIsNowhere
     DEF Progress, Down, Up, YieldIfNecessary, YieldNow, Donate, Recalculate, AssignPriority,
         TryHold, CreateRelease, CreateUnblock, At, Led, QueueInv, Queued
<1>2. CASE Up
  <2>1. SemaUpBody(arg[current]) /\ arg[current] \in Semas /\ priority' = priority
    BY <1>1, <1>2 DEF Up, At, prioVars, TypeInv, CallsWellFormed
  <2>2. Ascending(ready_list, priority)' /\ current' = current
    BY <1>1, <2>1, SemaUpRises
  <2>3. pc'[current] \in Testing
    BY <1>1, <1>2 DEF Up, Goto, Testing
  <2>4. QED BY <2>2, <2>3 DEF Led
<1>3. CASE YieldIfNecessary
  <2>1. Calm
    BY <1>3 DEF YieldIfNecessary, Calm, runVars, prioVars
  <2>2. CASE ShouldYield(ready_list)
    <3>1. pc'[current] \in Testing
      BY <1>1, <1>3, <2>2 DEF YieldIfNecessary, Goto, Testing
    <3>2. QED BY <1>1, <2>1, <3>1, CalmLeads DEF Led, Calm
  <2>3. CASE ~ShouldYield(ready_list)
    BY <1>1, <2>1, <2>3, RunTypes, LedIfNoYield, CalmLeads DEF Led
  <2>4. QED BY <2>2, <2>3
<1>4. CASE YieldNow
  BY <1>1, <1>4, YieldLeads DEF YieldNow, prioVars, Led
<1>5. CASE AssignPriority
  <2>1. /\ UNCHANGED << ready_list, current >> /\ pc'[current] = "yield"
        /\ \A t \in Threads \ {current} : priority'[t] = priority[t]
    BY <1>1, <1>5, RunTypes DEF AssignPriority, Goto, runVars
  <2>2. Ascending(ready_list, priority)'
    BY <1>1, <2>1, OrderKept
  <2>3. QED BY <2>1, <2>2 DEF Led, Testing
<1>6. CASE CreateUnblock
  <2>1. PICK t \in Threads : t = child[current] /\ t # NULL
    BY <1>1, <1>6, ThreadsAssumption DEF CreateUnblock, At, TypeInv, CallsWellFormed
  <2>2. t # current
    BY <1>1, <1>6, <2>1 DEF CreateUnblock, At, TypeInv, NewbornsDormant
  <2>3. ThreadUnblock(t) /\ priority' = priority /\ current' = current
    BY <1>6, <2>1 DEF CreateUnblock, ThreadUnblock, prioVars
  <2>4. pc'[current] = "yield"
    BY <1>1, <1>6, <2>1, <2>2 DEF CreateUnblock
  <2>5. Ascending(ready_list, priority)'
    BY <1>1, <2>3, UnblockRises
  <2>6. QED BY <2>3, <2>4, <2>5 DEF Led, Testing
<1>7. CASE Recalculate \/ TryHold \/ CreateRelease
  BY <1>1, <1>7, CalmStep
     DEF Recalculate, TryHold, CreateRelease, At, Testing, Calm, runVars, prioVars
<1>8. QED BY <1>2, <1>3, <1>4, <1>5, <1>6, <1>7, DownLeads, DonateLeads DEF Progress

(* Booting, the idle loop and the head of timer_sleep.                     *)
LEMMA BootLeads ==
  ASSUME TypeInv, QueueInv, HighestInv,
         Boot \/ IdleBlock \/ \E n \in Naps : TimerSleep(n)
  PROVE  Led'
<1>1. /\ ~in_intr /\ current \in Threads /\ Ascending(ready_list, priority) /\ Led
      /\ pc[current] \in {"boot", "boot_wait", "idle_start", "idle_loop", "run"}
  BY RunTypes DEF HighestInv, Led, Boot, ThreadStart, WaitForIdle, IdleStart, IdleBlock,
                  TimerSleep, At
<1>2. pc[current] \notin Testing
  BY <1>1 DEF Testing
<1>3. CASE ThreadStart
  <2>1. PICK w \in Seq(Threads) :
             w = ready_list' /\ DOMAIN w = {1} /\ w[1] = Idle /\ ToSet(w) = {Idle}
    <3>1. << Idle >> \in Seq(Threads) /\ DOMAIN << Idle >> = {1} /\ << Idle >>[1] = Idle
      BY ThreadsAssumption
    <3>2. ToSet(<< Idle >>) = {Idle}
      BY <3>1 DEF ToSet
    <3>3. QED BY <1>3, <3>1, <3>2 DEF ThreadStart
  <2>2. current' = current /\ \A t \in Threads : priority'[t] = PRI_DEFAULT
    BY <1>1, <1>3 DEF ThreadStart, prioVars, At, HighestInv, BootPriorities
  <2>3. Ascending(w, priority')
    BY <2>1 DEF Ascending
  <2>4. \A t \in ToSet(w) : priority'[t] <= priority'[current']
    BY <1>1, <2>1, <2>2, ThreadsAssumption
  <2>5. QED BY <2>1, <2>3, <2>4 DEF Led, Leads
<1>4. CASE IdleBlock
  BY <1>1, <1>4, RunTypes, ScheduleLeads DEF IdleBlock, ThreadBlock, prioVars, Led
<1>5. CASE UNCHANGED << runVars, prioVars >>
  BY <1>1, <1>2, <1>5, CalmStep DEF Calm, runVars, prioVars
<1>6. QED BY <1>3, <1>4, <1>5 DEF Boot, WaitForIdle, IdleStart, TimerSleep

(* The timer interrupt asks for a yield when it wakes somebody who should  *)
(* run, and grants it when it returns.                                     *)
LEMMA InterruptLeads ==
  ASSUME TypeInv, QueueInv, Led, Interrupt PROVE Led'
<1>1. Ascending(ready_list, priority) /\ current \in Threads /\ priority' = priority
  BY RunTypes DEF Led, Interrupt, TimerInterrupt, WakeSleeper, ReturnFromInterrupt, prioVars
<1>2. CASE TimerInterrupt
  <2>1. Calm /\ ~in_intr /\ UNCHANGED pc
    BY <1>2 DEF TimerInterrupt, Calm, runVars, prioVars
  <2>2. QED BY <1>1, <2>1, CalmLeads DEF Led, Calm
<1>3. CASE WakeSleeper
  <2>1. PICK s \in Semas : SemaUpBody(s)
    <3>1. sleeping_threads \in Seq(Threads) /\ sleeping_threads # << >>
      BY <1>3 DEF WakeSleeper, SleeperDue, TypeInv, TypeOK, IntrTypeOK
    <3>2. Head(sleeping_threads) \in Threads
      BY <3>1
    <3>3. QED BY <1>3, <3>2 DEF WakeSleeper, Semas
  <2>2. Ascending(ready_list, priority)' /\ current' = current
    BY <1>1, <2>1, SemaUpRises
  <2>3. in_intr' /\ (yield_on_return' \/ ~ShouldYield(ready_list'))
    BY <1>3 DEF WakeSleeper
  <2>4. CASE ~ShouldYield(ready_list')
    <3>1. PICK w \in Seq(Threads) : w = ready_list' /\ Ascending(w, priority)
      BY <1>1, <1>3, <2>1, <2>2, SemaUpBodyLemma DEF TypeInv, TypeOK, RunTypeOK
    <3>2. Leads(w)
      BY <2>4, <3>1, RunTypes, LedIfNoYield
    <3>3. QED BY <1>1, <2>2, <3>1, <3>2 DEF Led, Leads
  <2>5. QED BY <2>2, <2>3, <2>4 DEF Led
<1>4. CASE ReturnFromInterrupt
  <2>1. CASE yield_on_return \/ SliceOver
    BY <1>1, <1>4, <2>1, YieldLeads DEF ReturnFromInterrupt, Led
  <2>2. CASE ~(yield_on_return \/ SliceOver)
    <3>1. Calm
      BY <1>4, <2>2 DEF ReturnFromInterrupt, Calm, prioVars
    <3>2. Leads(ready_list) \/ pc'[current] \in Testing
      BY <1>4, <2>2 DEF ReturnFromInterrupt, Led, Testing
    <3>3. QED BY <1>1, <3>1, <3>2, CalmLeads DEF Led, Calm
  <2>3. QED BY <2>1, <2>2
<1>5. QED BY <1>2, <1>3, <1>4 DEF Interrupt

(* Nobody comes to boot after the start, and only a thread that runs past  *)
(* it writes a priority.                                                   *)
LEMMA BootsBefore ==
  ASSUME TypeInv, TypeInv', QueueInv, CountInv, BootPriorities, Next PROVE BootPriorities'
<1>1. PICK c \in Threads : c = current
  BY RunTypes
<1>2. BootsNobody
  <2>1. CASE Down \/ Up \/ WakeSleeper \/ Exit \/ IdleBlock \/ CreateUnblock \/ ThreadStart \/ IdleStart
    BY <2>1, DownCounts, UpCounts, WakeSleeperCounts, LeavesCounts, CreateUnblockCounts,
       ThreadStartCounts, IdleStartCounts DEF CountsOn
  <2>2. QED BY <1>1, <2>1, RequestCounts, ProgressCounts, ClockCounts DEF Next, Boot, Interrupt
<1>3. priority' = priority \/ pc[current] # "boot"
  <2>1. CASE Request \/ \E n \in Naps : TimerSleep(n)
    BY <2>1 DEF Request, ThreadCreate, Exit, Yield, SetPriority, SemaDown, SemaUp, SemaTryDown,
         LockAcquire, LockRelease, LockTryAcquire, At, TimerSleep
  <2>2. CASE Progress
    BY <2>2 DEF Progress, Down, Up, YieldIfNecessary, YieldNow, Donate, Recalculate,
         AssignPriority, TryHold, CreateRelease, CreateUnblock, At, prioVars
  <2>3. CASE Boot \/ IdleBlock \/ Interrupt
    BY <2>3 DEF Boot, ThreadStart, WaitForIdle, IdleStart, IdleBlock, Interrupt, TimerInterrupt,
         WakeSleeper, ReturnFromInterrupt, prioVars
  <2>4. QED BY <2>1, <2>2, <2>3 DEF Next
<1>4. \A t \in Threads : pc'[t] = "boot" => pc[t] = "boot" /\ pc[current] = "boot"
  BY <1>2 DEF BootsNobody, QueueInv, PlaceOK
<1>5. QED BY <1>3, <1>4 DEF BootPriorities

(* Main starts alone.                                                      *)
LEMMA HighestInvInit == Init => HighestInv
<1> SUFFICES ASSUME Init PROVE HighestInv
  OBVIOUS
<1>1. ready_list = << >> /\ ToSet(<< >>) = {} /\ DOMAIN << >> = {}
  BY DEF Init, ToSet
<1>2. QED BY <1>1 DEF Init, HighestInv, Led, Leads, Ascending, BootPriorities

(* No step breaks it that raises no ready thread in its place.             *)
LEMMA HighestInvStep ==
  ASSUME TypeInv, TypeInv', QueueInv, CountInv, HighestInv, [Next]_vars, ~RaisesInPlace
  PROVE  HighestInv'
<1>1. CASE UNCHANGED vars
  BY <1>1 DEF vars, runVars, prioVars, intrVars, HighestInv, Led, Leads, Ascending,
              BootPriorities
<1>2. CASE Next
  <2>1. Led'
    BY <1>2, RequestLeads, ProgressLeads, BootLeads, InterruptLeads DEF Next, HighestInv
  <2>2. QED BY <1>2, <2>1, BootsBefore DEF HighestInv
<1>3. QED BY <1>1, <1>2

(* Where client code runs no ready thread has a higher priority, through   *)
(* every call, switch and interrupt, as long as donate never raises a      *)
(* ready thread without moving it: of all that makes threads ready and     *)
(* changes priorities that alone can break the order schedule relies on.   *)
THEOREM HighestPriorityRuns == Spec /\ []~RaisesInPlace => []HighestRuns
<1>1. Init => TypeInv /\ QueueInv /\ CountInv /\ HighestInv
  BY TypeInvInit, QueueInvInit, CountInvInit, HighestInvInit
<1>2. TypeInv /\ QueueInv /\ CountInv /\ HighestInv /\ [Next]_vars /\ ~RaisesInPlace
        => (TypeInv /\ QueueInv /\ CountInv /\ HighestInv)'
  BY TypeInvStep, QueueInvStep, CountInvStep, HighestInvStep
<1>3. HighestInv => HighestRuns
  BY DEF HighestInv, Led, Leads, HighestRuns, Testing
<1>4. QED BY <1>1, <1>2, <1>3, PTL DEF Spec

==============================================================================
