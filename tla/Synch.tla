------------------------------- MODULE Synch -------------------------------
(***************************************************************************)
(* Semaphores and locks with priority donation, threads/synch.c, and the   *)
(* thread.c operations that use them (thread_create takes tid_lock,        *)
(* thread_set_priority recomputes donations).                              *)
(*                                                                         *)
(* A semaphore is named by what embeds it: a lock has one, every thread    *)
(* has its sleeping_semaphore, and Semaphores are the free-standing ones.  *)
(*                                                                         *)
(* A call is a step that leaves "run"; the thread is back at ret[t] when   *)
(* the call returns.  The calls nest in one way only: lock_release calls   *)
(* sema_up, and both end in yield_if_necessary, hence the "rel_" labels.   *)
(* A local variable that is dead holds a fixed value.                      *)
(***************************************************************************)
EXTENDS Threads

CONSTANTS
  Semaphores,   (* free-standing semaphores, idle_started included         *)
  IdleStarted,
  Locks,        (* tid_lock included                                       *)
  TidLock,
  LockRank,     (* the order in which the clients nest the locks           *)
  MaxValue      (* bound on the value a client ups a semaphore to          *)

Semas == Semaphores \cup Locks \cup Threads

ASSUME SynchAssumption ==
  /\ IdleStarted \in Semaphores /\ TidLock \in Locks
  /\ Semaphores \cap Locks = {} /\ Semaphores \cap Threads = {}
  /\ Locks \cap Threads = {} /\ NULL \notin Semas
  /\ LockRank \in [Locks -> Nat]
  /\ \A l \in Locks \ {TidLock} : LockRank[l] < LockRank[TidLock]
  /\ MaxValue \in Nat

VARIABLES
  value,        (* sema->value                                             *)
  waiters,      (* sema->waiters                                           *)
  holder,       (* lock->holder                                            *)
  waitingFor,   (* t->waitingFor                                           *)
  arg,          (* the semaphore or lock of the call a thread is in        *)
  ret,          (* where that call returns to                              *)
  newPriority,  (* the result of calculateDonatedPriority in lock_release  *)
  donee,        (* the thread donate() looks at                            *)
  child         (* the thread that thread_create has not unblocked yet     *)

semaVars == << value, waiters >>
lockVars == << holder, waitingFor >>
callVars == << arg, ret, newPriority, donee, child >>

At(label)   == ~in_intr /\ pc[current] = label
Goto(label) == pc' = [pc EXCEPT ![current] = label]
Call(s, r)  == /\ arg' = [arg EXCEPT ![current] = s]
               /\ ret' = [ret EXCEPT ![current] = r]

(* t->ownedLocks.  A lock joins the list in the step that sets its holder  *)
(* and leaves it in the step that clears it, and only the owner reads it.  *)
OwnedLocks(t) == { l \in Locks : holder[l] = t }

(* Mutation of DonatedPriorities: the maximum starts from PRI_MIN.         *)
DonatedPrioritiesNoBase(t, base) ==
  {PRI_MIN} \cup UNION { { priority[waiters[l][i]] : i \in DOMAIN waiters[l] }
                          : l \in OwnedLocks(t) }

(* The priorities calculateDonatedPriority takes the maximum of.           *)
DonatedPriorities(t, base) ==
  {base} \cup UNION { { priority[waiters[l][i]] : i \in DOMAIN waiters[l] }
                       : l \in OwnedLocks(t) }

Maxima(S) == { m \in S : \A x \in S : x <= m }

-----------------------------------------------------------------------------
(* Semaphores.                                                             *)

(* Mutation of MustWait: only those behind a waiter wait.                  *)
MustWaitBehindOthers(s) == value[s] = 0 /\ waiters[s] # << >>

(* The condition of the loop of sema_down.                                 *)
MustWait(s) == value[s] = 0

(* One turn of the loop of sema_down, interrupts off.  When the semaphore  *)
(* is a lock's, the step goes on to the end of lock_acquire.               *)
Down ==
  /\ At("down")
  /\ LET s == arg[current] IN
     \/ /\ MustWait(s)
        /\ waiters' = [waiters EXCEPT ![s] = Append(@, current)]
        /\ ThreadBlock
        /\ UNCHANGED << pc, value, lockVars, arg >>
     \/ /\ ~MustWait(s)
        /\ value' = [value EXCEPT ![s] = @ - 1]
        /\ Goto(ret[current])
        /\ arg' = [arg EXCEPT ![current] = NULL]
        /\ IF s \in Locks
           THEN /\ waitingFor' = [waitingFor EXCEPT ![current] = NULL]
                /\ holder' = [holder EXCEPT ![s] = current]
           ELSE UNCHANGED lockVars
        /\ UNCHANGED << runVars, waiters >>
  /\ UNCHANGED << prioVars, intrVars, idle_thread, ret, newPriority, donee, child >>

(* Mutation of SemaUpBody: a semaphore that is up wakes nobody.            *)
SemaUpBodyWakesFromZero(s) ==
  /\ value' = [value EXCEPT ![s] = @ + 1]
  /\ \/ /\ waiters[s] = << >> \/ value[s] > 0
        /\ UNCHANGED << runVars, waiters >>
     \/ \E i \in MaxPoints(waiters[s], priority) :
          /\ value[s] = 0
          /\ waiters' = [waiters EXCEPT ![s] = RemoveAt(@, i)]
          /\ ThreadUnblock(waiters[s][i])

(* Mutation of SemaUpBody: a woken waiter is given no value to take.       *)
SemaUpBodyWakesWithoutValue(s) ==
  \/ /\ waiters[s] = << >>
     /\ value' = [value EXCEPT ![s] = @ + 1]
     /\ UNCHANGED << runVars, waiters >>
  \/ \E i \in MaxPoints(waiters[s], priority) :
       /\ waiters' = [waiters EXCEPT ![s] = RemoveAt(@, i)]
       /\ ThreadUnblock(waiters[s][i])
       /\ UNCHANGED value

(* sema_up up to intr_set_level: wake one waiter of maximal priority.      *)
SemaUpBody(s) ==
  /\ value' = [value EXCEPT ![s] = @ + 1]
  /\ \/ /\ waiters[s] = << >>
        /\ UNCHANGED << runVars, waiters >>
     \/ \E i \in MaxPoints(waiters[s], priority) :
          /\ waiters' = [waiters EXCEPT ![s] = RemoveAt(@, i)]
          /\ ThreadUnblock(waiters[s][i])

Up ==
  /\ At("up")
  /\ SemaUpBody(arg[current])
  /\ arg' = [arg EXCEPT ![current] = NULL]
  /\ Goto(IF arg[current] \in Locks THEN "rel_yield" ELSE "yield")
  /\ UNCHANGED << prioVars, intrVars, idle_thread, lockVars, ret, newPriority, donee, child >>

(* Mutation of AfterYield: lock_release returns without recomputing.       *)
AfterYieldKeepsDonation == ret[current]

(* Where yield_if_necessary returns to.                                    *)
AfterYield ==
  IF pc[current] \in {"rel_yield", "rel_thread_yield"} THEN "recalc" ELSE ret[current]

(* yield_if_necessary outside interrupts: the test, interrupts off, ...    *)
YieldIfNecessary ==
  /\ At("yield") \/ At("rel_yield")
  /\ Goto(IF ~ShouldYield(ready_list) THEN AfterYield
          ELSE IF pc[current] = "yield" THEN "thread_yield" ELSE "rel_thread_yield")
  /\ UNCHANGED << runVars, prioVars, intrVars, idle_thread, semaVars, lockVars, callVars >>

(* ... and the thread_yield it leads to once they are on again.            *)
YieldNow ==
  /\ At("thread_yield") \/ At("rel_thread_yield")
  /\ ThreadYield
  /\ Goto(AfterYield)
  /\ UNCHANGED << prioVars, intrVars, idle_thread, semaVars, lockVars, callVars >>

-----------------------------------------------------------------------------
(* Locks.                                                                  *)

(* Mutation of LockAcquireHead: the lock waited for is not recorded.       *)
LockAcquireHeadUnrecorded(l, r) ==
  /\ holder[l] # current
  /\ donee' = current
  /\ Call(l, r)
  /\ Goto("donate")
  /\ UNCHANGED << newPriority, holder, waitingFor >>

(* The head of lock_acquire, from intr_disable to the call of donate.      *)
LockAcquireHead(l, r) ==
  /\ holder[l] # current
  /\ waitingFor' = [waitingFor EXCEPT ![current] = l]
  /\ donee' = current
  /\ Call(l, r)
  /\ Goto("donate")
  /\ UNCHANGED << newPriority, holder >>

(* Mutation of CanRaise: nobody of the waiter's own priority is raised.    *)
CanRaiseStrict == donee # NULL /\ priority[donee] < priority[current]

(* The test of the loop of donate.                                         *)
CanRaise == donee # NULL /\ priority[donee] <= priority[current]

(* One turn of the loop of donate, interrupts off.  A holder that waits    *)
(* for nothing is raised but keeps its place in the run queue.             *)
Donate ==
  /\ At("donate")
  /\ \/ /\ ~CanRaise
        /\ Goto("down")
        /\ donee' = NULL
        /\ UNCHANGED << priority, ready_list >>
     \/ /\ CanRaise
        /\ priority' = [priority EXCEPT ![donee] = priority[current]]
        /\ \/ /\ waitingFor[donee] = NULL
              /\ Goto("down")
              /\ donee' = NULL
              /\ UNCHANGED ready_list
           \/ /\ waitingFor[donee] # NULL
              /\ donee' = holder[waitingFor[donee]]
              /\ \/ /\ PointsOf(ready_list, donee) = {}
                    /\ UNCHANGED ready_list
                 \/ \E i \in PointsOf(ready_list, donee) :
                      LET rest == RemoveAt(ready_list, i) IN
                      \E j \in InsertPoints(rest, priority', priority[current]) :
                        ready_list' = InsertAt(rest, j, donee)
              /\ UNCHANGED pc
  /\ UNCHANGED << status, current, cpu_ready_count, thread_ticks, defaultPriority,
                  intrVars, idle_thread, semaVars, lockVars, arg, ret, newPriority, child >>

(* lock_release up to the call of sema_up; the two writes it makes are     *)
(* only read together by other threads through holder.                     *)
LockReleaseHead(l, r) ==
  /\ holder[l] = current
  /\ holder' = [holder EXCEPT ![l] = NULL]
  /\ Call(l, r)
  /\ Goto("up")
  /\ UNCHANGED << waitingFor, newPriority, donee >>

(* lock_release, after sema_up: calculateDonatedPriority runs with         *)
(* interrupts off, its result is stored with interrupts on.                *)
Recalculate ==
  /\ At("recalc")
  /\ \E m \in Maxima(DonatedPriorities(current, defaultPriority[current])) :
       newPriority' = [newPriority EXCEPT ![current] = m]
  /\ Goto("assign")
  /\ UNCHANGED << runVars, prioVars, intrVars, idle_thread, semaVars, lockVars,
                  arg, ret, donee, child >>

AssignPriority ==
  /\ At("assign")
  /\ priority' = [priority EXCEPT ![current] = newPriority[current]]
  /\ newPriority' = [newPriority EXCEPT ![current] = PRI_MIN]
  /\ Goto("yield")
  /\ UNCHANGED << runVars, defaultPriority, intrVars, idle_thread, semaVars, lockVars,
                  arg, ret, donee, child >>

(* lock_try_acquire, the part after a successful sema_try_down.            *)
TryHold ==
  /\ At("try_hold")
  /\ holder' = [holder EXCEPT ![arg[current]] = current]
  /\ arg' = [arg EXCEPT ![current] = NULL]
  /\ Goto("run")
  /\ UNCHANGED << runVars, prioVars, intrVars, idle_thread, semaVars, waitingFor,
                  ret, newPriority, donee, child >>

-----------------------------------------------------------------------------
(* The calls a client makes from "run".                                    *)

SemaDown(s) ==
  /\ At("run")
  /\ Call(s, "run")
  /\ Goto("down")
  /\ UNCHANGED << runVars, prioVars, intrVars, idle_thread, semaVars, lockVars,
                  newPriority, donee, child >>

SemaTryDown(s) ==
  /\ At("run")
  /\ value[s] > 0
  /\ value' = [value EXCEPT ![s] = @ - 1]
  /\ UNCHANGED << runVars, prioVars, intrVars, idle_thread, pc, waiters, lockVars, callVars >>

SemaUp(s) ==
  /\ At("run")
  /\ value[s] < MaxValue
  /\ Call(s, "run")
  /\ Goto("up")
  /\ UNCHANGED << runVars, prioVars, intrVars, idle_thread, semaVars, lockVars,
                  newPriority, donee, child >>

(* The clients nest locks by rank, so that they do not deadlock.           *)
InOrder(l) == \A m \in OwnedLocks(current) : LockRank[m] < LockRank[l]

LockAcquire(l) ==
  /\ At("run")
  /\ InOrder(l)
  /\ LockAcquireHead(l, "run")
  /\ UNCHANGED << runVars, prioVars, intrVars, idle_thread, semaVars, child >>

LockTryAcquire(l) ==
  /\ At("run")
  /\ holder[l] # current
  /\ value[l] > 0
  /\ value' = [value EXCEPT ![l] = @ - 1]
  /\ Call(l, "run")
  /\ Goto("try_hold")
  /\ UNCHANGED << runVars, prioVars, intrVars, idle_thread, waiters, lockVars,
                  newPriority, donee, child >>

LockRelease(l) ==
  /\ At("run")
  /\ LockReleaseHead(l, "run")
  /\ UNCHANGED << runVars, prioVars, intrVars, idle_thread, semaVars, child >>

Yield ==
  /\ At("run")
  /\ ThreadYield
  /\ UNCHANGED << pc, prioVars, intrVars, idle_thread, semaVars, lockVars, callVars >>

SetPriority(p) ==
  /\ At("run")
  /\ defaultPriority' = [defaultPriority EXCEPT ![current] = p]
  /\ \E m \in Maxima(DonatedPriorities(current, p)) :
       priority' = [priority EXCEPT ![current] = m]
  /\ ret' = [ret EXCEPT ![current] = "run"]
  /\ Goto("yield")
  /\ UNCHANGED << runVars, intrVars, idle_thread, semaVars, lockVars, arg,
                  newPriority, donee, child >>

(* thread_create: init_thread, then allocate_tid under tid_lock, then the  *)
(* new thread joins the run queue.                                         *)
ThreadCreate(u, p) ==
  /\ At("run")
  /\ status[u] = "NONE" /\ u # Idle
  /\ status' = [status EXCEPT ![u] = "BLOCKED"]
  /\ priority' = [priority EXCEPT ![u] = p]
  /\ defaultPriority' = [defaultPriority EXCEPT ![u] = p]
  /\ child' = [child EXCEPT ![current] = u]
  /\ LockAcquireHead(TidLock, "create_release")
  /\ UNCHANGED << current, ready_list, cpu_ready_count, thread_ticks, intrVars,
                  idle_thread, semaVars >>

CreateRelease ==
  /\ At("create_release")
  /\ LockReleaseHead(TidLock, "create_unblock")
  /\ UNCHANGED << runVars, prioVars, intrVars, idle_thread, semaVars, child >>

CreateUnblock ==
  /\ At("create_unblock")
  /\ ThreadUnblock(child[current])
  /\ child' = [child EXCEPT ![current] = NULL]
  /\ ret' = [ret EXCEPT ![current] = "run"]
  /\ pc' = [pc EXCEPT ![current] = "yield", ![child[current]] = "run"]
  /\ UNCHANGED << prioVars, intrVars, idle_thread, semaVars, lockVars, arg,
                  newPriority, donee >>

(* A thread exits with no lock held: its clients release what they take.   *)
Exit ==
  /\ At("run")
  /\ OwnedLocks(current) = {}
  /\ ThreadExit
  /\ Goto("none")
  /\ UNCHANGED << prioVars, intrVars, idle_thread, semaVars, lockVars, callVars >>
=============================================================================
