------------------------- MODULE KernelProperties --------------------------
(***************************************************************************)
(* What the kernel core promises.                                          *)
(***************************************************************************)
EXTENDS Kernel

Statuses == {"NONE", "BLOCKED", "READY", "RUNNING", "DYING"}

RunTypeOK ==
  /\ status \in [Threads -> Statuses]
  /\ current \in Threads
  /\ ready_list \in Seq(Threads)
  /\ cpu_ready_count \in Int
  /\ thread_ticks \in 0 .. TIME_SLICE - 1

PrioTypeOK ==
  /\ priority \in [Threads -> Prio]
  /\ defaultPriority \in [Threads -> Prio]
  /\ newPriority \in [Threads -> Prio]

SyncTypeOK ==
  /\ value \in [Semas -> Nat]
  /\ waiters \in [Semas -> Seq(Threads)]
  /\ holder \in [Locks -> Threads \cup {NULL}]
  /\ waitingFor \in [Threads -> Locks \cup {NULL}]

CallTypeOK ==
  /\ pc \in [Threads -> Labels]
  /\ arg \in [Threads -> Semas \cup {NULL}]
  /\ ret \in [Threads -> {"run", "idle_loop", "create_release", "create_unblock"}]
  /\ donee \in Threads \cup {NULL}
  /\ child \in [Threads -> Threads \cup {NULL}]

IntrTypeOK ==
  /\ in_intr \in BOOLEAN /\ yield_on_return \in BOOLEAN
  /\ idle_thread \in {NULL, Idle}
  /\ sleeping_threads \in Seq(Threads)
  /\ remaining \in [Threads -> Nat]

(* Every variable has its type: the fields of struct thread, struct        *)
(* semaphore and struct lock, and the file-scope variables.                *)
TypeOK == RunTypeOK /\ PrioTypeOK /\ SyncTypeOK /\ CallTypeOK /\ IntrTypeOK

-----------------------------------------------------------------------------
Queued(t)      == t \in ToSet(ready_list)
WaitsOn(t, s)  == t \in ToSet(waiters[s])
Newborn(t)     == \E u \in Threads : child[u] = t
Runnable(t)    == status[t] \in {"READY", "RUNNING"}

(* The dual purpose of t->elem (thread.h): a thread is linked at most once *)
(* into the run queue and all the wait lists together, it is on the run    *)
(* queue exactly when it is ready (idle aside), and it is on a wait list   *)
(* exactly when it is blocked (idle and a thread whose creation is not     *)
(* finished aside).  Only thread_current() is in the running state.        *)
ElemExclusive ==
  /\ IsInjective(ready_list)
  /\ \A s \in Semas : IsInjective(waiters[s])
  /\ \A s, r \in Semas : s # r => ToSet(waiters[s]) \cap ToSet(waiters[r]) = {}
  /\ \A t \in Threads :
       /\ status[t] = "RUNNING" <=> t = current
       /\ Queued(t) => status[t] = "READY"
       /\ status[t] = "READY" => Queued(t) \/ t = idle_thread
       /\ (\E s \in Semas : WaitsOn(t, s)) => status[t] = "BLOCKED"
       /\ status[t] = "BLOCKED" =>
            (\E s \in Semas : WaitsOn(t, s)) \/ t = idle_thread \/ Newborn(t)

(* t has taken l's semaphore and not given it back: it holds l, or it is   *)
(* between the two writes of lock_try_acquire or of lock_release.          *)
Claims(t, l) ==
  holder[l] = t \/ (pc[t] \in {"up", "try_hold"} /\ arg[t] = l)

(* A lock is held by at most one thread, and its semaphore is up exactly   *)
(* when nobody has it, across every preemption inside lock_acquire,        *)
(* lock_try_acquire and lock_release.                                      *)
LockOwnership ==
  \A l \in Locks :
    /\ \A t, u \in Threads : Claims(t, l) /\ Claims(u, l) => t = u
    /\ value[l] = IF \E t \in Threads : Claims(t, l) THEN 0 ELSE 1

(* A thread inside a lock operation has a lock for an argument, one inside *)
(* a semaphore operation a semaphore, and one inside thread_create the     *)
(* thread it creates.                                                      *)
CallsWellFormed ==
  \A t \in Threads :
    /\ pc[t] \in {"donate", "try_hold"} => arg[t] \in Locks
    /\ pc[t] \in {"down", "up"} => arg[t] \in Semas
    /\ pc[t] \in {"create_release", "create_unblock"}
         \/ ret[t] \in {"create_release", "create_unblock"} => child[t] \in Threads

(* There is always a thread to run: until idle has set idle_thread it is   *)
(* ready or running itself, so a switch with an empty run queue finds      *)
(* idle_thread set.  Nothing is interrupted with interrupts off.           *)
IdleReady ==
  /\ idle_thread = NULL =>
       /\ pc[Idle] = "idle_start"
       /\ pc[current] = "boot" \/ current = Idle \/ Idle \in ToSet(ready_list)
  /\ \A t \in Threads : pc[t] = "idle_start" => t = Idle
  /\ in_intr => pc[current] \notin IntrOff

(* Until thread_create unblocks it, the thread it creates does nothing and *)
(* nobody else creates a thread on its page.                               *)
NewbornsDormant ==
  /\ \A t \in Threads : child[t] # NULL =>
       child[t] # Idle /\ pc[child[t]] = "none" /\ status[child[t]] # "NONE"
  /\ \A t, u \in Threads : child[t] # NULL /\ child[t] = child[u] => t = u
  /\ \A t \in Threads \ {Idle} : status[t] = "NONE" => pc[t] = "none"

(* Who gives a lock back, or has only just taken it, is not its holder.    *)
ClaimsApart ==
  \A t \in Threads, l \in Locks :
    pc[t] \in {"up", "try_hold"} /\ arg[t] = l => holder[l] # t


(* No wake-up is lost: while threads wait on a semaphore whose value is    *)
(* positive, at least that many threads are awake in its sema_down and     *)
(* will try again.                                                         *)
Retrying(s) == { t \in Threads : pc[t] = "down" /\ arg[t] = s /\ Runnable(t) }

NoLostWakeup ==
  \A s \in Semas : waiters[s] # << >> => value[s] <= Cardinality(Retrying(s))

(* cpu_ready_count, which next_load_avg takes for the number of ready and  *)
(* running threads: it is that number without idle, and one less until     *)
(* idle has run (main is never counted, idle is counted as it is created). *)
ReadyThreads == { t \in Threads : Runnable(t) /\ t # idle_thread }

CpuReadyCountExact ==
  cpu_ready_count = Cardinality(ReadyThreads) - (IF idle_thread = NULL THEN 1 ELSE 0)

(* A thread never has less than its own priority, whatever donations come  *)
(* and go and whenever lock_release stores the priority it computed.       *)
DonationFloor == \A t \in Threads : defaultPriority[t] <= priority[t]

(* What lock_release is about to store is not below that either.           *)
StoreFloor ==
  \A t \in Threads : pc[t] = "assign" => defaultPriority[t] <= newPriority[t]

(* The inductive invariants behind TypeOK, LockOwnership and DonationFloor.*)
TypeInv   == TypeOK /\ CallsWellFormed /\ IdleReady /\ NewbornsDormant
LockInv   == LockOwnership /\ ClaimsApart
FloorInv  == DonationFloor /\ StoreFloor
KernelInv == TypeInv /\ LockInv /\ FloorInv

(* What lock_release hands back: client code that owns no lock runs at its *)
(* own priority, whatever was donated while it did.                        *)
DonationReturned ==
  \A t \in Threads :
    pc[t] = "run" /\ OwnedLocks(t) = {} => priority[t] = defaultPriority[t]

(* A thread on the wait list of a lock waits for that lock, does not hold  *)
(* it, and holds only locks of lower rank: no cycle for donate to run in.  *)
WaitForOrder ==
  \A t \in Threads : \A l \in Locks :
    /\ WaitsOn(t, l) => waitingFor[t] = l
    /\ waitingFor[t] = l => \A m \in OwnedLocks(t) : LockRank[m] < LockRank[l]

(* sleeping_threads is in the order of the wake-up times; outside the      *)
(* handler nobody on it is overdue; a thread with time left is on it; and  *)
(* a thread on it is inside its timer_sleep, so it neither runs early nor  *)
(* is woken by anything but the clock.                                     *)
SleepersOnTime ==
  /\ \A i, j \in DOMAIN sleeping_threads :
       i < j => /\ sleeping_threads[i] # sleeping_threads[j]
                /\ remaining[sleeping_threads[i]] <= remaining[sleeping_threads[j]]
  /\ \A t \in ToSet(sleeping_threads) :
       /\ remaining[t] > 0 \/ in_intr
       /\ pc[t] = "down" /\ arg[t] = t /\ value[t] = 0
       /\ WaitsOn(t, t) \/ t = current
  /\ \A t \in Threads : remaining[t] > 0 => t \in ToSet(sleeping_threads)

(* Where client code runs, no ready thread has a higher priority: every    *)
(* operation that makes a higher one ready, or lowers the running one,     *)
(* has yielded by the time it returns (priority-change.c, alarm-priority.c *)
(* and priority-preempt.c test single cases).  Checked where no client     *)
(* waits for a lock: donate leaves a raised holder where it is in the      *)
(* ready list, which is then not sorted.                                   *)
HighestRuns ==
  ~in_intr /\ pc[current] = "run" =>
    \A t \in ToSet(ready_list) : priority[t] <= priority[current]

-----------------------------------------------------------------------------
(* The locks and semaphores that the users of synch.h see.                 *)
Owner(l) == LET owners == { t \in Threads : Claims(t, l) }
            IN  IF owners = {} THEN NULL ELSE CHOOSE t \in owners : TRUE

Abstract == INSTANCE SynchSpec WITH
  Tokens <- Semas \ Locks,
  owner  <- [l \in Locks |-> Owner(l)],
  count  <- [s \in Semas \ Locks |-> value[s]],
  asking <- [t \in Threads |-> IF pc[t] \in {"donate", "down"} THEN arg[t] ELSE NULL]

(* synch.c implements SynchSpec: through all the places it can be          *)
(* interrupted at, a lock has one owner and changes hands only through     *)
(* being free, and a down succeeds only by taking one from the count.      *)
ImplementsSynchSpec == Abstract!Spec

-----------------------------------------------------------------------------
(* Fairness.  A pending timer interrupt is delivered once interrupts are   *)
(* on, its handler runs to its end, and a thread that runs again and again *)
(* executes the kernel code it is in.  Nothing is assumed of the clients.  *)
KernelCode == (Progress /\ UNCHANGED timerVars) \/ Boot \/ IdleBlock

Fairness ==
  /\ SF_vars(TimerInterrupt)
  /\ WF_vars(WakeSleeper \/ ReturnFromInterrupt)
  /\ \A t \in Threads : SF_vars(current = t /\ KernelCode)

FairSpec == Spec /\ Fairness

(* Round robin (priority-fifo.c): among threads of one priority, none that *)
(* is ready stays so forever, however long the others run.                 *)
ReadyRuns ==
  \A t \in Threads : status[t] = "READY" /\ t # Idle ~> status[t] = "RUNNING"

(* Every timer_sleep ends: the sleeper is woken, finds its semaphore up,   *)
(* and returns to its client.                                              *)
SleepEnds ==
  \A t \in Threads : t \in ToSet(sleeping_threads) ~> pc[t] = "run"

(* Clients that release the locks they hold, if they run often enough.     *)
ClientsRelease ==
  \A l \in Locks \ {TidLock} : SF_vars(LockRelease(l) /\ UNCHANGED timerVars)

FairClientSpec == FairSpec /\ ClientsRelease

(* The thread whose own priority is above everyone else's.                 *)
Top(t) == \A u \in Threads \ {t} : defaultPriority[u] < defaultPriority[t]

(* lock_release is about to store a priority computed before t donated to  *)
(* it (synch.c:286): the holder of l is about to go below t's again.       *)
StaleStore(t, l) ==
  LET h == holder[l]
  IN  h # NULL /\ pc[h] = "assign" /\ newPriority[h] < priority[t]

(* A thread whose own priority is above everyone else's and that finds the *)
(* lock it acquires held gets it, though others of a middle priority never *)
(* block: donate lends its priority to the holder, which keeps it until    *)
(* its lock_release unless a stale store takes it away (the finding of     *)
(* HolderOutranksWaiters).  With no holder to be found, between the clear  *)
(* of lock->holder and sema_up, nothing is donated and nothing promised.   *)
TopGetsLock ==
  \A t \in Threads \ {Idle}, l \in Locks \ {TidLock} :
    pc[t] = "donate" /\ arg[t] = l /\ holder[l] # NULL /\ Top(t)
      ~> holder[l] = t \/ ~Top(t) \/ StaleStore(t, l)

-----------------------------------------------------------------------------
(* What the source says and the code does not do.                          *)

(* Threads that block on a lock donate their priorities to the thread that *)
(* holds it, says priority-donate-one.c.                                   *)
HolderOutranksWaiters ==
  \A t \in Threads, l \in Locks :
    WaitsOn(t, l) /\ holder[l] # NULL => priority[t] <= priority[holder[l]]
=============================================================================
