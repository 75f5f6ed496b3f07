------------------------------- MODULE Kernel ------------------------------
(***************************************************************************)
(* The kernel core as one system: the scheduler and the synchronization    *)
(* primitives (Threads, Synch), the idle thread and the boot sequence of   *)
(* thread_start (threads/thread.c), the external interrupt path of         *)
(* threads/interrupt.c and the sleeping threads of devices/timer.c.        *)
(***************************************************************************)
EXTENDS Synch

CONSTANTS
  Ops,          (* the calls the clients of this instance make             *)
  Priorities,   (* the priorities they pass                                *)
  Naps          (* the positive tick counts they pass to timer_sleep       *)

OpNames == {"create", "exit", "yield", "setprio", "sema", "trydown", "lock",
            "trylock", "sleep"}

ASSUME KernelAssumption ==
  /\ Ops \subseteq OpNames
  /\ Priorities \subseteq Prio
  /\ Naps \subseteq Nat \ {0}

VARIABLES
  sleeping_threads,
  remaining     (* t->budzilniki - ticks, while t sleeps; 0 otherwise      *)

timerVars == << sleeping_threads, remaining >>
vars == << runVars, prioVars, intrVars, idle_thread, pc, semaVars, lockVars,
           callVars, timerVars >>

-----------------------------------------------------------------------------
(* The state thread_init leaves.                                           *)
Init ==
  /\ status = [t \in Threads |-> IF t = Main THEN "RUNNING" ELSE "NONE"]
  /\ current = Main
  /\ ready_list = << >>
  /\ priority = [t \in Threads |-> PRI_DEFAULT]
  /\ defaultPriority = [t \in Threads |-> PRI_DEFAULT]
  /\ idle_thread = NULL
  /\ cpu_ready_count = 0
  /\ thread_ticks = 0
  /\ in_intr = FALSE
  /\ yield_on_return = FALSE
  /\ pc = [t \in Threads |-> IF t = Main THEN "boot"
                             ELSE IF t = Idle THEN "idle_start" ELSE "none"]
  /\ value = [s \in Semas |-> IF s \in Locks THEN 1 ELSE 0]
  /\ waiters = [s \in Semas |-> << >>]
  /\ holder = [l \in Locks |-> NULL]
  /\ waitingFor = [t \in Threads |-> NULL]
  /\ arg = [t \in Threads |-> NULL]
  /\ ret = [t \in Threads |-> "run"]
  /\ newPriority = [t \in Threads |-> PRI_MIN]
  /\ donee = NULL
  /\ child = [t \in Threads |-> NULL]
  /\ sleeping_threads = << >>
  /\ remaining = [t \in Threads |-> 0]

(* thread_start creates idle with interrupts off: nothing else runs, so    *)
(* thread_create is one step, and the new thread does not outrank main.    *)
ThreadStart ==
  /\ At("boot")
  /\ status' = [status EXCEPT ![Idle] = "READY"]
  /\ ready_list' = << Idle >>
  /\ cpu_ready_count' = cpu_ready_count + 1
  /\ Goto("boot_wait")
  /\ UNCHANGED << current, thread_ticks, prioVars, intrVars, idle_thread,
                  semaVars, lockVars, callVars, timerVars >>

(* ... enables interrupts, and waits for idle.                             *)
WaitForIdle ==
  /\ At("boot_wait")
  /\ Call(IdleStarted, "run")
  /\ Goto("down")
  /\ UNCHANGED << runVars, prioVars, intrVars, idle_thread, semaVars, lockVars,
                  newPriority, donee, child, timerVars >>

(* idle: sets idle_thread and ups idle_started, ...                        *)
IdleStart ==
  /\ At("idle_start")
  /\ idle_thread' = current
  /\ Call(IdleStarted, "idle_loop")
  /\ Goto("up")
  /\ UNCHANGED << runVars, prioVars, intrVars, semaVars, lockVars,
                  newPriority, donee, child, timerVars >>

(* ... then blocks, and halts until an interrupt whenever it is run.       *)
IdleBlock ==
  /\ At("idle_loop")
  /\ ThreadBlock
  /\ Goto("hlt")
  /\ UNCHANGED << prioVars, intrVars, idle_thread, semaVars, lockVars, callVars, timerVars >>

-----------------------------------------------------------------------------
(* devices/timer.c.  Ticks only matter relative to each other, so the      *)
(* model keeps what is left of every sleep.                                *)

(* timer_sleep: interrupts are off until the thread is blocked.            *)
TimerSleep(n) ==
  /\ At("run")
  /\ remaining' = [remaining EXCEPT ![current] = n]
  /\ \E i \in StrictInsertPoints(sleeping_threads, remaining, n) :
       sleeping_threads' = InsertAt(sleeping_threads, i, current)
  /\ Call(current, "run")
  /\ Goto("down")
  /\ UNCHANGED << runVars, prioVars, intrVars, idle_thread, semaVars, lockVars,
                  newPriority, donee, child >>

(* The timer interrupts the running thread wherever interrupts are on.     *)
TimerInterrupt ==
  /\ ~in_intr /\ pc[current] \notin IntrOff
  /\ in_intr' = TRUE
  /\ yield_on_return' = FALSE
  /\ remaining' = [t \in Threads |-> IF remaining[t] > 0 THEN remaining[t] - 1 ELSE 0]
  /\ UNCHANGED << runVars, prioVars, idle_thread, pc, semaVars, lockVars, callVars,
                  sleeping_threads >>

(* Mutation of SleeperDue: it rings one tick early.                        *)
SleeperDueEarly == sleeping_threads # << >> /\ remaining[Head(sleeping_threads)] <= 1

(* The loop of timer_interrupt: the first sleeper is due.                  *)
SleeperDue == sleeping_threads # << >> /\ remaining[Head(sleeping_threads)] = 0

(* yield_if_necessary, called by sema_up in the handler, only asks for a   *)
(* yield when the interrupt returns.                                       *)
WakeSleeper ==
  /\ in_intr /\ SleeperDue
  /\ sleeping_threads' = Tail(sleeping_threads)
  /\ SemaUpBody(Head(sleeping_threads))
  /\ yield_on_return' = (yield_on_return \/ ShouldYield(ready_list'))
  /\ UNCHANGED << in_intr, prioVars, idle_thread, pc, lockVars, callVars, remaining >>

(* thread_tick, and the end of intr_handler.                               *)
ReturnFromInterrupt ==
  /\ in_intr /\ ~SleeperDue
  /\ in_intr' = FALSE
  /\ yield_on_return' = FALSE
  /\ pc' = IF pc[current] = "hlt" THEN [pc EXCEPT ![current] = "idle_loop"] ELSE pc
  /\ IF yield_on_return \/ SliceOver
     THEN ThreadYield
     ELSE /\ thread_ticks' = thread_ticks + 1
          /\ UNCHANGED << status, current, ready_list, cpu_ready_count >>
  /\ UNCHANGED << prioVars, idle_thread, semaVars, lockVars, callVars, timerVars >>

-----------------------------------------------------------------------------
(* The clients: the code under "run" calls what it likes, one call at a    *)
(* time; the free-standing semaphores it uses are not idle_started.        *)
Request ==
  \/ "create" \in Ops /\ \E u \in Threads, p \in Priorities : ThreadCreate(u, p)
  \/ "exit" \in Ops /\ Exit
  \/ "yield" \in Ops /\ Yield
  \/ "setprio" \in Ops /\ \E p \in Priorities : SetPriority(p)
  \/ "sema" \in Ops /\ \E s \in Semaphores \ {IdleStarted} : SemaDown(s) \/ SemaUp(s)
  \/ "trydown" \in Ops /\ \E s \in Semaphores \ {IdleStarted} : SemaTryDown(s)
  \/ "lock" \in Ops /\ \E l \in Locks \ {TidLock} : LockAcquire(l) \/ LockRelease(l)
  \/ "trylock" \in Ops /\ \E l \in Locks \ {TidLock} : LockTryAcquire(l)

(* The rest of a call, once made.                                          *)
Progress ==
  \/ Down \/ Up \/ YieldIfNecessary \/ YieldNow \/ Donate \/ Recalculate
  \/ AssignPriority \/ TryHold \/ CreateRelease \/ CreateUnblock

Boot == ThreadStart \/ WaitForIdle \/ IdleStart

Interrupt == TimerInterrupt \/ WakeSleeper \/ ReturnFromInterrupt

Next ==
  \/ (Request \/ Progress) /\ UNCHANGED timerVars
  \/ "sleep" \in Ops /\ \E n \in Naps : TimerSleep(n)
  \/ Boot \/ IdleBlock \/ Interrupt

Spec == Init /\ [][Next]_vars
=============================================================================
