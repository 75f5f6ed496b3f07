----------------------------- MODULE Processes -----------------------------
(***************************************************************************)
(* User processes: exec, wait and exit (userprog/process.c, the user       *)
(* program part of threads/thread.c, exit_process of userprog/syscall.c).  *)
(*                                                                         *)
(* Parent and child share two heap objects.  A process_aux_t carries the   *)
(* outcome of load from the child to process_execute, which frees it.  A   *)
(* process_info_t carries the exit code to process_wait, and the last of   *)
(* the two to exit frees it.  Both are named after the child.              *)
(*                                                                         *)
(* Processes are preempted anywhere.  A step is what a process does up to  *)
(* the next place where another one can tell the difference; semaphores    *)
(* and locks are those of SynchSpec.                                       *)
(***************************************************************************)
EXTENDS Integers, Sequences, SequencesExt

CONSTANTS
  Process,      (* the processes, each created once                        *)
  Main,         (* the initial thread, which has no process_info           *)
  NULL,
  ExitCodes     (* the codes user programs exit with                       *)

Killed == -1

ASSUME ProcessAssumption ==
  /\ Main \in Process /\ NULL \notin Process \cup ExitCodes \cup {Killed}
  /\ ExitCodes \subseteq Nat

VARIABLES
  pc, arg,          (* where a process is, and the child it deals with     *)
  child_infos,      (* the children linked into its list                   *)
  code,             (* argument of thread_signal_observer                  *)
  someone_died,     (* the local variable of ProcessInfoTryToDestroy       *)
  result,           (* the last child waited for, and what wait returned   *)
  info,             (* process_info_t                                      *)
  aux               (* process_aux_t and its signaler                      *)

locals == << child_infos, code, someone_died, result >>
vars == << pc, arg, locals, info, aux >>

User(p) == pc[p] = "user"

Goto(p, l) == pc' = [pc EXCEPT ![p] = l]

NoInfo == [state |-> "unused", exit_code |-> Killed, observer_seen |-> FALSE,
           wait_lock |-> 0, someone_died |-> FALSE, died_lock |-> NULL]
NoAux  == [state |-> "unused", success |-> FALSE, signaler |-> 0]

Init ==
  /\ pc = [p \in Process |-> IF p = Main THEN "user" ELSE "none"]
  /\ arg = [p \in Process |-> NULL]
  /\ child_infos = [p \in Process |-> << >>]
  /\ code = [p \in Process |-> Killed]
  /\ someone_died = [p \in Process |-> FALSE]
  /\ result = [p \in Process |-> [child |-> NULL, code |-> Killed]]
  /\ info = [p \in Process |-> NoInfo]
  /\ aux = [p \in Process |-> NoAux]

-----------------------------------------------------------------------------
(* process_execute, up to the end of thread_create.  When that fails all   *)
(* that was allocated is freed and nothing remains of the call.            *)
Exec(p, q) ==
  /\ User(p) /\ pc[q] = "none"
  /\ info' = [info EXCEPT ![q] = [NoInfo EXCEPT !.state = "live"]]
  /\ aux' = [aux EXCEPT ![q] = [NoAux EXCEPT !.state = "live"]]
  /\ arg' = [arg EXCEPT ![p] = q]
  /\ pc' = [pc EXCEPT ![p] = "exec_down", ![q] = "load"]
  /\ UNCHANGED locals

(* start_process up to the outcome of load, which it keeps in a local      *)
(* variable of its own.                                                    *)
Load(p) ==
  /\ pc[p] = "load"
  /\ \E success \in BOOLEAN :
       /\ aux' = [aux EXCEPT ![p].success = success]
       /\ Goto(p, IF success THEN "signal" ELSE "signal_failed")
  /\ UNCHANGED << arg, locals, info >>

(* Mutation of Signals: only a successful load is signalled.               *)
SignalsSuccess(p) == pc[p] = "signal"

(* What start_process adds to the signaler.                                *)
Signals(p) == TRUE

Signal(p) ==
  /\ pc[p] \in {"signal", "signal_failed"}
  /\ aux' = [aux EXCEPT ![p].signaler = IF Signals(p) THEN @ + 1 ELSE @]
  /\ Goto(p, IF pc[p] = "signal" THEN "user" ELSE "failed")
  /\ UNCHANGED << arg, locals, info >>

(* A process that was not loaded counts its parent as dead and exits       *)
(* without a signal.                                                       *)
LoadFailed(p) ==
  /\ pc[p] = "failed"
  /\ info' = [info EXCEPT ![p].exit_code = Killed, ![p].someone_died = TRUE]
  /\ Goto(p, "exit")
  /\ UNCHANGED << arg, locals, aux >>

ExecDown(p) ==
  /\ pc[p] = "exec_down" /\ aux[arg[p]].signaler > 0
  /\ aux' = [aux EXCEPT ![arg[p]].signaler = @ - 1]
  /\ Goto(p, "exec_link")
  /\ UNCHANGED << arg, locals, info >>

(* Mutation of Links: a child that failed to load is linked too.           *)
LinksAlways(q) == TRUE

Links(q) == aux[q].success

(* The rest of process_execute.  run_task, the only caller in the initial  *)
(* thread, goes on to wait for the child.                                  *)
ExecReturn(p) ==
  /\ pc[p] = "exec_link"
  /\ child_infos' = [child_infos EXCEPT ![p] = IF Links(arg[p]) THEN Append(@, arg[p]) ELSE @]
  /\ aux' = [aux EXCEPT ![arg[p]].state = "freed"]
  /\ Goto(p, IF p = Main THEN "run_task" ELSE "user")
  /\ UNCHANGED << arg, code, someone_died, result, info >>

-----------------------------------------------------------------------------
(* Mutation of Waitable: the status can be asked for again.                *)
WaitableAgain(p, q) == q \in ToSet(child_infos[p])

(* The child that process_wait finds in the list.                          *)
Waitable(p, q) == q \in ToSet(child_infos[p]) /\ ~info[q].observer_seen

(* A user program calls wait, for any number it likes; run_task waits for  *)
(* the program it has started.                                             *)
WaitCall(p, q) ==
  /\ \/ User(p) /\ p # Main
     \/ pc[p] = "run_task" /\ q = arg[p]
  /\ arg' = [arg EXCEPT ![p] = q]
  /\ Goto(p, "wait_find")
  /\ UNCHANGED << locals, info, aux >>

(* process_wait, up to sema_down or to the return of -1.                   *)
Wait(p) ==
  /\ pc[p] = "wait_find"
  /\ IF Waitable(p, arg[p])
     THEN Goto(p, "wait_down") /\ UNCHANGED result
     ELSE /\ Goto(p, "user")
          /\ result' = [result EXCEPT ![p] = [child |-> arg[p], code |-> Killed]]
  /\ UNCHANGED << arg, child_infos, code, someone_died, info, aux >>

(* Mutation of HasSignalled: no waiting for the child.                     *)
HasSignalledAlways(q) == TRUE

HasSignalled(q) == info[q].wait_lock > 0

WaitDown(p) ==
  /\ pc[p] = "wait_down" /\ HasSignalled(arg[p])
  /\ info' = [info EXCEPT ![arg[p]].wait_lock = @ - 1]
  /\ Goto(p, "wait_read")
  /\ UNCHANGED << arg, locals, aux >>

WaitReturn(p) ==
  /\ pc[p] = "wait_read"
  /\ result' = [result EXCEPT ![p] = [child |-> arg[p], code |-> info[arg[p]].exit_code]]
  /\ info' = [info EXCEPT ![arg[p]].observer_seen = TRUE]
  /\ Goto(p, "user")
  /\ UNCHANGED << arg, child_infos, code, someone_died, aux >>

-----------------------------------------------------------------------------
(* exit_process, up to the call of thread_signal_observer.                 *)
ExitProcess(p, c) ==
  /\ User(p) /\ p # Main
  /\ info' = [info EXCEPT ![p].exit_code = c]
  /\ code' = [code EXCEPT ![p] = c]
  /\ Goto(p, "notify")
  /\ UNCHANGED << arg, child_infos, someone_died, result, aux >>

(* A process killed for a bad pointer or an exception: -1 goes straight to *)
(* thread_signal_observer.                                                 *)
Kill(p) ==
  /\ User(p) /\ p # Main
  /\ code' = [code EXCEPT ![p] = Killed]
  /\ Goto(p, "notify")
  /\ UNCHANGED << arg, child_infos, someone_died, result, info, aux >>

(* The end of main, unless option -q has turned the machine off by then:   *)
(* thread_signal_observer does nothing without a process_info.             *)
MainExit ==
  /\ User(Main)
  /\ Goto(Main, "exit")
  /\ UNCHANGED << arg, locals, info, aux >>

(* thread_signal_observer.                                                 *)
NotifyCode(p) ==
  /\ pc[p] = "notify"
  /\ info' = [info EXCEPT ![p].exit_code = code[p]]
  /\ Goto(p, "notify_up")
  /\ UNCHANGED << arg, locals, aux >>

(* Mutation of NotifyUp: the process signals once more than it exits.      *)
NotifyUpTwice(p) ==
  /\ pc[p] = "notify_up"
  /\ info' = [info EXCEPT ![p].wait_lock = @ + 2]
  /\ Goto(p, "exit")
  /\ UNCHANGED << arg, locals, aux >>

NotifyUp(p) ==
  /\ pc[p] = "notify_up"
  /\ info' = [info EXCEPT ![p].wait_lock = @ + 1]
  /\ Goto(p, "exit")
  /\ UNCHANGED << arg, locals, aux >>

(* process_exit reads the exit code.  The initial thread has none to read  *)
(* and faults in the kernel; what that does to the others is left out.     *)
ProcessExit(p) ==
  /\ pc[p] = "exit" /\ p # Main
  /\ Goto(p, "destroy")
  /\ UNCHANGED << arg, locals, info, aux >>

-----------------------------------------------------------------------------
(* thread_destroy_userprog_features: ProcessInfoTryToDestroy of every      *)
(* child still in the list, then of the process itself.                    *)
Target(p) == IF child_infos[p] = << >> THEN p ELSE Head(child_infos[p])

DestroyNext(p) ==
  /\ Goto(p, IF Target(p) = p THEN "dead" ELSE "destroy")
  /\ child_infos' = [child_infos EXCEPT ![p] = IF @ = << >> THEN @ ELSE Tail(@)]

(* Mutation of Unlocked: someone_died_lock is not taken.                   *)
UnlockedAlways(q) == TRUE

Unlocked(q) == info[q].died_lock = NULL

DestroyAcquire(p) ==
  /\ pc[p] = "destroy" /\ Unlocked(Target(p))
  /\ info' = [info EXCEPT ![Target(p)].died_lock = p]
  /\ Goto(p, "read")
  /\ UNCHANGED << arg, locals, aux >>

DestroyRead(p) ==
  /\ pc[p] = "read"
  /\ someone_died' = [someone_died EXCEPT ![p] = info[Target(p)].someone_died]
  /\ Goto(p, "mark")
  /\ UNCHANGED << arg, child_infos, code, result, info, aux >>

DestroyMark(p) ==
  /\ pc[p] = "mark"
  /\ info' = [info EXCEPT ![Target(p)].someone_died = TRUE]
  /\ Goto(p, "unlock")
  /\ UNCHANGED << arg, locals, aux >>

(* Mutation of Frees: the first to exit frees.                             *)
FreesFirst(p) == ~someone_died[p]

Frees(p) == someone_died[p]

(* Mutation of DestroyRelease: the lock is kept.                           *)
DestroyReleaseForgets(p) ==
  /\ pc[p] = "unlock"
  /\ IF Frees(p) THEN Goto(p, "free") /\ UNCHANGED child_infos
                 ELSE DestroyNext(p)
  /\ UNCHANGED << arg, code, someone_died, result, info, aux >>

DestroyRelease(p) ==
  /\ pc[p] = "unlock"
  /\ info' = [info EXCEPT ![Target(p)].died_lock = NULL]
  /\ IF Frees(p) THEN Goto(p, "free") /\ UNCHANGED child_infos
                 ELSE DestroyNext(p)
  /\ UNCHANGED << arg, code, someone_died, result, aux >>

DestroyFree(p) ==
  /\ pc[p] = "free"
  /\ info' = [info EXCEPT ![Target(p)].state = "freed"]
  /\ DestroyNext(p)
  /\ UNCHANGED << arg, code, someone_died, result, aux >>

-----------------------------------------------------------------------------
(* The kernel code a process runs through once it is in it.                *)
KernelCode(p) ==
  \/ Load(p) \/ Signal(p) \/ LoadFailed(p)
  \/ ExecDown(p) \/ ExecReturn(p)
  \/ p = Main /\ WaitCall(p, arg[p])
  \/ Wait(p) \/ WaitDown(p) \/ WaitReturn(p)
  \/ NotifyCode(p) \/ NotifyUp(p) \/ ProcessExit(p)
  \/ DestroyAcquire(p) \/ DestroyRead(p) \/ DestroyMark(p)
  \/ DestroyRelease(p) \/ DestroyFree(p)

(* What a user program asks for.                                           *)
Program(p) ==
  \/ \E q \in Process : Exec(p, q)
  \/ p # Main /\ \E q \in Process : WaitCall(p, q)
  \/ \E c \in ExitCodes : ExitProcess(p, c)
  \/ Kill(p)

Next == MainExit \/ \E p \in Process : KernelCode(p) \/ Program(p)

Spec == Init /\ [][Next]_vars

(* All processes have one priority and run in turn (ReadyRuns of the       *)
(* kernel), so one that can go on in the kernel does.  User programs need  *)
(* not ask for anything.                                                   *)
FairSpec == Spec /\ \A p \in Process : WF_vars(KernelCode(p))
=============================================================================
