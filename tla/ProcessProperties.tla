------------------------- MODULE ProcessProperties -------------------------
(***************************************************************************)
(* What exec, wait and exit promise, and what keeps the two objects that   *)
(* parent and child share alive for as long as either may use them.        *)
(***************************************************************************)
EXTENDS Processes

Places ==
  {"none", "user", "load", "signal", "signal_failed", "failed", "exec_down",
   "exec_link", "run_task", "wait_find", "wait_down", "wait_read", "notify",
   "notify_up", "exit", "destroy", "read", "mark", "unlock", "free", "dead"}

ProcessInfo ==
  [state : {"unused", "live", "freed"}, exit_code : ExitCodes \cup {Killed},
   observer_seen : BOOLEAN, wait_lock : 0 .. 1, someone_died : BOOLEAN,
   died_lock : Process \cup {NULL}]

ProcessAux ==
  [state : {"unused", "live", "freed"}, success : BOOLEAN, signaler : 0 .. 1]

(* Every variable has its type.  In particular the semaphores of the two   *)
(* objects are never raised twice, and a process in an operation on a      *)
(* child has one.                                                          *)
TypeOK ==
  /\ pc \in [Process -> Places]
  /\ arg \in [Process -> Process \cup {NULL}]
  /\ \A p \in Process : pc[p] \in {"exec_down", "exec_link", "run_task", "wait_find",
                                  "wait_down", "wait_read"} => arg[p] # NULL
  /\ child_infos \in [Process -> Seq(Process)]
  /\ code \in [Process -> ExitCodes \cup {Killed}]
  /\ someone_died \in [Process -> BOOLEAN]
  /\ result \in [Process -> [child : Process \cup {NULL}, code : ExitCodes \cup {Killed}]]
  /\ info \in [Process -> ProcessInfo]
  /\ aux \in [Process -> ProcessAux]

(* The process_info_t's that the next step of a process reads or writes.   *)
Touches(p) ==
  CASE pc[p] \in {"load", "failed", "notify", "notify_up"} -> {p}
    [] pc[p] \in {"user", "exit"} -> ToSet(child_infos[p]) \cup ({p} \ {Main})
    [] pc[p] \in {"wait_down", "wait_read"} -> {arg[p]}
    [] pc[p] \in {"run_task", "wait_find"} -> ToSet(child_infos[p])
    [] pc[p] = "exec_link" -> IF aux[arg[p]].success THEN {arg[p]} ELSE {}
    [] pc[p] \in {"destroy", "read", "mark", "unlock", "free"} ->
         ToSet(child_infos[p]) \cup {p}
    [] OTHER -> {}

TouchesAux(p) ==
  CASE pc[p] \in {"load", "signal", "signal_failed"} -> {p}
    [] pc[p] \in {"exec_down", "exec_link"} -> {arg[p]}
    [] OTHER -> {}

(* Neither object is used after it was freed, nor freed twice, whichever   *)
(* of parent and child goes first and whether or not load succeeds.  The   *)
(* initial thread has no process_info to read in process_exit and is let   *)
(* stop there.                                                             *)
NoUseAfterFree ==
  \A p \in Process :
    /\ \A q \in Touches(p) : info[q].state = "live"
    /\ \A q \in TouchesAux(p) : aux[q].state = "live"

(* Nothing is leaked: an object that is still allocated has somebody left  *)
(* to free it, the process itself or a parent that has it in its list or   *)
(* is about to put it there.                                               *)
WillFree(p, q) ==
  pc[p] # "dead" /\ (p = q \/ q \in ToSet(child_infos[p]) \/ q \in TouchesAux(p))

NoLeak ==
  \A q \in Process :
    /\ info[q].state = "live" => \E p \in Process : WillFree(p, q)
    /\ aux[q].state = "live" => \E p \in Process \ {q} : q \in TouchesAux(p)

(* Who has left thread_signal_observer, or never comes to it.              *)
HasExited(q) == pc[q] \in {"exit", "destroy", "read", "mark", "unlock", "free", "dead"}

CodeLeft(p) == IF HasExited(p) THEN code[p] ELSE NULL
WaitsFor(p) == IF pc[p] \in {"wait_find", "wait_down", "wait_read"} THEN arg[p] ELSE NULL

Waits == INSTANCE WaitSpec WITH
  Codes    <- ExitCodes \cup {Killed},
  children <- [p \in Process |-> ToSet(child_infos[p])],
  exitCode <- [p \in Process |-> CodeLeft(p)],
  asking   <- [p \in Process |-> WaitsFor(p)],
  waited   <- { q \in Process : info[q].observer_seen },
  answer   <- result

(* Wait does what its comment says: the first wait for a child ends only   *)
(* when the child has exited and returns the code it exited with, -1 when  *)
(* it was killed; a second one, and one for a stranger, returns -1.        *)
ImplementsWaitSpec == Waits!Spec

(* An exec returns, whether the program loads or not.                      *)
ExecReturns == \A p \in Process : pc[p] = "exec_down" ~> pc[p] = "exec_link"

(* A wait for a child that exits returns.                                  *)
WaitReturns ==
  \A p \in Process :
    pc[p] = "wait_down" /\ pc[arg[p]] = "exit" ~> pc[p] # "wait_down"

(* Whoever begins to exit ends: no two of them wait for each other's       *)
(* someone_died_lock.                                                      *)
ExitEnds == \A p \in Process : pc[p] = "destroy" ~> pc[p] = "dead"
=============================================================================
