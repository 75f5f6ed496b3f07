---------------------------- MODULE ProcessProofs ----------------------------
(***************************************************************************)
(* Proofs about the processes of Pintos: that process_info_t and           *)
(* process_aux_t are neither used after they are freed nor lost, and what  *)
(* wait returns, for every set of processes and of exit codes.             *)
(*                                                                         *)
(* Two parties share each object without a reference count: they go by one *)
(* flag each (someone_died, success) and by who is where in his code.  The *)
(* invariant therefore says for every place of one what the other knows.   *)
(* A child is minded while its parent is yet to give up its                *)
(* process_info_t: it is in the list of the parent, or about to be put in. *)
(***************************************************************************)
EXTENDS ProcessProperties, TLAPS

(* Places: where the code of the child is known, where it is not loaded.   *)
Exited == {"exit", "destroy", "read", "mark", "unlock", "free", "dead"}
Loading  == {"load", "signal_failed", "failed"}
Starting == Loading \cup {"none", "signal"}

(* p is at the process_info_t of Target(p) in ProcessInfoTryToDestroy: it  *)
(* has the lock; it has marked it; it is about to free it.                 *)
HasLock == {"read", "mark", "unlock"}
Marked(p, q) == pc[p] \in {"unlock", "free"} /\ Target(p) = q

Children(p) == ToSet(child_infos[p])
InExec(p, q) == pc[p] \in {"exec_down", "exec_link"} /\ arg[p] = q
InList(p, q) == q \in Children(p)

(* q has a parent that is to destroy its process_info_t.                   *)
Minds(p, q) == InList(p, q) \/ (InExec(p, q) /\ aux[q].success)
Minded(q) == \E p \in Process : Minds(p, q)

(* Places of a process.                                                    *)
PlaceInv ==
  /\ pc[Main] \in {"user", "exec_down", "exec_link", "run_task", "wait_find",
                   "wait_down", "wait_read", "exit"}
  /\ \A p \in Process :
       /\ pc[p] = "run_task" => p = Main
       /\ pc[p] \in {"wait_down", "wait_read"} => InList(p, arg[p])
       /\ pc[p] \in Starting \cup {"dead"} => child_infos[p] = << >>

(* Every process has one parent, and is once in its list.                  *)
FamilyInv ==
  /\ \A p \in Process : IsInjective(child_infos[p])
  /\ \A p, q \in Process :
       /\ InList(p, q) => p # q /\ q # Main /\ pc[q] \notin Starting
       /\ InExec(p, q) => p # q /\ q # Main /\ pc[q] # "none"
       /\ InList(p, q) => \A r \in Process : ~InExec(r, q)
  /\ \A p, r, q \in Process :
       \/ InList(p, q) /\ InList(r, q)
       \/ InExec(p, q) /\ InExec(r, q)
       => p = r

(* The process_aux_t lives while process_execute is at work, and the child *)
(* is done with it before.                                                 *)
AuxInv ==
  \A q \in Process :
    /\ aux[q].state = "live" <=> \E p \in Process : InExec(p, q)
    /\ pc[q] \in {"load", "signal", "signal_failed"} =>
         aux[q].signaler = 0 /\ \E p \in Process : pc[p] = "exec_down" /\ arg[p] = q
    /\ pc[q] \in Loading => ~aux[q].success
    /\ pc[q] = "signal" => aux[q].success

(* The process_info_t is freed by the last of child and parent.  A child   *)
(* that was not loaded has no parent there.                                *)
InfoInv ==
  \A q \in Process :
    IF q = Main \/ pc[q] = "none" THEN info[q] = NoInfo
    ELSE /\ pc[q] = "load" => ~info[q].someone_died
         /\ info[q].state = IF pc[q] = "dead" /\ ~Minded(q) THEN "freed" ELSE "live"
         /\ pc[q] \notin Loading =>
              (info[q].someone_died <=>
                 pc[q] = "dead" \/ ~Minded(q) \/ \E p \in Process : Marked(p, q))

(* The other one has done with Target(p).                                  *)
IsLast(p) == IF Target(p) = p THEN ~Minded(p) ELSE pc[Target(p)] = "dead"

DestroyInv ==
  \A p \in Process :
    /\ pc[p] \in HasLock => info[Target(p)].died_lock = p
    /\ pc[p] \in {"mark", "unlock"} => (someone_died[p] <=> IsLast(p))
    /\ pc[p] = "free" => IsLast(p)

(* The code to hand over, and the semaphore it is handed over with.        *)
CodeInv ==
  \A q \in Process :
    /\ pc[q] \notin Exited => info[q].wait_lock = 0
    /\ pc[q] \in Exited \cup {"notify_up"} => info[q].exit_code = code[q]
    /\ pc[q] \notin Exited \cup {"notify", "notify_up"} => code[q] = Killed

(* A process is in the middle of a wait only for a child it has not waited *)
(* for yet, and past sema_down only for one that has exited.               *)
WaitInv ==
  \A p \in Process :
    /\ pc[p] \in {"wait_down", "wait_read"} => ~info[arg[p]].observer_seen
    /\ pc[p] = "wait_read" => pc[arg[p]] \in Exited

ProcessInv ==
  TypeOK /\ PlaceInv /\ FamilyInv /\ AuxInv /\ InfoInv /\ DestroyInv /\ CodeInv /\ WaitInv

-----------------------------------------------------------------------------
LEMMA TargetFacts ==
  ASSUME TypeOK, NEW x \in Process
  PROVE  /\ Target(x) \in Process
         /\ Target(x) # x => InList(x, Target(x))
         /\ Target(x) = x => child_infos[x] = << >> \/ InList(x, x)
         /\ child_infos[x] = << >> => Children(x) = {} /\ Target(x) = x
<1>1. child_infos[x] \in Seq(Process)
  BY DEF TypeOK
<1>2. CASE child_infos[x] = << >>
  BY <1>2 DEF Target, Children, ToSet
<1>3. CASE child_infos[x] # << >>
  <2>1. 1 \in DOMAIN child_infos[x] /\ Head(child_infos[x]) = child_infos[x][1]
    BY <1>1, <1>3
  <2>2. Head(child_infos[x]) \in Children(x) /\ Head(child_infos[x]) \in Process
    BY <1>1, <1>3, <2>1 DEF Children, ToSet
  <2>3. QED BY <1>3, <2>2 DEF Target, InList
<1>4. QED BY <1>2, <1>3

(* What a step of p that changes no list and no outcome of load leaves.    *)
Steady(p) ==
  /\ child_infos' = child_infos
  /\ \A x \in Process \ {p} : pc'[x] = pc[x] /\ arg'[x] = arg[x]
  /\ \A q \in Process : InExec(p, q)' <=> InExec(p, q)
  /\ \A q \in Process : aux'[q].success = aux[q].success

LEMMA SteadyFacts ==
  ASSUME NEW p \in Process, Steady(p)
  PROVE  /\ \A x \in Process : Children(x)' = Children(x) /\ Target(x)' = Target(x)
         /\ \A x, q \in Process : InList(x, q)' <=> InList(x, q)
         /\ \A x, q \in Process : InExec(x, q)' <=> InExec(x, q)
         /\ \A q \in Process : Minded(q)' <=> Minded(q)
<1>1. \A x \in Process : Children(x)' = Children(x) /\ Target(x)' = Target(x)
  BY DEF Steady, Children, Target
<1>2. \A x, q \in Process : InList(x, q)' <=> InList(x, q)
  BY <1>1 DEF InList
<1>3. \A x, q \in Process : InExec(x, q)' <=> InExec(x, q)
  BY DEF Steady, InExec
<1>4. \A x, q \in Process : Minds(x, q)' <=> Minds(x, q)
  BY <1>2, <1>3 DEF Minds, Steady
<1>5. \A q \in Process : Minded(q)' <=> Minded(q)
  BY <1>4 DEF Minded
<1>6. QED BY <1>1, <1>2, <1>3, <1>5

(* Writes to the shared objects.                                           *)
LEMMA InfoWrite ==
  ASSUME TypeOK, NEW q \in Process, NEW r \in ProcessInfo, info' = [info EXCEPT ![q] = r]
  PROVE  /\ info' \in [Process -> ProcessInfo] /\ info'[q] = r
         /\ \A x \in Process \ {q} : info'[x] = info[x]
BY DEF TypeOK

LEMMA AuxWrite ==
  ASSUME TypeOK, NEW q \in Process, NEW r \in ProcessAux, aux' = [aux EXCEPT ![q] = r]
  PROVE  /\ aux' \in [Process -> ProcessAux] /\ aux'[q] = r
         /\ \A x \in Process \ {q} : aux'[x] = aux[x]
BY DEF TypeOK

(* Most steps begin no wait, answer none, and bring nobody back to life.   *)
LEMMA WaitFrame ==
  ASSUME ProcessInv,
         \A x \in Process : pc'[x] \in {"wait_down", "wait_read"} =>
                             pc'[x] = pc[x] /\ arg'[x] = arg[x],
         \A x \in Process : pc[x] \in Exited => pc'[x] \in Exited,
         \A x \in Process : info'[x].observer_seen => info[x].observer_seen
  PROVE  WaitInv'
<1> SUFFICES ASSUME NEW p \in Process, pc'[p] \in {"wait_down", "wait_read"}
             PROVE  /\ ~info'[arg'[p]].observer_seen
                    /\ pc'[p] = "wait_read" => pc'[arg'[p]] \in Exited
  BY DEF WaitInv
<1>1. pc'[p] = pc[p] /\ arg'[p] = arg[p] /\ arg[p] \in Process
  BY ProcessAssumption DEF ProcessInv, TypeOK
<1>2. QED BY <1>1 DEF ProcessInv, WaitInv

InDestroy == {"destroy", "read", "mark", "unlock", "free"}

(* A process that exits only comes to processes that were loaded.          *)
LEMMA TargetUsed ==
  ASSUME ProcessInv, NEW p \in Process, pc[p] \in InDestroy
  PROVE  Target(p) \in Process /\ Target(p) # Main /\ pc[Target(p)] \notin Starting
<1>1. Target(p) \in Process /\ (Target(p) # p => InList(p, Target(p)))
  BY TargetFacts DEF ProcessInv
<1>2. p # Main /\ pc[p] \notin Starting
  BY DEF ProcessInv, PlaceInv, InDestroy, Starting, Loading
<1>3. QED BY <1>1, <1>2 DEF ProcessInv, FamilyInv

(* No two processes are at work on one process_info_t.                     *)
AtWork == HasLock \cup {"free"}

LEMMA Apart ==
  ASSUME ProcessInv, NEW p \in Process, NEW x \in Process, x # p,
         pc[p] \in AtWork, pc[x] \in AtWork
  PROVE  Target(p) # Target(x)
<1> SUFFICES ASSUME Target(p) = Target(x) PROVE FALSE
  OBVIOUS
<1>1. ASSUME NEW y \in Process, NEW z \in Process, y # z, Target(y) = Target(z),
             pc[y] = "free", pc[z] \in AtWork
      PROVE  FALSE
  <2>1. IsLast(y) /\ pc[z] # "dead"
    BY <1>1 DEF ProcessInv, DestroyInv, AtWork, HasLock
  <2>2. CASE Target(y) = y
    <3>1. InList(z, y)
      BY <1>1, <2>2, TargetFacts DEF ProcessInv
    <3>2. QED BY <1>1, <2>1, <2>2, <3>1 DEF IsLast, Minded, Minds
  <2>3. CASE Target(y) # y
    <3>1. InList(y, Target(y)) /\ pc[Target(y)] = "dead" /\ Target(y) \in Process
      BY <1>1, <2>1, <2>3, TargetFacts DEF ProcessInv, IsLast
    <3>2. InList(z, Target(y))
      BY <1>1, <2>1, <3>1, TargetFacts DEF ProcessInv
    <3>3. QED BY <1>1, <3>1, <3>2 DEF ProcessInv, FamilyInv
  <2>4. QED BY <2>2, <2>3
<1>2. CASE pc[p] \in HasLock /\ pc[x] \in HasLock
  BY <1>2 DEF ProcessInv, DestroyInv
<1>3. QED BY <1>1, <1>2 DEF AtWork

LEMMA SignalStep ==
  ASSUME ProcessInv, NEW p \in Process, Signal(p)
  PROVE  ProcessInv'
<1>1. /\ pc[p] \in {"signal", "signal_failed"}
      /\ pc' = [pc EXCEPT ![p] = IF pc[p] = "signal" THEN "user" ELSE "failed"]
      /\ UNCHANGED << arg, child_infos, code, someone_died, result, info >>
  BY DEF Signal, Goto, locals
<1>2. /\ pc'[p] = (IF pc[p] = "signal" THEN "user" ELSE "failed")
      /\ \A x \in Process \ {p} : pc'[x] = pc[x]
  BY <1>1 DEF ProcessInv, TypeOK
<1>3. /\ p \in Process /\ aux[p] \in ProcessAux
      /\ aux' = [aux EXCEPT ![p] = [aux[p] EXCEPT !.signaler = aux[p].signaler + 1]]
  BY DEF Signal, ProcessInv, TypeOK, Signals
<1>4. [aux[p] EXCEPT !.signaler = aux[p].signaler + 1] \in ProcessAux
  BY <1>1, <1>3 DEF ProcessAux, ProcessInv, AuxInv
<1>5. /\ aux' \in [Process -> ProcessAux]
      /\ \A x \in Process \ {p} : aux'[x] = aux[x]
      /\ aux'[p].state = aux[p].state
      /\ aux'[p].success = aux[p].success
      /\ aux'[p].signaler = aux[p].signaler + 1
  <2> DEFINE r == [aux[p] EXCEPT !.signaler = aux[p].signaler + 1]
  <2>1. aux' \in [Process -> ProcessAux] /\ aux'[p] = r
        /\ \A x \in Process \ {p} : aux'[x] = aux[x]
    BY <1>3, <1>4, AuxWrite DEF ProcessInv
  <2>2. QED BY <2>1
<1>6. Steady(p)
  <2>1. pc'[p] \in {"user", "failed"}
    BY <1>2
  <2>2. QED BY <1>1, <1>5 DEF Steady, InExec
<1>7. TypeOK'
  BY <1>1, <1>5 DEF ProcessInv, TypeOK, Places
<1>8. PlaceInv'
  BY <1>1, <1>6, SteadyFacts DEF ProcessInv, PlaceInv, InList, Starting, Loading
<1>9. FamilyInv'
  BY <1>1, <1>6, SteadyFacts DEF ProcessInv, FamilyInv, Starting, Loading
<1>10. AuxInv'
  BY <1>1, <1>2, <1>3, <1>6, SteadyFacts DEF ProcessInv, AuxInv, Loading
<1>11. InfoInv'
  BY <1>1, <1>6, SteadyFacts DEF ProcessInv, InfoInv, Marked, Loading
<1>12. DestroyInv'
  BY <1>1, <1>6, SteadyFacts DEF ProcessInv, DestroyInv, HasLock, IsLast
<1>13. CodeInv'
  BY <1>1 DEF ProcessInv, CodeInv, Exited
<1>14. WaitInv'
  BY <1>1, <1>2, <1>3, <1>5, WaitFrame DEF ProcessInv, Exited
<1>15. QED BY <1>7, <1>8, <1>9, <1>10, <1>11, <1>12, <1>13, <1>14 DEF ProcessInv

LEMMA LoadFailedStep ==
  ASSUME ProcessInv, NEW p \in Process, LoadFailed(p)
  PROVE  ProcessInv'
<1>1. /\ pc[p] = "failed" /\ pc' = [pc EXCEPT ![p] = "exit"]
      /\ UNCHANGED << arg, child_infos, code, someone_died, result, aux >>
  BY DEF LoadFailed, Goto, locals
<1>2. pc'[p] = "exit" /\ \A x \in Process \ {p} : pc'[x] = pc[x]
  BY <1>1 DEF ProcessInv, TypeOK
<1>3. /\ p \in Process /\ info[p] \in ProcessInfo
      /\ info' = [info EXCEPT ![p] = [info[p] EXCEPT !.exit_code = Killed, !.someone_died = TRUE]]
  BY DEF LoadFailed, ProcessInv, TypeOK
<1>4. [info[p] EXCEPT !.exit_code = Killed, !.someone_died = TRUE] \in ProcessInfo
  BY <1>3 DEF ProcessInfo
<1>5. /\ info' \in [Process -> ProcessInfo]
      /\ \A x \in Process \ {p} : info'[x] = info[x]
      /\ info'[p].state = info[p].state
      /\ info'[p].exit_code = Killed
      /\ info'[p].observer_seen = info[p].observer_seen
      /\ info'[p].wait_lock = info[p].wait_lock
      /\ info'[p].someone_died = TRUE
      /\ info'[p].died_lock = info[p].died_lock
  <2> DEFINE r == [info[p] EXCEPT !.exit_code = Killed, !.someone_died = TRUE]
  <2>1. info' \in [Process -> ProcessInfo] /\ info'[p] = r
        /\ \A x \in Process \ {p} : info'[x] = info[x]
    BY <1>3, <1>4, InfoWrite DEF ProcessInv
  <2>2. QED BY <2>1
<1>6. Steady(p)
  BY <1>1 DEF Steady, InExec
<1>fact. ~Minded(p)
  BY <1>1 DEF ProcessInv, FamilyInv, AuxInv, Minded, Minds, Loading, Starting
<1>7. TypeOK'
  BY <1>1, <1>5 DEF ProcessInv, TypeOK, Places
<1>8. PlaceInv'
  BY <1>1, <1>6, SteadyFacts DEF ProcessInv, PlaceInv, InList, Starting, Loading
<1>9. FamilyInv'
  BY <1>1, <1>6, SteadyFacts DEF ProcessInv, FamilyInv, Starting, Loading
<1>10. AuxInv'
  BY <1>1, <1>6, SteadyFacts DEF ProcessInv, AuxInv, Loading
<1>11. InfoInv'
  BY <1>1, <1>5, <1>6, SteadyFacts, <1>fact DEF ProcessInv, InfoInv, Marked, PlaceInv
<1>12. DestroyInv'
  BY <1>1, <1>3, <1>6, SteadyFacts DEF ProcessInv, DestroyInv, HasLock, IsLast
<1>13. CodeInv'
  BY <1>1, <1>5 DEF ProcessInv, CodeInv, Exited
<1>14. WaitInv'
  BY <1>1, <1>2, <1>3, <1>5, WaitFrame DEF ProcessInv, Exited
<1>15. QED BY <1>7, <1>8, <1>9, <1>10, <1>11, <1>12, <1>13, <1>14 DEF ProcessInv

LEMMA ExecDownStep ==
  ASSUME ProcessInv, NEW p \in Process, ExecDown(p)
  PROVE  ProcessInv'
<1>1. /\ pc[p] = "exec_down" /\ pc' = [pc EXCEPT ![p] = "exec_link"]
      /\ UNCHANGED << arg, child_infos, code, someone_died, result, info >>
  BY DEF ExecDown, Goto, locals
<1>2. pc'[p] = "exec_link" /\ \A x \in Process \ {p} : pc'[x] = pc[x]
  BY <1>1 DEF ProcessInv, TypeOK
<1>3. /\ arg[p] \in Process /\ aux[arg[p]] \in ProcessAux
      /\ aux' = [aux EXCEPT ![arg[p]] = [aux[arg[p]] EXCEPT !.signaler = aux[arg[p]].signaler - 1]]
  BY DEF ExecDown, ProcessInv, TypeOK
<1>4. [aux[arg[p]] EXCEPT !.signaler = aux[arg[p]].signaler - 1] \in ProcessAux
  BY <1>3 DEF ExecDown, ProcessAux
<1>5. /\ aux' \in [Process -> ProcessAux]
      /\ \A x \in Process \ {arg[p]} : aux'[x] = aux[x]
      /\ aux'[arg[p]].state = aux[arg[p]].state
      /\ aux'[arg[p]].success = aux[arg[p]].success
      /\ aux'[arg[p]].signaler = aux[arg[p]].signaler - 1
  <2> DEFINE r == [aux[arg[p]] EXCEPT !.signaler = aux[arg[p]].signaler - 1]
  <2>1. aux' \in [Process -> ProcessAux] /\ aux'[arg[p]] = r
        /\ \A x \in Process \ {arg[p]} : aux'[x] = aux[x]
    BY <1>3, <1>4, AuxWrite DEF ProcessInv
  <2>2. QED BY <2>1
<1>6. Steady(p)
  BY <1>1, <1>3 DEF Steady, InExec
<1>fact. pc[arg[p]] \notin {"load", "signal", "signal_failed"}
  <2>1. aux[arg[p]].signaler > 0
    BY DEF ExecDown
  <2>2. QED BY <1>3, <2>1 DEF ProcessInv, AuxInv
<1>7. TypeOK'
  BY <1>1, <1>5 DEF ProcessInv, TypeOK, Places
<1>8. PlaceInv'
  BY <1>1, <1>6, SteadyFacts DEF ProcessInv, PlaceInv, InList, Starting, Loading
<1>9. FamilyInv'
  BY <1>1, <1>6, SteadyFacts DEF ProcessInv, FamilyInv, Starting, Loading
<1>10. AuxInv'
  BY <1>1, <1>3, <1>6, SteadyFacts, <1>fact DEF ProcessInv, AuxInv, Loading
<1>11. InfoInv'
  BY <1>1, <1>6, SteadyFacts DEF ProcessInv, InfoInv, Marked, Loading
<1>12. DestroyInv'
  BY <1>1, <1>6, SteadyFacts DEF ProcessInv, DestroyInv, HasLock, IsLast
<1>13. CodeInv'
  BY <1>1 DEF ProcessInv, CodeInv, Exited
<1>14. WaitInv'
  BY <1>1, <1>2, <1>3, <1>5, WaitFrame DEF ProcessInv, Exited
<1>15. QED BY <1>7, <1>8, <1>9, <1>10, <1>11, <1>12, <1>13, <1>14 DEF ProcessInv

LEMMA WaitDownStep ==
  ASSUME ProcessInv, NEW p \in Process, WaitDown(p)
  PROVE  ProcessInv'
<1>1. /\ pc[p] = "wait_down" /\ pc' = [pc EXCEPT ![p] = "wait_read"]
      /\ UNCHANGED << arg, child_infos, code, someone_died, result, aux >>
  BY DEF WaitDown, Goto, locals
<1>2. pc'[p] = "wait_read" /\ \A x \in Process \ {p} : pc'[x] = pc[x]
  BY <1>1 DEF ProcessInv, TypeOK
<1>3. /\ arg[p] \in Process /\ info[arg[p]] \in ProcessInfo
      /\ info' = [info EXCEPT ![arg[p]] = [info[arg[p]] EXCEPT !.wait_lock = info[arg[p]].wait_lock - 1]]
  BY DEF WaitDown, ProcessInv, TypeOK
<1>4. [info[arg[p]] EXCEPT !.wait_lock = info[arg[p]].wait_lock - 1] \in ProcessInfo
  <2>1. info[arg[p]].wait_lock \in 0 .. 1 /\ info[arg[p]].wait_lock > 0
    BY <1>3 DEF ProcessInfo, WaitDown, HasSignalled
  <2>2. info[arg[p]].wait_lock - 1 \in 0 .. 1
    BY <2>1
  <2>3. QED BY <1>3, <2>2 DEF ProcessInfo
<1>5. /\ info' \in [Process -> ProcessInfo]
      /\ \A x \in Process \ {arg[p]} : info'[x] = info[x]
      /\ info'[arg[p]].state = info[arg[p]].state
      /\ info'[arg[p]].exit_code = info[arg[p]].exit_code
      /\ info'[arg[p]].observer_seen = info[arg[p]].observer_seen
      /\ info'[arg[p]].wait_lock = info[arg[p]].wait_lock - 1
      /\ info'[arg[p]].someone_died = info[arg[p]].someone_died
      /\ info'[arg[p]].died_lock = info[arg[p]].died_lock
  <2> DEFINE r == [info[arg[p]] EXCEPT !.wait_lock = info[arg[p]].wait_lock - 1]
  <2>1. info' \in [Process -> ProcessInfo] /\ info'[arg[p]] = r
        /\ \A x \in Process \ {arg[p]} : info'[x] = info[x]
    BY <1>3, <1>4, InfoWrite DEF ProcessInv
  <2>2. QED BY <2>1
<1>6. Steady(p)
  BY <1>1 DEF Steady, InExec
<1>fact. arg[p] # Main /\ pc[arg[p]] \notin Starting /\ pc[arg[p]] \in Exited
  <2>1. info[arg[p]].wait_lock > 0
    BY DEF WaitDown, HasSignalled
  <2>2. InList(p, arg[p])
    BY <1>1 DEF ProcessInv, PlaceInv
  <2>3. QED BY <1>3, <2>1, <2>2 DEF ProcessInv, FamilyInv, CodeInv
<1>7. TypeOK'
  BY <1>1, <1>5 DEF ProcessInv, TypeOK, Places
<1>8. PlaceInv'
  BY <1>1, <1>6, SteadyFacts DEF ProcessInv, PlaceInv, InList, Starting, Loading
<1>9. FamilyInv'
  BY <1>1, <1>6, SteadyFacts DEF ProcessInv, FamilyInv, Starting, Loading
<1>10. AuxInv'
  BY <1>1, <1>6, SteadyFacts DEF ProcessInv, AuxInv, Loading
<1>11. InfoInv'
  BY <1>1, <1>3, <1>6, SteadyFacts, <1>fact DEF ProcessInv, InfoInv, Marked, Loading,
       Starting
<1>12. DestroyInv'
  BY <1>1, <1>3, <1>6, SteadyFacts DEF ProcessInv, DestroyInv, HasLock, IsLast
<1>13. CodeInv'
  BY <1>1, <1>3, <1>fact DEF ProcessInv, CodeInv, Exited
<1>14. WaitInv'
  <2>1. \A x \in Process : info'[x].observer_seen = info[x].observer_seen
    BY <1>3, <1>5
  <2>2. \A x \in Process : pc'[x] \in {"wait_down", "wait_read"} => arg[x] \in Process
    BY <1>1, <1>2, <1>3, ProcessAssumption DEF ProcessInv, TypeOK
  <2>3. \A x \in Process : pc[x] \in Exited => pc'[x] \in Exited
    BY <1>1, <1>2 DEF Exited
  <2>4. QED BY <1>1, <1>2, <1>3, <1>fact, <2>1, <2>2, <2>3 DEF ProcessInv, WaitInv
<1>15. QED BY <1>7, <1>8, <1>9, <1>10, <1>11, <1>12, <1>13, <1>14 DEF ProcessInv

LEMMA WaitReturnStep ==
  ASSUME ProcessInv, NEW p \in Process, WaitReturn(p)
  PROVE  ProcessInv'
<1>1. /\ pc[p] = "wait_read" /\ pc' = [pc EXCEPT ![p] = "user"]
      /\ UNCHANGED << arg, child_infos, code, someone_died, aux >>
  BY DEF WaitReturn, Goto
<1>2. pc'[p] = "user" /\ \A x \in Process \ {p} : pc'[x] = pc[x]
  BY <1>1 DEF ProcessInv, TypeOK
<1>3. /\ arg[p] \in Process /\ info[arg[p]] \in ProcessInfo
      /\ info' = [info EXCEPT ![arg[p]] = [info[arg[p]] EXCEPT !.observer_seen = TRUE]]
  BY DEF WaitReturn, ProcessInv, TypeOK
<1>4. [info[arg[p]] EXCEPT !.observer_seen = TRUE] \in ProcessInfo
  BY <1>3 DEF ProcessInfo
<1>5. /\ info' \in [Process -> ProcessInfo]
      /\ \A x \in Process \ {arg[p]} : info'[x] = info[x]
      /\ info'[arg[p]].state = info[arg[p]].state
      /\ info'[arg[p]].exit_code = info[arg[p]].exit_code
      /\ info'[arg[p]].observer_seen = TRUE
      /\ info'[arg[p]].wait_lock = info[arg[p]].wait_lock
      /\ info'[arg[p]].someone_died = info[arg[p]].someone_died
      /\ info'[arg[p]].died_lock = info[arg[p]].died_lock
  <2> DEFINE r == [info[arg[p]] EXCEPT !.observer_seen = TRUE]
  <2>1. info' \in [Process -> ProcessInfo] /\ info'[arg[p]] = r
        /\ \A x \in Process \ {arg[p]} : info'[x] = info[x]
    BY <1>3, <1>4, InfoWrite DEF ProcessInv
  <2>2. QED BY <2>1
<1>6. Steady(p)
  BY <1>1 DEF Steady, InExec
<1>fact. arg[p] # Main /\ pc[arg[p]] \notin Starting
  <2>1. InList(p, arg[p])
    BY <1>1 DEF ProcessInv, PlaceInv
  <2>2. QED BY <1>3, <2>1 DEF ProcessInv, FamilyInv
<1>7. TypeOK'
  BY <1>1, <1>5 DEF ProcessInv, TypeOK, Places, WaitReturn, ProcessInfo
<1>8. PlaceInv'
  BY <1>1, <1>6, SteadyFacts DEF ProcessInv, PlaceInv, InList, Starting, Loading
<1>9. FamilyInv'
  BY <1>1, <1>6, SteadyFacts DEF ProcessInv, FamilyInv, Starting, Loading
<1>10. AuxInv'
  BY <1>1, <1>6, SteadyFacts DEF ProcessInv, AuxInv, Loading
<1>11. InfoInv'
  BY <1>1, <1>3, <1>6, SteadyFacts, <1>fact DEF ProcessInv, InfoInv, Marked, Loading,
       Starting
<1>12. DestroyInv'
  BY <1>1, <1>3, <1>6, SteadyFacts DEF ProcessInv, DestroyInv, HasLock, IsLast
<1>13. CodeInv'
  BY <1>1, <1>3, ProcessAssumption DEF ProcessInv, CodeInv, Exited, WaitReturn
<1>14. WaitInv'
  <2>1. \A x \in Process : pc'[x] \in {"wait_down", "wait_read"} =>
                             x # p /\ pc'[x] = pc[x] /\ arg[x] \in Process /\ InList(x, arg[x])
    BY <1>2, ProcessAssumption DEF ProcessInv, TypeOK, PlaceInv
  <2>2. \A x \in Process : pc'[x] \in {"wait_down", "wait_read"} => arg[x] # arg[p]
    BY <1>1, <1>3, <2>1 DEF ProcessInv, PlaceInv, FamilyInv
  <2>3. \A x \in Process : pc[x] \in Exited => pc'[x] \in Exited
    BY <1>1, <1>2 DEF Exited
  <2>4. QED BY <1>1, <1>5, <2>1, <2>2, <2>3 DEF ProcessInv, WaitInv
<1>15. QED BY <1>7, <1>8, <1>9, <1>10, <1>11, <1>12, <1>13, <1>14 DEF ProcessInv

LEMMA ExitProcessStep ==
  ASSUME ProcessInv, NEW p \in Process, NEW c \in ExitCodes, ExitProcess(p, c)
  PROVE  ProcessInv'
<1>1. /\ pc[p] = "user" /\ pc' = [pc EXCEPT ![p] = "notify"]
      /\ UNCHANGED << arg, child_infos, someone_died, result, aux >>
  BY DEF ExitProcess, Goto, User
<1>2. pc'[p] = "notify" /\ \A x \in Process \ {p} : pc'[x] = pc[x]
  BY <1>1 DEF ProcessInv, TypeOK
<1>3. /\ p \in Process /\ info[p] \in ProcessInfo
      /\ info' = [info EXCEPT ![p] = [info[p] EXCEPT !.exit_code = c]]
  BY DEF ExitProcess, ProcessInv, TypeOK
<1>4. [info[p] EXCEPT !.exit_code = c] \in ProcessInfo
  BY <1>3 DEF ProcessInfo
<1>5. /\ info' \in [Process -> ProcessInfo]
      /\ \A x \in Process \ {p} : info'[x] = info[x]
      /\ info'[p].state = info[p].state
      /\ info'[p].exit_code = c
      /\ info'[p].observer_seen = info[p].observer_seen
      /\ info'[p].wait_lock = info[p].wait_lock
      /\ info'[p].someone_died = info[p].someone_died
      /\ info'[p].died_lock = info[p].died_lock
  <2> DEFINE r == [info[p] EXCEPT !.exit_code = c]
  <2>1. info' \in [Process -> ProcessInfo] /\ info'[p] = r
        /\ \A x \in Process \ {p} : info'[x] = info[x]
    BY <1>3, <1>4, InfoWrite DEF ProcessInv
  <2>2. QED BY <2>1
<1>6. Steady(p)
  BY <1>1 DEF Steady, InExec
<1>7. TypeOK'
  BY <1>1, <1>5 DEF ProcessInv, TypeOK, Places, ExitProcess
<1>8. PlaceInv'
  BY <1>1, <1>6, SteadyFacts
  DEF ProcessInv, PlaceInv, InList, Starting, Loading, ExitProcess
<1>9. FamilyInv'
  BY <1>1, <1>6, SteadyFacts DEF ProcessInv, FamilyInv, Starting, Loading
<1>10. AuxInv'
  BY <1>1, <1>6, SteadyFacts DEF ProcessInv, AuxInv, Loading
<1>11. InfoInv'
  BY <1>1, <1>6, SteadyFacts DEF ProcessInv, InfoInv, Marked, Loading, ExitProcess
<1>12. DestroyInv'
  BY <1>1, <1>3, <1>6, SteadyFacts DEF ProcessInv, DestroyInv, HasLock, IsLast
<1>13. CodeInv'
  BY <1>1, <1>2 DEF ProcessInv, CodeInv, Exited, ExitProcess
<1>14. WaitInv'
  BY <1>1, <1>2, <1>3, <1>5, WaitFrame DEF ProcessInv, Exited
<1>15. QED BY <1>7, <1>8, <1>9, <1>10, <1>11, <1>12, <1>13, <1>14 DEF ProcessInv

LEMMA KillStep ==
  ASSUME ProcessInv, NEW p \in Process, Kill(p)
  PROVE  ProcessInv'
<1>1. /\ pc[p] = "user" /\ pc' = [pc EXCEPT ![p] = "notify"]
      /\ UNCHANGED << arg, child_infos, someone_died, result, info, aux >>
  BY DEF Kill, Goto, User
<1>2. pc'[p] = "notify" /\ \A x \in Process \ {p} : pc'[x] = pc[x]
  BY <1>1 DEF ProcessInv, TypeOK
<1>6. Steady(p)
  BY <1>1 DEF Steady, InExec
<1>7. TypeOK'
  BY <1>1 DEF ProcessInv, TypeOK, Places, Kill
<1>8. PlaceInv'
  BY <1>1, <1>6, SteadyFacts DEF ProcessInv, PlaceInv, InList, Starting, Loading, Kill
<1>9. FamilyInv'
  BY <1>1, <1>6, SteadyFacts DEF ProcessInv, FamilyInv, Starting, Loading
<1>10. AuxInv'
  BY <1>1, <1>6, SteadyFacts DEF ProcessInv, AuxInv, Loading
<1>11. InfoInv'
  BY <1>1, <1>6, SteadyFacts DEF ProcessInv, InfoInv, Marked, Loading
<1>12. DestroyInv'
  BY <1>1, <1>6, SteadyFacts DEF ProcessInv, DestroyInv, HasLock, IsLast
<1>13. CodeInv'
  BY <1>1 DEF ProcessInv, CodeInv, Exited, Kill
<1>14. WaitInv'
  BY <1>1, <1>2, WaitFrame DEF ProcessInv, Exited
<1>15. QED BY <1>7, <1>8, <1>9, <1>10, <1>11, <1>12, <1>13, <1>14 DEF ProcessInv

LEMMA NotifyCodeStep ==
  ASSUME ProcessInv, NEW p \in Process, NotifyCode(p)
  PROVE  ProcessInv'
<1>1. /\ pc[p] = "notify" /\ pc' = [pc EXCEPT ![p] = "notify_up"]
      /\ UNCHANGED << arg, child_infos, code, someone_died, result, aux >>
  BY DEF NotifyCode, Goto, locals
<1>2. pc'[p] = "notify_up" /\ \A x \in Process \ {p} : pc'[x] = pc[x]
  BY <1>1 DEF ProcessInv, TypeOK
<1>3. /\ p \in Process /\ info[p] \in ProcessInfo
      /\ info' = [info EXCEPT ![p] = [info[p] EXCEPT !.exit_code = code[p]]]
  BY DEF NotifyCode, ProcessInv, TypeOK
<1>4. [info[p] EXCEPT !.exit_code = code[p]] \in ProcessInfo
  BY <1>3 DEF ProcessInfo, ProcessInv, TypeOK
<1>5. /\ info' \in [Process -> ProcessInfo]
      /\ \A x \in Process \ {p} : info'[x] = info[x]
      /\ info'[p].state = info[p].state
      /\ info'[p].exit_code = code[p]
      /\ info'[p].observer_seen = info[p].observer_seen
      /\ info'[p].wait_lock = info[p].wait_lock
      /\ info'[p].someone_died = info[p].someone_died
      /\ info'[p].died_lock = info[p].died_lock
  <2> DEFINE r == [info[p] EXCEPT !.exit_code = code[p]]
  <2>1. info' \in [Process -> ProcessInfo] /\ info'[p] = r
        /\ \A x \in Process \ {p} : info'[x] = info[x]
    BY <1>3, <1>4, InfoWrite DEF ProcessInv
  <2>2. QED BY <2>1
<1>6. Steady(p)
  BY <1>1 DEF Steady, InExec
<1>7. TypeOK'
  BY <1>1, <1>5 DEF ProcessInv, TypeOK, Places
<1>8. PlaceInv'
  BY <1>1, <1>6, SteadyFacts DEF ProcessInv, PlaceInv, InList, Starting, Loading
<1>9. FamilyInv'
  BY <1>1, <1>6, SteadyFacts DEF ProcessInv, FamilyInv, Starting, Loading
<1>10. AuxInv'
  BY <1>1, <1>6, SteadyFacts DEF ProcessInv, AuxInv, Loading
<1>11. InfoInv'
  BY <1>1, <1>3, <1>6, SteadyFacts DEF ProcessInv, InfoInv, Marked, Loading, PlaceInv
<1>12. DestroyInv'
  BY <1>1, <1>3, <1>6, SteadyFacts DEF ProcessInv, DestroyInv, HasLock, IsLast
<1>13. CodeInv'
  BY <1>1, <1>5 DEF ProcessInv, CodeInv, Exited
<1>14. WaitInv'
  BY <1>1, <1>2, <1>3, <1>5, WaitFrame DEF ProcessInv, Exited
<1>15. QED BY <1>7, <1>8, <1>9, <1>10, <1>11, <1>12, <1>13, <1>14 DEF ProcessInv

LEMMA NotifyUpStep ==
  ASSUME ProcessInv, NEW p \in Process, NotifyUp(p)
  PROVE  ProcessInv'
<1>1. /\ pc[p] = "notify_up" /\ pc' = [pc EXCEPT ![p] = "exit"]
      /\ UNCHANGED << arg, child_infos, code, someone_died, result, aux >>
  BY DEF NotifyUp, Goto, locals
<1>2. pc'[p] = "exit" /\ \A x \in Process \ {p} : pc'[x] = pc[x]
  BY <1>1 DEF ProcessInv, TypeOK
<1>3. /\ p \in Process /\ info[p] \in ProcessInfo
      /\ info' = [info EXCEPT ![p] = [info[p] EXCEPT !.wait_lock = info[p].wait_lock + 1]]
  BY DEF NotifyUp, ProcessInv, TypeOK
<1>4. [info[p] EXCEPT !.wait_lock = info[p].wait_lock + 1] \in ProcessInfo
  <2>1. info[p].wait_lock = 0
    BY <1>1 DEF ProcessInv, CodeInv, Exited
  <2>2. QED BY <1>3, <2>1 DEF ProcessInfo
<1>5. /\ info' \in [Process -> ProcessInfo]
      /\ \A x \in Process \ {p} : info'[x] = info[x]
      /\ info'[p].state = info[p].state
      /\ info'[p].exit_code = info[p].exit_code
      /\ info'[p].observer_seen = info[p].observer_seen
      /\ info'[p].wait_lock = info[p].wait_lock + 1
      /\ info'[p].someone_died = info[p].someone_died
      /\ info'[p].died_lock = info[p].died_lock
  <2> DEFINE r == [info[p] EXCEPT !.wait_lock = info[p].wait_lock + 1]
  <2>1. info' \in [Process -> ProcessInfo] /\ info'[p] = r
        /\ \A x \in Process \ {p} : info'[x] = info[x]
    BY <1>3, <1>4, InfoWrite DEF ProcessInv
  <2>2. QED BY <2>1
<1>6. Steady(p)
  BY <1>1 DEF Steady, InExec
<1>7. TypeOK'
  BY <1>1, <1>5 DEF ProcessInv, TypeOK, Places
<1>8. PlaceInv'
  BY <1>1, <1>6, SteadyFacts DEF ProcessInv, PlaceInv, InList, Starting, Loading
<1>9. FamilyInv'
  BY <1>1, <1>6, SteadyFacts DEF ProcessInv, FamilyInv, Starting, Loading
<1>10. AuxInv'
  BY <1>1, <1>6, SteadyFacts DEF ProcessInv, AuxInv, Loading
<1>11. InfoInv'
  BY <1>1, <1>3, <1>6, SteadyFacts DEF ProcessInv, InfoInv, Marked, Loading, PlaceInv
<1>12. DestroyInv'
  BY <1>1, <1>3, <1>6, SteadyFacts DEF ProcessInv, DestroyInv, HasLock, IsLast
<1>13. CodeInv'
  BY <1>1, <1>2, <1>3 DEF ProcessInv, CodeInv, Exited
<1>14. WaitInv'
  BY <1>1, <1>2, <1>3, <1>5, WaitFrame DEF ProcessInv, Exited
<1>15. QED BY <1>7, <1>8, <1>9, <1>10, <1>11, <1>12, <1>13, <1>14 DEF ProcessInv

LEMMA ProcessExitStep ==
  ASSUME ProcessInv, NEW p \in Process, ProcessExit(p)
  PROVE  ProcessInv'
<1>1. /\ pc[p] = "exit" /\ pc' = [pc EXCEPT ![p] = "destroy"]
      /\ UNCHANGED << arg, child_infos, code, someone_died, result, info, aux >>
  BY DEF ProcessExit, Goto, locals
<1>2. pc'[p] = "destroy" /\ \A x \in Process \ {p} : pc'[x] = pc[x]
  BY <1>1 DEF ProcessInv, TypeOK
<1>6. Steady(p)
  BY <1>1 DEF Steady, InExec
<1>7. TypeOK'
  BY <1>1 DEF ProcessInv, TypeOK, Places
<1>8. PlaceInv'
  BY <1>1, <1>6, SteadyFacts
  DEF ProcessInv, PlaceInv, InList, Starting, Loading, ProcessExit
<1>9. FamilyInv'
  BY <1>1, <1>6, SteadyFacts DEF ProcessInv, FamilyInv, Starting, Loading
<1>10. AuxInv'
  BY <1>1, <1>6, SteadyFacts DEF ProcessInv, AuxInv, Loading
<1>11. InfoInv'
  BY <1>1, <1>6, SteadyFacts DEF ProcessInv, InfoInv, Marked, Loading
<1>12. DestroyInv'
  BY <1>1, <1>6, SteadyFacts DEF ProcessInv, DestroyInv, HasLock, IsLast
<1>13. CodeInv'
  BY <1>1 DEF ProcessInv, CodeInv, Exited
<1>14. WaitInv'
  BY <1>1, <1>2, WaitFrame DEF ProcessInv, Exited
<1>15. QED BY <1>7, <1>8, <1>9, <1>10, <1>11, <1>12, <1>13, <1>14 DEF ProcessInv

LEMMA DestroyAcquireStep ==
  ASSUME ProcessInv, NEW p \in Process, DestroyAcquire(p)
  PROVE  ProcessInv'
<1>1. /\ pc[p] = "destroy" /\ pc' = [pc EXCEPT ![p] = "read"]
      /\ UNCHANGED << arg, child_infos, code, someone_died, result, aux >>
  BY DEF DestroyAcquire, Goto, locals
<1>2. pc'[p] = "read" /\ \A x \in Process \ {p} : pc'[x] = pc[x]
  BY <1>1 DEF ProcessInv, TypeOK
<1>3. /\ Target(p) \in Process /\ info[Target(p)] \in ProcessInfo
      /\ info' = [info EXCEPT ![Target(p)] = [info[Target(p)] EXCEPT !.died_lock = p]]
  BY TargetFacts DEF DestroyAcquire, ProcessInv, TypeOK
<1>4. [info[Target(p)] EXCEPT !.died_lock = p] \in ProcessInfo
  BY <1>3 DEF ProcessInfo
<1>5. /\ info' \in [Process -> ProcessInfo]
      /\ \A x \in Process \ {Target(p)} : info'[x] = info[x]
      /\ info'[Target(p)].state = info[Target(p)].state
      /\ info'[Target(p)].exit_code = info[Target(p)].exit_code
      /\ info'[Target(p)].observer_seen = info[Target(p)].observer_seen
      /\ info'[Target(p)].wait_lock = info[Target(p)].wait_lock
      /\ info'[Target(p)].someone_died = info[Target(p)].someone_died
      /\ info'[Target(p)].died_lock = p
  <2> DEFINE r == [info[Target(p)] EXCEPT !.died_lock = p]
  <2>1. info' \in [Process -> ProcessInfo] /\ info'[Target(p)] = r
        /\ \A x \in Process \ {Target(p)} : info'[x] = info[x]
    BY <1>3, <1>4, InfoWrite DEF ProcessInv
  <2>2. QED BY <2>1
<1>6. Steady(p)
  BY <1>1 DEF Steady, InExec
<1>fact. Target(p) # Main /\ pc[Target(p)] \notin Starting
  BY <1>1, TargetUsed DEF InDestroy
<1>7. TypeOK'
  BY <1>1, <1>5 DEF ProcessInv, TypeOK, Places
<1>8. PlaceInv'
  BY <1>1, <1>6, SteadyFacts DEF ProcessInv, PlaceInv, InList, Starting, Loading
<1>9. FamilyInv'
  BY <1>1, <1>6, SteadyFacts DEF ProcessInv, FamilyInv, Starting, Loading
<1>10. AuxInv'
  BY <1>1, <1>6, SteadyFacts DEF ProcessInv, AuxInv, Loading
<1>11. InfoInv'
  BY <1>1, <1>3, <1>6, SteadyFacts, <1>fact DEF ProcessInv, InfoInv, Marked, Loading,
       Starting
<1>12. DestroyInv'
  <2>1. info[Target(p)].died_lock = NULL
    BY DEF DestroyAcquire, Unlocked
  <2>2. \A x \in Process : pc[x] \in HasLock => Target(x) # Target(p)
    BY <2>1, ProcessAssumption DEF ProcessInv, DestroyInv
  <2>3. QED
    BY <1>1, <1>5, <1>6, <2>2, SteadyFacts, TargetFacts DEF ProcessInv, DestroyInv, IsLast
<1>13. CodeInv'
  BY <1>1, <1>3 DEF ProcessInv, CodeInv, Exited
<1>14. WaitInv'
  BY <1>1, <1>2, <1>3, <1>5, WaitFrame DEF ProcessInv, Exited
<1>15. QED BY <1>7, <1>8, <1>9, <1>10, <1>11, <1>12, <1>13, <1>14 DEF ProcessInv

LEMMA DestroyReadStep ==
  ASSUME ProcessInv, NEW p \in Process, DestroyRead(p)
  PROVE  ProcessInv'
<1>1. /\ pc[p] = "read" /\ pc' = [pc EXCEPT ![p] = "mark"]
      /\ UNCHANGED << arg, child_infos, code, result, info, aux >>
  BY DEF DestroyRead, Goto
<1>2. pc'[p] = "mark" /\ \A x \in Process \ {p} : pc'[x] = pc[x]
  BY <1>1 DEF ProcessInv, TypeOK
<1>6. Steady(p)
  BY <1>1 DEF Steady, InExec
<1>fact. Target(p) # Main /\ pc[Target(p)] \notin Starting /\ Target(p) \in Process
  BY <1>1, TargetUsed DEF InDestroy
<1>7. TypeOK'
  BY <1>1, <1>fact DEF ProcessInv, TypeOK, Places, DestroyRead, ProcessInfo
<1>8. PlaceInv'
  BY <1>1, <1>6, SteadyFacts DEF ProcessInv, PlaceInv, InList, Starting, Loading
<1>9. FamilyInv'
  BY <1>1, <1>6, SteadyFacts DEF ProcessInv, FamilyInv, Starting, Loading
<1>10. AuxInv'
  BY <1>1, <1>6, SteadyFacts DEF ProcessInv, AuxInv, Loading
<1>11. InfoInv'
  BY <1>1, <1>6, SteadyFacts DEF ProcessInv, InfoInv, Marked, Loading
<1>12. DestroyInv'
  <2>1. ~ \E x \in Process : Marked(x, Target(p))
    BY <1>1, Apart DEF Marked, AtWork, HasLock
  <2>2. Target(p) # p => Minded(Target(p)) /\ ~(pc[p] = "dead")
    BY <1>1, TargetFacts DEF ProcessInv, Minded, Minds
  <2>3. info[Target(p)].someone_died <=> IsLast(p)
    BY <1>1, <1>fact, <2>1, <2>2 DEF ProcessInv, InfoInv, IsLast, Starting
  <2>4. IsLast(p)' <=> IsLast(p)
    BY <1>1, <1>6, SteadyFacts DEF IsLast
  <2>5. someone_died'[p] = info[Target(p)].someone_died
        /\ \A x \in Process \ {p} : someone_died'[x] = someone_died[x]
    BY DEF DestroyRead, ProcessInv, TypeOK
  <2>6. QED
    BY <1>1, <1>6, <2>3, <2>5, SteadyFacts DEF ProcessInv, DestroyInv, HasLock, IsLast
<1>13. CodeInv'
  BY <1>1 DEF ProcessInv, CodeInv, Exited
<1>14. WaitInv'
  BY <1>1, <1>2, WaitFrame DEF ProcessInv, Exited
<1>15. QED BY <1>7, <1>8, <1>9, <1>10, <1>11, <1>12, <1>13, <1>14 DEF ProcessInv

LEMMA DestroyMarkStep ==
  ASSUME ProcessInv, NEW p \in Process, DestroyMark(p)
  PROVE  ProcessInv'
<1>1. /\ pc[p] = "mark" /\ pc' = [pc EXCEPT ![p] = "unlock"]
      /\ UNCHANGED << arg, child_infos, code, someone_died, result, aux >>
  BY DEF DestroyMark, Goto, locals
<1>2. pc'[p] = "unlock" /\ \A x \in Process \ {p} : pc'[x] = pc[x]
  BY <1>1 DEF ProcessInv, TypeOK
<1>3. /\ Target(p) \in Process /\ info[Target(p)] \in ProcessInfo
      /\ info' = [info EXCEPT ![Target(p)] = [info[Target(p)] EXCEPT !.someone_died = TRUE]]
  BY TargetFacts DEF DestroyMark, ProcessInv, TypeOK
<1>4. [info[Target(p)] EXCEPT !.someone_died = TRUE] \in ProcessInfo
  BY <1>3 DEF ProcessInfo
<1>5. /\ info' \in [Process -> ProcessInfo]
      /\ \A x \in Process \ {Target(p)} : info'[x] = info[x]
      /\ info'[Target(p)].state = info[Target(p)].state
      /\ info'[Target(p)].exit_code = info[Target(p)].exit_code
      /\ info'[Target(p)].observer_seen = info[Target(p)].observer_seen
      /\ info'[Target(p)].wait_lock = info[Target(p)].wait_lock
      /\ info'[Target(p)].someone_died = TRUE
      /\ info'[Target(p)].died_lock = info[Target(p)].died_lock
  <2> DEFINE r == [info[Target(p)] EXCEPT !.someone_died = TRUE]
  <2>1. info' \in [Process -> ProcessInfo] /\ info'[Target(p)] = r
        /\ \A x \in Process \ {Target(p)} : info'[x] = info[x]
    BY <1>3, <1>4, InfoWrite DEF ProcessInv
  <2>2. QED BY <2>1
<1>6. Steady(p)
  BY <1>1 DEF Steady, InExec
<1>fact. Target(p) # Main /\ pc[Target(p)] \notin Starting
  BY <1>1, TargetUsed DEF InDestroy
<1>7. TypeOK'
  BY <1>1, <1>5 DEF ProcessInv, TypeOK, Places
<1>8. PlaceInv'
  BY <1>1, <1>6, SteadyFacts DEF ProcessInv, PlaceInv, InList, Starting, Loading
<1>9. FamilyInv'
  BY <1>1, <1>6, SteadyFacts DEF ProcessInv, FamilyInv, Starting, Loading
<1>10. AuxInv'
  BY <1>1, <1>6, SteadyFacts DEF ProcessInv, AuxInv, Loading
<1>11. InfoInv'
  BY <1>1, <1>2, <1>5, <1>6, SteadyFacts, <1>fact
  DEF ProcessInv, InfoInv, Marked, Loading, Starting
<1>12. DestroyInv'
  BY <1>1, <1>3, <1>6, SteadyFacts DEF ProcessInv, DestroyInv, HasLock, IsLast
<1>13. CodeInv'
  BY <1>1, <1>3 DEF ProcessInv, CodeInv, Exited
<1>14. WaitInv'
  BY <1>1, <1>2, <1>3, <1>5, WaitFrame DEF ProcessInv, Exited
<1>15. QED BY <1>7, <1>8, <1>9, <1>10, <1>11, <1>12, <1>13, <1>14 DEF ProcessInv

LEMMA WaitCallStep ==
  ASSUME ProcessInv, NEW p \in Process, NEW q \in Process, WaitCall(p, q)
  PROVE  ProcessInv'
<1>1. /\ pc[p] \in {"user", "run_task"}
      /\ UNCHANGED << child_infos, code, someone_died, result, info, aux >>
      /\ arg'[p] = q /\ \A x \in Process \ {p} : arg'[x] = arg[x]
      /\ arg' \in [Process -> Process \cup {NULL}]
  BY DEF WaitCall, User, locals, ProcessInv, TypeOK
<1>2. /\ pc' \in [Process -> Places]
      /\ \A x \in Process \ {p} : pc'[x] = pc[x]
      /\ pc'[p] = "wait_find"
  BY DEF WaitCall, Goto, ProcessInv, TypeOK, Places
<1>3. Steady(p)
  BY <1>1, <1>2 DEF Steady, InExec
<1>4. TypeOK'
  BY <1>1, <1>2, ProcessAssumption DEF ProcessInv, TypeOK
<1>5. PlaceInv'
  <2>1. \A x \in Process : pc'[x] \in {"wait_down", "wait_read"} => InList(x, arg[x])'
    BY <1>1, <1>2, <1>3, SteadyFacts DEF ProcessInv, PlaceInv, InList
  <2>2. \A x \in Process : pc'[x] = "run_task" => x = Main
    BY <1>2 DEF ProcessInv, PlaceInv
  <2>3. QED
    BY <1>1, <1>2, <2>1, <2>2, ProcessAssumption
    DEF ProcessInv, PlaceInv, Starting, Loading
<1>6. FamilyInv'
  BY <1>1, <1>2, <1>3, SteadyFacts DEF ProcessInv, FamilyInv, Starting, Loading
<1>7. AuxInv'
  BY <1>1, <1>2, <1>3, SteadyFacts DEF ProcessInv, AuxInv, Loading
<1>8. InfoInv'
  <2>1. \A x, y \in Process : Marked(x, y)' <=> Marked(x, y)
    BY <1>1, <1>2, <1>3, SteadyFacts DEF Marked
  <2>2. QED
    BY <1>1, <1>2, <1>3, <2>1, SteadyFacts DEF ProcessInv, InfoInv, Loading
<1>9. DestroyInv'
  BY <1>1, <1>2, <1>3, SteadyFacts, TargetFacts DEF ProcessInv, DestroyInv, HasLock, IsLast
<1>10. CodeInv'
  BY <1>1, <1>2 DEF ProcessInv, CodeInv, Exited
<1>11. WaitInv'
  BY <1>1, <1>2, WaitFrame DEF ProcessInv, Exited
<1>12. QED BY <1>4, <1>5, <1>6, <1>7, <1>8, <1>9, <1>10, <1>11 DEF ProcessInv

LEMMA WaitStep ==
  ASSUME ProcessInv, NEW p \in Process, Wait(p)
  PROVE  ProcessInv'
<1> DEFINE q == arg[p]
<1>1. /\ pc[p] = "wait_find" /\ q \in Process
      /\ UNCHANGED << arg, child_infos, code, someone_died, info, aux >>
  BY DEF Wait, ProcessInv, TypeOK
<1>2. /\ pc' \in [Process -> Places]
      /\ \A x \in Process \ {p} : pc'[x] = pc[x]
      /\ pc'[p] \in {"wait_down", "user"} /\ (pc'[p] = "wait_down" => InList(p, q) /\ ~info[q].observer_seen)
  BY DEF Wait, Waitable, InList, Children, Goto, ProcessInv, TypeOK, Places
<1>res. result' \in [Process -> [child : Process \cup {NULL}, code : ExitCodes \cup {Killed}]]
  <2> DEFINE r == [child |-> q, code |-> Killed]
  <2>1. r \in [child : Process \cup {NULL}, code : ExitCodes \cup {Killed}]
    BY <1>1
  <2> HIDE DEF r
  <2>2. result' = result \/ result' = [result EXCEPT ![p] = r]
    BY DEF Wait, r
  <2>3. CASE result' = result
    BY <2>3 DEF ProcessInv, TypeOK
  <2>4. CASE result' = [result EXCEPT ![p] = r]
    <3>1. \A x \in Process : result'[x] = IF x = p THEN r ELSE result[x]
      BY <2>4 DEF ProcessInv, TypeOK
    <3>2. QED BY <2>1, <2>4, <3>1 DEF ProcessInv, TypeOK
  <2>5. QED BY <2>2, <2>3, <2>4
<1>3. Steady(p)
  BY <1>1, <1>2 DEF Steady, InExec
<1>4. TypeOK'
  BY <1>1, <1>2, <1>res, ProcessAssumption DEF ProcessInv, TypeOK
<1>5. PlaceInv'
  <2>1. \A x \in Process : pc'[x] \in {"wait_down", "wait_read"} => InList(x, arg[x])'
    BY <1>1, <1>2, <1>3, SteadyFacts DEF ProcessInv, PlaceInv, InList
  <2>2. \A x \in Process : pc'[x] = "run_task" => x = Main
    BY <1>2 DEF ProcessInv, PlaceInv
  <2>3. QED
    BY <1>1, <1>2, <2>1, <2>2, ProcessAssumption
    DEF ProcessInv, PlaceInv, Starting, Loading
<1>6. FamilyInv'
  BY <1>1, <1>2, <1>3, SteadyFacts DEF ProcessInv, FamilyInv, Starting, Loading
<1>7. AuxInv'
  BY <1>1, <1>2, <1>3, SteadyFacts DEF ProcessInv, AuxInv, Loading
<1>8. InfoInv'
  <2>1. \A x, y \in Process : Marked(x, y)' <=> Marked(x, y)
    BY <1>1, <1>2, <1>3, SteadyFacts DEF Marked
  <2>2. QED
    BY <1>1, <1>2, <1>3, <2>1, SteadyFacts DEF ProcessInv, InfoInv, Loading
<1>9. DestroyInv'
  BY <1>1, <1>2, <1>3, SteadyFacts, TargetFacts DEF ProcessInv, DestroyInv, HasLock, IsLast
<1>10. CodeInv'
  BY <1>1, <1>2, <1>res DEF ProcessInv, CodeInv, Exited
<1>11. WaitInv'
  <2>1. \A x \in Process : pc[x] \in Exited <=> pc'[x] \in Exited
    BY <1>1, <1>2 DEF Exited
  <2>2. \A x \in Process : pc'[x] \in {"wait_down", "wait_read"} => arg[x] \in Process
    BY <1>1, <1>2, ProcessAssumption DEF ProcessInv, TypeOK
  <2>3. QED BY <1>1, <1>2, <2>1, <2>2 DEF ProcessInv, WaitInv
<1>12. QED BY <1>4, <1>5, <1>6, <1>7, <1>8, <1>9, <1>10, <1>11 DEF ProcessInv

LEMMA MainExitStep ==
  ASSUME ProcessInv, MainExit
  PROVE  ProcessInv'
<1>1. /\ pc[Main] = "user" /\ pc' = [pc EXCEPT ![Main] = "exit"]
      /\ UNCHANGED << arg, child_infos, code, someone_died, result, info, aux >>
  BY DEF MainExit, User, Goto, locals
<1>2. Main \in Process /\ pc'[Main] = "exit" /\ \A x \in Process \ {Main} : pc'[x] = pc[x]
  BY <1>1, ProcessAssumption DEF ProcessInv, TypeOK
<1>3. Steady(Main)
  BY <1>1, <1>2 DEF Steady, InExec
<1>4. TypeOK'
  BY <1>1, <1>2 DEF ProcessInv, TypeOK, Places
<1>5. PlaceInv'
  BY <1>1, <1>2, <1>3, SteadyFacts DEF ProcessInv, PlaceInv, InList, Starting, Loading
<1>6. FamilyInv'
  BY <1>1, <1>2, <1>3, SteadyFacts DEF ProcessInv, FamilyInv, Starting, Loading
<1>7. AuxInv'
  BY <1>1, <1>2, <1>3, SteadyFacts DEF ProcessInv, AuxInv, Loading
<1>8. InfoInv'
  BY <1>1, <1>2, <1>3, SteadyFacts, TargetFacts
  DEF ProcessInv, InfoInv, Marked, Loading, Starting, PlaceInv
<1>9. DestroyInv'
  BY <1>1, <1>2, <1>3, SteadyFacts, TargetFacts DEF ProcessInv, DestroyInv, HasLock, IsLast
<1>10. CodeInv'
  BY <1>1, <1>2 DEF ProcessInv, CodeInv, InfoInv, NoInfo, Exited
<1>11. WaitInv'
  BY <1>1, <1>2, <1>3, <1>5, WaitFrame DEF ProcessInv, Exited
<1>12. QED BY <1>4, <1>5, <1>6, <1>7, <1>8, <1>9, <1>10, <1>11 DEF ProcessInv

LEMMA LoadStep ==
  ASSUME ProcessInv, NEW p \in Process, Load(p)
  PROVE  ProcessInv'
<1> PICK success \in BOOLEAN :
      /\ pc[p] = "load"
      /\ aux' = [aux EXCEPT ![p] = [aux[p] EXCEPT !.success = success]]
      /\ pc' = [pc EXCEPT ![p] = IF success THEN "signal" ELSE "signal_failed"]
      /\ UNCHANGED << arg, child_infos, code, someone_died, result, info >>
  BY DEF Load, Goto, locals
<1>1. pc'[p] = (IF success THEN "signal" ELSE "signal_failed")
      /\ \A x \in Process \ {p} : pc'[x] = pc[x]
  BY DEF ProcessInv, TypeOK
<1>2. /\ aux' \in [Process -> ProcessAux]
      /\ \A x \in Process \ {p} : aux'[x] = aux[x]
      /\ aux'[p].success = success /\ aux'[p].state = aux[p].state
      /\ aux'[p].signaler = aux[p].signaler
  <2> DEFINE r == [aux[p] EXCEPT !.success = success]
  <2>1. aux[p] \in ProcessAux
    BY DEF ProcessInv, TypeOK
  <2>2. r \in ProcessAux
    BY <2>1 DEF ProcessAux
  <2>3. aux' \in [Process -> ProcessAux] /\ aux'[p] = r
        /\ \A x \in Process \ {p} : aux'[x] = aux[x]
    BY <2>2, AuxWrite DEF ProcessInv
  <2>4. QED BY <2>1, <2>3 DEF ProcessAux
<1>3. /\ \A x \in Process : Children(x)' = Children(x) /\ Target(x)' = Target(x)
      /\ \A x, q \in Process : InList(x, q)' <=> InList(x, q)
      /\ \A x, q \in Process : InExec(x, q)' <=> InExec(x, q)
  <2>1. \A x \in Process : Children(x)' = Children(x) /\ Target(x)' = Target(x)
    BY DEF Children, Target
  <2>2. \A x, q \in Process : InList(x, q)' <=> InList(x, q)
    BY <2>1 DEF InList
  <2>3. \A x, q \in Process : InExec(x, q)' <=> InExec(x, q)
    BY <1>1 DEF InExec
  <2>4. QED BY <2>1, <2>2, <2>3
<1>4. \A q \in Process \ {p} : Minded(q)' <=> Minded(q)
  BY <1>2, <1>3 DEF Minded, Minds
<1>5. Minded(p)' <=> success
  <2>1. \E x \in Process : InExec(x, p)
    BY DEF ProcessInv, AuxInv, InExec
  <2>2. \A x \in Process : ~InList(x, p)
    BY DEF ProcessInv, FamilyInv, Starting, Loading
  <2>3. QED BY <1>2, <1>3, <2>1, <2>2 DEF Minded, Minds
<1>6. p # Main
  BY DEF ProcessInv, PlaceInv
<1>7. TypeOK'
  BY <1>1, <1>2 DEF ProcessInv, TypeOK, Places
<1>8. PlaceInv'
  BY <1>1, <1>3, <1>6 DEF ProcessInv, PlaceInv, InList, Starting, Loading
<1>9. FamilyInv'
  BY <1>1, <1>3 DEF ProcessInv, FamilyInv, Starting, Loading
<1>10. AuxInv'
  BY <1>1, <1>2, <1>3 DEF ProcessInv, AuxInv, Loading
<1>11. InfoInv'
  <2>1. \A x \in Process : ~Marked(x, p)
    BY TargetFacts DEF ProcessInv, FamilyInv, Marked, Starting, Loading
  <2>2. \A x, q \in Process : Marked(x, q)' <=> Marked(x, q)
    BY <1>1, <1>3 DEF Marked
  <2>3. ~info[p].someone_died /\ info[p].state = "live"
    BY <1>6 DEF ProcessInv, InfoInv
  <2>4. ASSUME NEW q \in Process, q # p, q # Main, pc[q] # "none"
        PROVE  /\ pc'[q] = "load" => ~info'[q].someone_died
               /\ info'[q].state = IF pc'[q] = "dead" /\ ~Minded(q)' THEN "freed" ELSE "live"
               /\ pc'[q] \notin Loading =>
                    (info'[q].someone_died <=>
                       pc'[q] = "dead" \/ ~Minded(q)' \/ \E x \in Process : Marked(x, q)')
    BY <1>1, <1>4, <2>2, <2>4 DEF ProcessInv, InfoInv
  <2>5. /\ pc'[p] # "load" /\ pc'[p] # "dead" /\ pc'[p] # "none"
        /\ pc'[p] \notin Loading => Minded(p)' /\ ~ \E x \in Process : Marked(x, p)'
    BY <1>1, <1>5, <2>1, <2>2 DEF Loading
  <2>6. \A q \in Process : q = Main \/ pc'[q] = "none" => info'[q] = NoInfo
    BY <1>1, <2>5 DEF ProcessInv, InfoInv
  <2>7. QED BY <1>1, <2>3, <2>4, <2>5, <2>6 DEF InfoInv
<1>12. DestroyInv'
  BY <1>1, <1>3, <1>4, TargetFacts DEF ProcessInv, DestroyInv, HasLock, IsLast
<1>13. CodeInv'
  BY <1>1 DEF ProcessInv, CodeInv, Exited
<1>14. WaitInv'
  BY <1>1, <1>2, <1>3, <1>5, WaitFrame DEF ProcessInv, Exited
<1>15. QED BY <1>7, <1>8, <1>9, <1>10, <1>11, <1>12, <1>13, <1>14 DEF ProcessInv

LEMMA ExecStep ==
  ASSUME ProcessInv, NEW p \in Process, NEW q \in Process, Exec(p, q)
  PROVE  ProcessInv'
<1>1. /\ pc[p] = "user" /\ pc[q] = "none" /\ p # q /\ q # Main
      /\ UNCHANGED << child_infos, code, someone_died, result >>
      /\ arg'[p] = q /\ \A x \in Process \ {p} : arg'[x] = arg[x]
      /\ arg' \in [Process -> Process \cup {NULL}]
  BY DEF Exec, User, locals, ProcessInv, PlaceInv, TypeOK
<1>2. /\ pc' \in [Process -> Places] /\ pc'[p] = "exec_down" /\ pc'[q] = "load"
      /\ \A x \in Process \ {p, q} : pc'[x] = pc[x]
  BY <1>1 DEF Exec, ProcessInv, TypeOK, Places
<1>3. /\ info' \in [Process -> ProcessInfo]
      /\ \A x \in Process \ {q} : info'[x] = info[x]
      /\ info'[q].state = "live" /\ ~info'[q].someone_died
      /\ info'[q].wait_lock = 0 /\ info'[q].died_lock = NULL
      /\ ~info'[q].observer_seen
  <2> DEFINE r == [NoInfo EXCEPT !.state = "live"]
  <2>0. NoInfo \in ProcessInfo /\ ~NoInfo.someone_died /\ NoInfo.wait_lock = 0
        /\ NoInfo.died_lock = NULL /\ ~NoInfo.observer_seen
    BY DEF NoInfo, ProcessInfo
  <2>1. r \in ProcessInfo /\ r.state = "live" /\ r.someone_died = FALSE
        /\ r.wait_lock = 0 /\ r.died_lock = NULL /\ r.observer_seen = FALSE
    BY <2>0 DEF ProcessInfo
  <2>2. info' = [info EXCEPT ![q] = r]
    BY DEF Exec
  <2> HIDE DEF r
  <2>3. QED BY <2>1, <2>2, InfoWrite DEF ProcessInv
<1>4. /\ aux' \in [Process -> ProcessAux]
      /\ \A x \in Process \ {q} : aux'[x] = aux[x]
      /\ aux'[q].state = "live" /\ ~aux'[q].success /\ aux'[q].signaler = 0
  <2> DEFINE r == [NoAux EXCEPT !.state = "live"]
  <2>0. NoAux \in ProcessAux /\ ~NoAux.success /\ NoAux.signaler = 0
    BY DEF NoAux, ProcessAux
  <2>1. r \in ProcessAux /\ r.state = "live" /\ r.success = FALSE /\ r.signaler = 0
    BY <2>0 DEF ProcessAux
  <2>2. aux' = [aux EXCEPT ![q] = r]
    BY DEF Exec
  <2> HIDE DEF r
  <2>3. QED BY <2>1, <2>2, AuxWrite DEF ProcessInv
<1>5. /\ \A x \in Process : Children(x)' = Children(x) /\ Target(x)' = Target(x)
      /\ \A x, y \in Process : InList(x, y)' <=> InList(x, y)
      /\ \A x, y \in Process : InExec(x, y)' <=> InExec(x, y) \/ (x = p /\ y = q)
  <2>1. \A x \in Process : Children(x)' = Children(x) /\ Target(x)' = Target(x)
    BY <1>1 DEF Children, Target
  <2>2. \A x, y \in Process : InList(x, y)' <=> InList(x, y)
    BY <2>1 DEF InList
  <2>3. \A x, y \in Process : InExec(x, y)' <=> InExec(x, y) \/ (x = p /\ y = q)
    BY <1>1, <1>2 DEF InExec
  <2>4. QED BY <2>1, <2>2, <2>3
<1>6. /\ \A x \in Process : ~InExec(x, q) /\ ~InList(x, q)
      /\ \A y \in Process : ~InExec(p, y)
  BY <1>1 DEF ProcessInv, FamilyInv, InExec, Starting
<1>7. \A y \in Process : Minded(y)' <=> Minded(y)
  <2>1. \A x, y \in Process : Minds(x, y)' <=> Minds(x, y)
    BY <1>4, <1>5, <1>6 DEF Minds
  <2>2. QED BY <2>1 DEF Minded
<1>8. TypeOK'
  <2>1. TypeOK
    BY DEF ProcessInv
  <2>2. \A x \in Process :
          pc'[x] \in {"exec_down", "exec_link", "run_task", "wait_find",
                   "wait_down", "wait_read"}
            => arg'[x] # NULL
    BY <1>1, <1>2, <2>1, ProcessAssumption DEF TypeOK
  <2>3. QED BY <1>1, <1>2, <1>3, <1>4, <2>1, <2>2 DEF TypeOK
<1>9. PlaceInv'
  BY <1>1, <1>2, <1>5, ProcessAssumption DEF ProcessInv, PlaceInv, InList, Starting, Loading
<1>10. FamilyInv'
  BY <1>1, <1>2, <1>5, <1>6 DEF ProcessInv, FamilyInv, Starting, Loading
<1>11. AuxInv'
  <2>1. ASSUME NEW y \in Process, y # q
        PROVE  /\ aux'[y].state = "live" <=> \E x \in Process : InExec(x, y)'
               /\ pc'[y] \in {"load", "signal", "signal_failed"} =>
                    aux'[y].signaler = 0 /\ \E x \in Process : pc'[x] = "exec_down" /\ arg'[x] = y
               /\ pc'[y] \in Loading => ~aux'[y].success
               /\ pc'[y] = "signal" => aux'[y].success
    BY <1>1, <1>2, <1>4, <1>5, <2>1 DEF ProcessInv, AuxInv, Loading
  <2>2. /\ aux'[q].state = "live" <=> \E x \in Process : InExec(x, q)'
        /\ aux'[q].signaler = 0 /\ \E x \in Process : pc'[x] = "exec_down" /\ arg'[x] = q
        /\ ~aux'[q].success /\ pc'[q] # "signal"
    BY <1>1, <1>2, <1>4, <1>5
  <2>3. QED BY <2>1, <2>2 DEF AuxInv
<1>12. InfoInv'
  <2>1. \A x, y \in Process : Marked(x, y)' <=> Marked(x, y)
    BY <1>1, <1>2, <1>5 DEF Marked
  <2>2. QED
    BY <1>1, <1>2, <1>3, <1>7, <2>1 DEF ProcessInv, InfoInv, Loading
<1>13. DestroyInv'
  <2>1. \A x \in Process : pc[x] \in AtWork => Target(x) \in Process \ {q}
    BY <1>1, TargetUsed DEF AtWork, HasLock, InDestroy, Starting
  <2>2. \A x \in Process : pc'[x] \in AtWork => pc[x] = pc'[x]
    BY <1>2 DEF AtWork, HasLock
  <2>3. \A x \in Process : pc[x] \in AtWork => (IsLast(x)' <=> IsLast(x))
    BY <1>1, <1>2, <1>5, <1>7, <2>1 DEF IsLast
  <2>4. QED
    BY <1>1, <1>2, <1>3, <1>5, <2>1, <2>2, <2>3 DEF ProcessInv, DestroyInv, AtWork, HasLock
<1>14. CodeInv'
  BY <1>1, <1>2, <1>3 DEF ProcessInv, CodeInv, Exited
<1>15. WaitInv'
  BY <1>1, <1>2, <1>3, WaitFrame DEF ProcessInv, Exited
<1>16. QED
  BY <1>8, <1>9, <1>10, <1>11, <1>12, <1>13, <1>14, <1>15 DEF ProcessInv

LEMMA AppendFacts ==
  ASSUME NEW S, NEW s \in Seq(S), NEW e \in S
  PROVE  /\ Append(s, e) \in Seq(S)
         /\ ToSet(Append(s, e)) = ToSet(s) \cup {e}
         /\ IsInjective(s) /\ e \notin ToSet(s) => IsInjective(Append(s, e))
<1> DEFINE t == Append(s, e)
<1>1. /\ t \in Seq(S) /\ Len(t) = Len(s) + 1 /\ Len(s) \in Nat
      /\ DOMAIN t = 1 .. Len(t) /\ DOMAIN s = 1 .. Len(s)
      /\ \A k \in 1 .. Len(s) : t[k] = s[k]
      /\ t[Len(s) + 1] = e
  OBVIOUS
<1> HIDE DEF t
<1>2. ToSet(t) = ToSet(s) \cup {e}
  BY <1>1 DEF ToSet
<1>3. ASSUME IsInjective(s), e \notin ToSet(s) PROVE IsInjective(t)
  BY <1>1, <1>3 DEF IsInjective, ToSet
<1>4. QED BY <1>1, <1>2, <1>3 DEF t

LEMMA TailFacts ==
  ASSUME NEW S, NEW s \in Seq(S), s # << >>, IsInjective(s)
  PROVE  /\ Tail(s) \in Seq(S) /\ IsInjective(Tail(s))
         /\ ToSet(Tail(s)) = ToSet(s) \ {Head(s)}
<1> DEFINE t == Tail(s)
<1>1. /\ t \in Seq(S) /\ Len(s) \in Nat \ {0} /\ Len(t) = Len(s) - 1
      /\ DOMAIN t = 1 .. Len(t) /\ DOMAIN s = 1 .. Len(s)
      /\ \A k \in 1 .. Len(t) : t[k] = s[k + 1]
      /\ Head(s) = s[1]
  OBVIOUS
<1> HIDE DEF t
<1>2. IsInjective(t)
  <2>1. ASSUME NEW k \in 1 .. Len(t), NEW l \in 1 .. Len(t), t[k] = t[l]
        PROVE  k = l
    <3>1. k + 1 \in 1 .. Len(s) /\ l + 1 \in 1 .. Len(s) /\ s[k + 1] = s[l + 1]
      BY <1>1, <2>1
    <3>2. k + 1 = l + 1
      BY <1>1, <3>1 DEF IsInjective
    <3>3. QED BY <1>1, <3>2
  <2>2. QED BY <1>1, <2>1 DEF IsInjective
<1>3. ToSet(t) = ToSet(s) \ {s[1]}
  <2>1. ASSUME NEW k \in 1 .. Len(s), s[k] # s[1] PROVE s[k] \in ToSet(t)
    <3>1. k - 1 \in 1 .. Len(t) /\ t[k - 1] = s[k]
      BY <1>1, <2>1
    <3>2. QED BY <1>1, <3>1 DEF ToSet
  <2>2. ASSUME NEW k \in 1 .. Len(t) PROVE t[k] \in ToSet(s) /\ t[k] # s[1]
    <3>1. k + 1 \in 1 .. Len(s) /\ t[k] = s[k + 1] /\ 1 \in 1 .. Len(s) /\ k + 1 # 1
      BY <1>1
    <3>2. QED BY <1>1, <3>1 DEF ToSet, IsInjective
  <2>3. QED BY <1>1, <2>1, <2>2 DEF ToSet
<1>4. QED BY <1>1, <1>2, <1>3 DEF t

LEMMA ExecReturnStep ==
  ASSUME ProcessInv, NEW p \in Process, ExecReturn(p)
  PROVE  ProcessInv'
<1> DEFINE q == arg[p]
<1>1. /\ pc[p] = "exec_link" /\ q \in Process /\ q # p /\ q # Main /\ InExec(p, q)
      /\ UNCHANGED << arg, code, someone_died, result, info >>
  <2>1. pc[p] = "exec_link" /\ q \in Process
    BY ProcessAssumption DEF ExecReturn, ProcessInv, TypeOK
  <2>2. InExec(p, q)
    BY <2>1 DEF InExec
  <2>3. QED BY <2>1, <2>2 DEF ExecReturn, ProcessInv, FamilyInv
<1>2. /\ pc' \in [Process -> Places]
      /\ pc'[p] = (IF p = Main THEN "run_task" ELSE "user")
      /\ \A x \in Process \ {p} : pc'[x] = pc[x]
  BY DEF ExecReturn, Goto, ProcessInv, TypeOK, Places
<1>3. /\ aux' \in [Process -> ProcessAux]
      /\ \A x \in Process \ {q} : aux'[x] = aux[x]
      /\ aux'[q].state = "freed" /\ aux'[q].success = aux[q].success
      /\ aux'[q].signaler = aux[q].signaler
  <2> DEFINE r == [aux[q] EXCEPT !.state = "freed"]
  <2>1. aux[q] \in ProcessAux
    BY <1>1 DEF ProcessInv, TypeOK
  <2>2. r \in ProcessAux /\ r.state = "freed" /\ r.success = aux[q].success
        /\ r.signaler = aux[q].signaler
    BY <2>1 DEF ProcessAux
  <2>3. aux' = [aux EXCEPT ![q] = r]
    BY DEF ExecReturn
  <2> HIDE DEF r
  <2>4. QED BY <1>1, <2>2, <2>3, AuxWrite DEF ProcessInv
<1>4. \A x \in Process : ~InList(x, q)
  BY <1>1 DEF ProcessInv, FamilyInv
<1>5. /\ child_infos' \in [Process -> Seq(Process)]
      /\ \A x \in Process \ {p} : child_infos'[x] = child_infos[x]
      /\ IsInjective(child_infos'[p])
      /\ \A y \in Process : y \in ToSet(child_infos'[p]) <=> InList(p, y) \/ (y = q /\ aux[q].success)
  <2>1. child_infos[p] \in Seq(Process) /\ IsInjective(child_infos[p]) /\ q \notin ToSet(child_infos[p])
    BY <1>1, <1>4 DEF ProcessInv, TypeOK, FamilyInv, InList, Children
  <2>2. CASE aux[q].success
    <3>1. child_infos' = [child_infos EXCEPT ![p] = Append(child_infos[p], q)]
      BY <2>2 DEF ExecReturn, Links
    <3>2. child_infos'[p] = Append(child_infos[p], q)
      BY <3>1 DEF ProcessInv, TypeOK
    <3>3. Append(child_infos[p], q) \in Seq(Process) /\ IsInjective(child_infos'[p])
          /\ ToSet(child_infos'[p]) = ToSet(child_infos[p]) \cup {q}
      BY <1>1, <2>1, <3>2, AppendFacts
    <3>4. QED BY <2>2, <3>1, <3>3 DEF ProcessInv, TypeOK, InList, Children
  <2>3. CASE ~aux[q].success
    <3>1. child_infos' = child_infos
      BY <2>3 DEF ExecReturn, Links, ProcessInv, TypeOK
    <3>2. QED BY <2>1, <2>3, <3>1 DEF ProcessInv, TypeOK, InList, Children
  <2>4. QED BY <2>2, <2>3
<1>6. /\ \A x \in Process \ {p} : Target(x)' = Target(x)
      /\ \A x, y \in Process :
           InList(x, y)' <=> InList(x, y) \/ (x = p /\ y = q /\ aux[q].success)
      /\ \A x, y \in Process : InExec(x, y)' <=> InExec(x, y) /\ x # p
  <2>1. \A x \in Process \ {p} : Target(x)' = Target(x) /\ Children(x)' = Children(x)
    BY <1>5 DEF Target, Children
  <2>2. \A x, y \in Process :
           InList(x, y)' <=> InList(x, y) \/ (x = p /\ y = q /\ aux[q].success)
    BY <1>5, <2>1 DEF InList, Children
  <2>3. \A x, y \in Process : InExec(x, y)' <=> InExec(x, y) /\ x # p
    BY <1>1, <1>2 DEF InExec
  <2>4. QED BY <2>1, <2>2, <2>3
<1>7. \A y \in Process : Minded(y)' <=> Minded(y)
  <2>1. \A y \in Process : InExec(p, y) <=> y = q
    BY <1>1 DEF InExec
  <2>2. \A x, y \in Process : Minds(x, y)' <=> Minds(x, y)
    BY <1>1, <1>3, <1>6, <2>1 DEF Minds
  <2>3. QED BY <2>2 DEF Minded
<1>8. pc[q] \notin {"none", "load", "signal", "signal_failed"}
      /\ (aux[q].success => pc[q] \notin Starting)
  <2>1. \A x \in Process : ~(pc[x] = "exec_down" /\ arg[x] = q)
    BY <1>1 DEF ProcessInv, FamilyInv, InExec
  <2>2. QED BY <1>1, <2>1 DEF ProcessInv, FamilyInv, AuxInv, Starting, Loading
<1> HIDE DEF q
<1>9. TypeOK'
  BY <1>1, <1>2, <1>3, <1>5, ProcessAssumption DEF ProcessInv, TypeOK, q
<1>10. PlaceInv'
  <2>1. \A x \in Process : pc'[x] \in {"wait_down", "wait_read"} =>
                             x # p /\ pc'[x] = pc[x] /\ arg'[x] = arg[x] /\ Children(x)' = Children(x)
    BY <1>1, <1>2, <1>5 DEF Children
  <2>2. \A x \in Process : pc'[x] \in {"wait_down", "wait_read"} => InList(x, arg[x])'
    BY <2>1 DEF ProcessInv, PlaceInv, InList
  <2>3. QED
    BY <1>1, <1>2, <1>5, <2>2, ProcessAssumption DEF ProcessInv, PlaceInv, Starting, Loading
<1>11. FamilyInv'
  <2>1. \A x \in Process : IsInjective(child_infos'[x])
    BY <1>5 DEF ProcessInv, FamilyInv
  <2>2. \A x, y \in Process :
          /\ InList(x, y)' => x # y /\ y # Main /\ pc'[y] \notin Starting
          /\ InExec(x, y)' => x # y /\ y # Main /\ pc'[y] # "none"
          /\ InList(x, y)' => \A z \in Process : ~InExec(z, y)'
    BY <1>1, <1>2, <1>6, <1>8 DEF ProcessInv, FamilyInv, Starting, Loading
  <2>3. \A x, y, z \in Process :
          (InList(x, z)' /\ InList(y, z)') \/ (InExec(x, z)' /\ InExec(y, z)') => x = y
    BY <1>1, <1>4, <1>6 DEF ProcessInv, FamilyInv
  <2>4. QED BY <2>1, <2>2, <2>3 DEF FamilyInv
<1>12. AuxInv'
  <2>1. \A y \in Process : (\E x \in Process : InExec(x, y)') <=> y # q /\ \E x \in Process : InExec(x, y)
    <3>1. \A x \in Process : InExec(x, q) => x = p
      BY <1>1 DEF ProcessInv, FamilyInv
    <3>2. \A y \in Process : InExec(p, y) <=> y = q
      BY <1>1 DEF InExec, q
    <3>3. QED BY <1>6, <3>1, <3>2
  <2>2. QED BY <1>1, <1>2, <1>3, <1>8, <2>1 DEF ProcessInv, AuxInv, Loading
<1>13. InfoInv'
  <2>1. \A x, y \in Process : Marked(x, y)' <=> Marked(x, y)
    BY <1>1, <1>2, <1>6 DEF Marked
  <2>2. QED
    BY <1>1, <1>2, <1>7, <2>1 DEF ProcessInv, InfoInv, Loading
<1>14. DestroyInv'
  BY <1>1, <1>2, <1>6, <1>7, TargetFacts DEF ProcessInv, DestroyInv, HasLock, IsLast
<1>15. CodeInv'
  BY <1>1, <1>2 DEF ProcessInv, CodeInv, Exited
<1>16. WaitInv'
  BY <1>1, <1>2, WaitFrame DEF ProcessInv, Exited
<1>17. QED
  BY <1>9, <1>10, <1>11, <1>12, <1>13, <1>14, <1>15, <1>16 DEF ProcessInv

(* The end of a turn of the loop in thread_destroy_userprog_features: p    *)
(* has no more to do with its target, and goes on to the next one.         *)
LEMMA DestroyEnd ==
  ASSUME ProcessInv, NEW p \in Process, NEW t \in Process, t = Target(p),
         pc[p] \in {"unlock", "free"}, DestroyNext(p),
         UNCHANGED << arg, code, someone_died, result, aux >>,
         info' \in [Process -> ProcessInfo],
         \A x \in Process \ {t} : info'[x] = info[x],
         info'[t].exit_code = info[t].exit_code,
         info'[t].wait_lock = info[t].wait_lock,
         info'[t].observer_seen = info[t].observer_seen,
         info'[t].someone_died = info[t].someone_died,
         info'[t].state = IF IsLast(p) THEN "freed" ELSE info[t].state
  PROVE  ProcessInv'
<1>1. /\ t \in Process /\ t # Main /\ pc[t] \notin Starting /\ p # Main
      /\ t # p => InList(p, t)
      /\ t = p => child_infos[p] = << >>
  <2>1. t \in Process /\ t # Main /\ pc[t] \notin Starting /\ p # Main
    BY TargetUsed DEF InDestroy, ProcessInv, PlaceInv
  <2>2. ~InList(p, p)
    BY DEF ProcessInv, FamilyInv
  <2>3. QED BY <2>1, <2>2, TargetFacts DEF ProcessInv
<1>2. /\ pc' \in [Process -> Places] /\ \A x \in Process \ {p} : pc'[x] = pc[x]
      /\ pc'[p] = IF t = p THEN "dead" ELSE "destroy"
  BY DEF DestroyNext, Goto, ProcessInv, TypeOK, Places
<1>3. /\ child_infos' \in [Process -> Seq(Process)]
      /\ \A x \in Process \ {p} : child_infos'[x] = child_infos[x]
      /\ IsInjective(child_infos'[p])
      /\ \A y \in Process : y \in ToSet(child_infos'[p]) <=> InList(p, y) /\ y # t
      /\ t = p => child_infos'[p] = << >>
  <2>1. child_infos[p] \in Seq(Process) /\ IsInjective(child_infos[p])
    BY DEF ProcessInv, TypeOK, FamilyInv
  <2>2. CASE child_infos[p] = << >>
    <3>1. child_infos' = child_infos
      BY <2>2 DEF DestroyNext, ProcessInv, TypeOK
    <3>2. ~InList(p, t)
      BY <2>2, TargetFacts DEF ProcessInv, InList
    <3>3. QED BY <2>1, <2>2, <3>1, <3>2 DEF ProcessInv, TypeOK, InList, Children
  <2>3. CASE child_infos[p] # << >>
    <3>1. child_infos' = [child_infos EXCEPT ![p] = Tail(child_infos[p])] /\ t = Head(child_infos[p])
      BY <2>3 DEF DestroyNext, Target
    <3>2. child_infos'[p] = Tail(child_infos[p])
      BY <3>1 DEF ProcessInv, TypeOK
    <3>3. Tail(child_infos[p]) \in Seq(Process) /\ IsInjective(child_infos'[p])
          /\ ToSet(child_infos'[p]) = ToSet(child_infos[p]) \ {t}
      BY <2>1, <2>3, <3>1, <3>2, TailFacts
    <3>4. t # p
      BY <1>1, <2>3
    <3>5. QED BY <3>1, <3>3, <3>4 DEF ProcessInv, TypeOK, InList, Children
  <2>4. QED BY <2>2, <2>3
<1>4. /\ \A x \in Process \ {p} : Target(x)' = Target(x)
      /\ \A x, y \in Process : InList(x, y)' <=> InList(x, y) /\ ~(x = p /\ y = t)
      /\ \A x, y \in Process : InExec(x, y)' <=> InExec(x, y)
  <2>1. \A x \in Process \ {p} : Target(x)' = Target(x) /\ Children(x)' = Children(x)
    BY <1>3 DEF Target, Children
  <2>2. \A x, y \in Process : InList(x, y)' <=> InList(x, y) /\ ~(x = p /\ y = t)
    BY <1>3, <2>1 DEF InList, Children
  <2>3. \A x, y \in Process : InExec(x, y)' <=> InExec(x, y)
    BY <1>2 DEF InExec
  <2>4. QED BY <2>1, <2>2, <2>3
<1>5. /\ \A y \in Process \ {t} : Minded(y)' <=> Minded(y)
      /\ t = p => (Minded(t)' <=> Minded(t))
      /\ t # p => Minded(t) /\ ~Minded(t)'
  <2>1. \A x, y \in Process : Minds(x, y)' <=> Minds(x, y) /\ ~(x = p /\ y = t)
    BY <1>1, <1>4 DEF Minds, ProcessInv, FamilyInv
  <2>2. t # p => \A x \in Process : Minds(x, t) <=> x = p
    BY <1>1 DEF Minds, ProcessInv, FamilyInv
  <2>3. t = p => ~Minds(p, t)
    BY <1>1 DEF Minds, ProcessInv, FamilyInv
  <2>4. \A y \in Process \ {t} : Minded(y)' <=> Minded(y)
    BY <2>1 DEF Minded
  <2>5. t = p => (Minded(t)' <=> Minded(t))
    BY <1>1, <2>1, <2>3 DEF Minded
  <2>6. ASSUME t # p PROVE Minded(t) /\ ~Minded(t)'
    <3>1. \A x \in Process : ~Minds(x, t)'
      BY <1>1, <2>1, <2>2, <2>6
    <3>2. QED BY <1>1, <2>2, <2>6, <3>1 DEF Minded
  <2>7. QED BY <2>4, <2>5, <2>6
<1>6. TypeOK'
  BY <1>2, <1>3 DEF ProcessInv, TypeOK
<1>7. PlaceInv'
  <2>1. \A x \in Process : pc'[x] \in {"wait_down", "wait_read"} =>
                             x # p /\ pc'[x] = pc[x] /\ arg'[x] = arg[x] /\ Children(x)' = Children(x)
    BY <1>2, <1>3 DEF Children
  <2>2. \A x \in Process : pc'[x] \in {"wait_down", "wait_read"} => InList(x, arg[x])'
    BY <2>1 DEF ProcessInv, PlaceInv, InList
  <2>3. \A x \in Process : pc'[x] \in Starting \cup {"dead"} => child_infos'[x] = << >>
    BY <1>1, <1>2, <1>3 DEF ProcessInv, PlaceInv, Starting, Loading
  <2>4. \A x \in Process : pc'[x] = "run_task" => x = Main
    BY <1>1, <1>2 DEF ProcessInv, PlaceInv
  <2>5. pc'[Main] \in {"user", "exec_down", "exec_link", "run_task", "wait_find",
                       "wait_down", "wait_read", "exit"}
    BY <1>1, <1>2, ProcessAssumption DEF ProcessInv, PlaceInv, Loading
  <2>6. QED BY <2>2, <2>3, <2>4, <2>5 DEF PlaceInv
<1>8. FamilyInv'
  <2>1. \A x \in Process : IsInjective(child_infos'[x])
    BY <1>1, <1>3 DEF ProcessInv, FamilyInv
  <2>2. \A x, y \in Process :
          /\ InList(x, y)' => x # y /\ y # Main /\ pc'[y] \notin Starting
          /\ InExec(x, y)' => x # y /\ y # Main /\ pc'[y] # "none"
    BY <1>1, <1>2, <1>4 DEF ProcessInv, FamilyInv, Starting, Loading
  <2>3. \A x, y \in Process : InList(x, y)' => \A r \in Process : ~InExec(r, y)'
    BY <1>4 DEF ProcessInv, FamilyInv
  <2>4. \A x, r, y \in Process :
          (InList(x, y)' /\ InList(r, y)') \/ (InExec(x, y)' /\ InExec(r, y)') => x = r
    BY <1>4 DEF ProcessInv, FamilyInv
  <2>5. QED BY <2>1, <2>2, <2>3, <2>4 DEF FamilyInv
<1>9. AuxInv'
  <2>1. \A y \in Process :
          pc'[y] \in {"load", "signal", "signal_failed"} \cup Loading => y # p
    BY <1>2 DEF Loading
  <2>2. \A x, y \in Process :
          pc[x] = "exec_down" /\ arg[x] = y => pc'[x] = "exec_down" /\ arg'[x] = y
    BY <1>2
  <2>3. QED BY <1>2, <1>4, <2>1, <2>2 DEF ProcessInv, AuxInv, Loading
<1>10. InfoInv'
  <2>1. Marked(p, t) /\ info[t].someone_died
    <3>1. Marked(p, t)
      BY DEF Marked
    <3>2. QED BY <1>1, <3>1 DEF ProcessInv, InfoInv, Starting
  <2>2. \A x, y \in Process : Marked(x, y)' <=> Marked(x, y) /\ x # p
    BY <1>2, <1>4 DEF Marked
  <2>3. \A y \in Process : Marked(p, y) => y = t
    BY DEF Marked
  <2>4. /\ pc'[t] # "load"
        /\ info'[t].someone_died /\ (pc'[t] = "dead" \/ ~Minded(t)')
        /\ info'[t].state = IF pc'[t] = "dead" /\ ~Minded(t)' THEN "freed" ELSE "live"
    <3>1. info[t].state = "live"
      BY <1>1, <1>5 DEF ProcessInv, InfoInv, Starting
    <3>2. CASE t = p
      BY <1>1, <1>2, <1>5, <2>1, <3>1, <3>2 DEF IsLast
    <3>3. CASE t # p
      BY <1>1, <1>2, <1>5, <2>1, <3>1, <3>3 DEF IsLast, Starting, Loading
    <3>4. QED BY <3>2, <3>3
  <2>5. ASSUME NEW y \in Process, y # t, y # Main, pc[y] # "none"
        PROVE  /\ pc'[y] = "load" => ~info'[y].someone_died
               /\ info'[y].state = IF pc'[y] = "dead" /\ ~Minded(y)' THEN "freed" ELSE "live"
               /\ pc'[y] \notin Loading =>
                    (info'[y].someone_died <=>
                       pc'[y] = "dead" \/ ~Minded(y)' \/ \E x \in Process : Marked(x, y)')
    <3>1. /\ info'[y] = info[y] /\ (Minded(y)' <=> Minded(y))
          /\ pc'[y] = "dead" <=> pc[y] = "dead"
          /\ pc'[y] = "load" <=> pc[y] = "load"
          /\ pc'[y] \in Loading <=> pc[y] \in Loading
      BY <1>2, <1>5, <2>5 DEF Loading
    <3>2. (\E x \in Process : Marked(x, y)') <=> \E x \in Process : Marked(x, y)
      BY <2>2, <2>3, <2>5
    <3>3. QED BY <2>5, <3>1, <3>2 DEF ProcessInv, InfoInv
  <2>6. \A y \in Process : y = Main \/ pc'[y] = "none" => y # t /\ (y = Main \/ pc[y] = "none")
    BY <1>1, <1>2 DEF Starting
  <2>7. \A y \in Process : y = Main \/ pc'[y] = "none" => info'[y] = NoInfo
    BY <2>6 DEF ProcessInv, InfoInv
  <2>8. \A y \in Process : pc'[y] # "none" => pc[y] # "none"
    BY <1>2
  <2>9. ASSUME NEW y \in Process, y # Main, pc'[y] # "none"
        PROVE  /\ pc'[y] = "load" => ~info'[y].someone_died
               /\ info'[y].state = IF pc'[y] = "dead" /\ ~Minded(y)' THEN "freed" ELSE "live"
               /\ pc'[y] \notin Loading =>
                    (info'[y].someone_died <=>
                       pc'[y] = "dead" \/ ~Minded(y)' \/ \E x \in Process : Marked(x, y)')
    <3>1. CASE y = t
      BY <2>4, <3>1
    <3>2. CASE y # t
      BY <2>5, <2>8, <2>9, <3>2
    <3>3. QED BY <3>1, <3>2
  <2>10. QED BY <2>7, <2>9 DEF InfoInv
<1>11. DestroyInv'
  <2>1. ASSUME NEW x \in Process, pc'[x] \in AtWork
        PROVE  /\ x # p /\ pc'[x] = pc[x] /\ Target(x)' = Target(x) /\ Target(x) # t
               /\ Target(x) \in Process
    <3>1. x # p /\ pc'[x] = pc[x]
      BY <1>2, <2>1 DEF AtWork, HasLock
    <3>2. QED BY <1>4, <2>1, <3>1, Apart, TargetFacts DEF AtWork, HasLock, ProcessInv
  <2>2. \A x \in Process : pc'[x] \in AtWork => (IsLast(x)' <=> IsLast(x))
    <3>1. SUFFICES ASSUME NEW x \in Process, pc'[x] \in AtWork
                   PROVE  IsLast(x)' <=> IsLast(x)
      OBVIOUS
    <3>2. CASE Target(x) = x
      BY <1>5, <2>1, <3>1, <3>2 DEF IsLast
    <3>3. CASE Target(x) # x
      <4>1. pc'[Target(x)] = "dead" <=> pc[Target(x)] = "dead"
        <5>1. CASE Target(x) # p
          BY <1>2, <2>1, <3>1, <5>1
        <5>2. CASE Target(x) = p
          <6>1. t # p
            BY <2>1, <3>1, <5>2
          <6>2. QED BY <1>2, <5>2, <6>1
        <5>3. QED BY <5>1, <5>2
      <4>2. QED BY <2>1, <3>1, <3>3, <4>1 DEF IsLast
    <3>4. QED BY <3>2, <3>3
  <2>3. \A x \in Process : pc'[x] \in AtWork => info'[Target(x)] = info[Target(x)]
    BY <2>1
  <2>4. QED BY <2>1, <2>2, <2>3 DEF ProcessInv, DestroyInv, AtWork, HasLock
<1>12. CodeInv'
  <2>1. \A x \in Process : info'[x].wait_lock = info[x].wait_lock /\ info'[x].exit_code = info[x].exit_code
    OBVIOUS
  <2>2. pc[p] \in Exited /\ pc'[p] \in Exited
    BY <1>2 DEF Exited
  <2>3. QED BY <1>2, <2>1, <2>2 DEF ProcessInv, CodeInv
<1>13. WaitInv'
  BY <1>2, WaitFrame DEF ProcessInv, Exited
<1>14. QED
  BY <1>6, <1>7, <1>8, <1>9, <1>10, <1>11, <1>12, <1>13 DEF ProcessInv

LEMMA DestroyFreeStep ==
  ASSUME ProcessInv, NEW p \in Process, DestroyFree(p)
  PROVE  ProcessInv'
<1> DEFINE t == Target(p)
           r == [info[t] EXCEPT !.state = "freed"]
<1>1. /\ pc[p] = "free" /\ info' = [info EXCEPT ![t] = r] /\ DestroyNext(p)
      /\ UNCHANGED << arg, code, someone_died, result, aux >>
  BY DEF DestroyFree
<1>2. t \in Process /\ info[t] \in ProcessInfo
  BY TargetFacts DEF ProcessInv, TypeOK
<1>3. /\ r \in ProcessInfo /\ r.state = "freed" /\ r.exit_code = info[t].exit_code
      /\ r.wait_lock = info[t].wait_lock /\ r.someone_died = info[t].someone_died
      /\ r.observer_seen = info[t].observer_seen
  BY <1>2 DEF ProcessInfo
<1>4. IsLast(p)
  BY <1>1 DEF ProcessInv, DestroyInv
<1> HIDE DEF r
<1>5. /\ info' \in [Process -> ProcessInfo] /\ info'[t] = r
      /\ \A x \in Process \ {t} : info'[x] = info[x]
  BY <1>1, <1>2, <1>3, InfoWrite DEF ProcessInv
<1>6. QED BY <1>1, <1>3, <1>4, <1>5, DestroyEnd

LEMMA DestroyReleaseStep ==
  ASSUME ProcessInv, NEW p \in Process, DestroyRelease(p)
  PROVE  ProcessInv'
<1> DEFINE t == Target(p)
           r == [info[t] EXCEPT !.died_lock = NULL]
<1>1. /\ pc[p] = "unlock" /\ info' = [info EXCEPT ![t] = r]
      /\ UNCHANGED << arg, code, someone_died, result, aux >>
      /\ \/ someone_died[p] /\ pc' = [pc EXCEPT ![p] = "free"] /\ UNCHANGED child_infos
         \/ ~someone_died[p] /\ DestroyNext(p)
  BY DEF DestroyRelease, Frees, Goto
<1>2. t \in Process /\ info[t] \in ProcessInfo /\ t # Main /\ pc[t] \notin Starting
  BY <1>1, TargetUsed DEF ProcessInv, TypeOK, InDestroy
<1>3. /\ r \in ProcessInfo /\ r.state = info[t].state /\ r.exit_code = info[t].exit_code
      /\ r.wait_lock = info[t].wait_lock /\ r.someone_died = info[t].someone_died
      /\ r.observer_seen = info[t].observer_seen
  BY <1>2 DEF ProcessInfo
<1>4. someone_died[p] <=> IsLast(p)
  BY <1>1 DEF ProcessInv, DestroyInv
<1> HIDE DEF r
<1>5. /\ info' \in [Process -> ProcessInfo] /\ info'[t] = r
      /\ \A x \in Process \ {t} : info'[x] = info[x]
  BY <1>1, <1>2, <1>3, InfoWrite DEF ProcessInv
<1>6. CASE ~someone_died[p]
  BY <1>1, <1>3, <1>4, <1>5, <1>6, DestroyEnd
<1>7. CASE someone_died[p]
  <2> HIDE DEF t
  <2>1. /\ pc' = [pc EXCEPT ![p] = "free"] /\ UNCHANGED child_infos
        /\ pc'[p] = "free" /\ \A x \in Process \ {p} : pc'[x] = pc[x]
    BY <1>1, <1>7 DEF ProcessInv, TypeOK
  <2>2. Steady(p)
    BY <1>1, <2>1 DEF Steady, InExec
  <2>3. TypeOK'
    BY <1>1, <1>5, <2>1 DEF ProcessInv, TypeOK, Places
  <2>4. PlaceInv'
    BY <1>1, <2>1, <2>2, SteadyFacts DEF ProcessInv, PlaceInv, InList, Starting, Loading
  <2>5. FamilyInv'
    BY <1>1, <2>1, <2>2, SteadyFacts DEF ProcessInv, FamilyInv, Starting, Loading
  <2>6. AuxInv'
    BY <1>1, <2>1, <2>2, SteadyFacts DEF ProcessInv, AuxInv, Loading
  <2>7. InfoInv'
    BY <1>1, <1>2, <1>3, <1>5, <2>1, <2>2, SteadyFacts, TargetFacts
    DEF ProcessInv, InfoInv, Marked, Loading, Starting
  <2>8. DestroyInv'
    <3>1. \A x \in Process : x # p /\ pc[x] \in AtWork => Target(x) # t
      BY <1>1, Apart DEF AtWork, HasLock, t
    <3>2. \A x \in Process : IsLast(x)' <=> IsLast(x)
      BY <1>1, <2>1, <2>2, SteadyFacts, TargetFacts DEF IsLast, ProcessInv
    <3>3. QED
      BY <1>1, <1>4, <1>5, <1>7, <2>1, <2>2, <3>1, <3>2, SteadyFacts, TargetFacts
      DEF ProcessInv, DestroyInv, AtWork, HasLock
  <2>9. CodeInv'
    BY <1>1, <1>2, <1>3, <1>5, <2>1 DEF ProcessInv, CodeInv, Exited
  <2>10. WaitInv'
    BY <1>1, <1>3, <1>5, <2>1, WaitFrame DEF ProcessInv, Exited
  <2>11. QED
    BY <2>3, <2>4, <2>5, <2>6, <2>7, <2>8, <2>9, <2>10 DEF ProcessInv
<1>8. QED BY <1>6, <1>7

-----------------------------------------------------------------------------
LEMMA ProcessInvInit == Init => ProcessInv
<1> SUFFICES ASSUME Init PROVE ProcessInv
  OBVIOUS
<1>1. /\ \A x \in Process : pc[x] \in {"user", "none"} /\ child_infos[x] = << >>
      /\ \A x \in Process : pc[x] = "user" <=> x = Main
      /\ \A x \in Process : code[x] = Killed /\ info[x] = NoInfo /\ aux[x] = NoAux
  BY ProcessAssumption DEF Init
<1>2. NoInfo \in ProcessInfo /\ NoInfo.wait_lock = 0
  BY DEF NoInfo, ProcessInfo
<1>3. NoAux \in ProcessAux /\ NoAux.state = "unused"
  BY DEF NoAux, ProcessAux
<1>4. TypeOK
  <2> DEFINE noResult == [child |-> NULL, code |-> Killed]
  <2>1. noResult \in [child : Process \cup {NULL}, code : ExitCodes \cup {Killed}]
    OBVIOUS
  <2> HIDE DEF noResult
  <2>2. result = [p \in Process |-> noResult]
    BY DEF Init, noResult
  <2>3. pc \in [Process -> Places] /\ << >> \in Seq(Process)
    BY DEF Init, Places
  <2>4. \A x \in Process : pc[x] \notin {"exec_down", "exec_link", "run_task", "wait_find",
                   "wait_down", "wait_read"}
    BY <1>1
  <2>5. QED BY <1>2, <1>3, <2>1, <2>2, <2>3, <2>4 DEF Init, TypeOK
<1>5. \A x, y \in Process : ~InList(x, y) /\ ~InExec(x, y)
  BY <1>1 DEF InList, InExec, Children, ToSet
<1>6. PlaceInv
  BY <1>1, ProcessAssumption DEF PlaceInv
<1>7. FamilyInv
  <2>1. \A x \in Process : IsInjective(child_infos[x])
    BY <1>1 DEF IsInjective
  <2>2. QED BY <1>5, <2>1 DEF FamilyInv
<1>8. AuxInv
  BY <1>1, <1>3, <1>5 DEF AuxInv, Loading
<1>9. InfoInv
  BY <1>1 DEF InfoInv
<1>10. DestroyInv
  BY <1>1 DEF DestroyInv, HasLock
<1>11. CodeInv
  BY <1>1, <1>2 DEF CodeInv, Exited
<1>12. WaitInv
  BY <1>1 DEF WaitInv
<1>13. QED
  BY <1>4, <1>6, <1>7, <1>8, <1>9, <1>10, <1>11, <1>12 DEF ProcessInv

LEMMA ProcessInvStep == ProcessInv /\ [Next]_vars => ProcessInv'
<1> SUFFICES ASSUME ProcessInv, [Next]_vars PROVE ProcessInv'
  OBVIOUS
<1>1. ASSUME NEW p \in Process, KernelCode(p) PROVE ProcessInv'
  <2>1. ASSUME WaitCall(Main, arg[Main]), p = Main PROVE ProcessInv'
    <3>1. arg[Main] \in Process
      BY <2>1, ProcessAssumption DEF WaitCall, ProcessInv, TypeOK
    <3>2. QED BY <2>1, <3>1, WaitCallStep
  <2>2. QED
    BY <1>1, <2>1, LoadStep, SignalStep, LoadFailedStep, ExecDownStep, ExecReturnStep,
       WaitStep, WaitDownStep, WaitReturnStep, NotifyCodeStep, NotifyUpStep, ProcessExitStep,
       DestroyAcquireStep, DestroyReadStep, DestroyMarkStep, DestroyReleaseStep,
       DestroyFreeStep
    DEF KernelCode
<1>2. ASSUME NEW p \in Process, Program(p) PROVE ProcessInv'
  BY <1>2, ExecStep, WaitCallStep, ExitProcessStep, KillStep DEF Program
<1>3. ASSUME UNCHANGED vars PROVE ProcessInv'
  <2>1. UNCHANGED << pc, arg, child_infos, code, someone_died, result, info, aux >>
    BY <1>3 DEF vars, locals
  <2>2. TypeOK' /\ PlaceInv' /\ FamilyInv' /\ AuxInv'
    BY <2>1 DEF ProcessInv, TypeOK, PlaceInv, FamilyInv, AuxInv, InList, InExec, Children
  <2>3. InfoInv' /\ DestroyInv'
    BY <2>1
    DEF ProcessInv, InfoInv, DestroyInv, IsLast, Marked, Minded, Minds, InList, InExec,
        Children, Target
  <2>4. CodeInv' /\ WaitInv'
    BY <2>1 DEF ProcessInv, CodeInv, WaitInv
  <2>5. QED BY <2>2, <2>3, <2>4 DEF ProcessInv
<1>4. QED BY <1>1, <1>2, <1>3, MainExitStep DEF Next

(* The types of all variables, and that the semaphores of the two objects  *)
(* are never raised twice.                                                 *)
THEOREM TypeCorrect == Spec => []TypeOK
<1>1. ProcessInv => TypeOK
  BY DEF ProcessInv
<1>2. QED BY <1>1, ProcessInvInit, ProcessInvStep, PTL DEF Spec

LEMMA LiveFacts ==
  ASSUME ProcessInv, NEW q \in Process, q # Main, pc[q] # "none",
         pc[q] # "dead" \/ Minded(q)
  PROVE  info[q].state = "live"
BY DEF ProcessInv, InfoInv

(* Neither process_info_t nor process_aux_t is used after it was freed, in *)
(* any family of processes and any order of their exits.                   *)
THEOREM ObjectsAlive == Spec => []NoUseAfterFree
<1>1. ProcessInv => NoUseAfterFree
  <2> SUFFICES ASSUME ProcessInv, NEW p \in Process
               PROVE  /\ \A q \in Touches(p) : info[q].state = "live"
                      /\ \A q \in TouchesAux(p) : aux[q].state = "live"
    BY DEF NoUseAfterFree
  <2>1. \A q \in ToSet(child_infos[p]) : q \in Process /\ InList(p, q) /\ info[q].state = "live"
    <3>1. SUFFICES ASSUME NEW q \in ToSet(child_infos[p])
                   PROVE  q \in Process /\ InList(p, q) /\ info[q].state = "live"
      OBVIOUS
    <3>2. q \in Process /\ InList(p, q)
      BY <3>1 DEF ProcessInv, TypeOK, InList, Children, ToSet
    <3>3. q # Main /\ pc[q] # "none" /\ Minded(q)
      BY <3>2 DEF ProcessInv, FamilyInv, Minded, Minds, Starting
    <3>4. QED BY <3>2, <3>3, LiveFacts
  <2>2. p # Main /\ pc[p] \notin {"none", "dead"} => info[p].state = "live"
    BY LiveFacts
  <2>3. pc[p] \in {"load", "failed", "notify", "notify_up", "destroy", "read", "mark",
                   "unlock", "free"} => p # Main
    BY DEF ProcessInv, PlaceInv
  <2>4. pc[p] \in {"wait_down", "wait_read"} => arg[p] \in ToSet(child_infos[p])
    BY DEF ProcessInv, PlaceInv, InList, Children
  <2>5. ASSUME pc[p] = "exec_link", aux[arg[p]].success PROVE info[arg[p]].state = "live"
    <3>1. arg[p] \in Process
      BY <2>5, ProcessAssumption DEF ProcessInv, TypeOK
    <3>2. InExec(p, arg[p])
      BY <2>5 DEF InExec
    <3>3. arg[p] # Main /\ pc[arg[p]] # "none" /\ Minded(arg[p])
      BY <2>5, <3>1, <3>2 DEF ProcessInv, FamilyInv, Minded, Minds
    <3>4. QED BY <3>1, <3>3, LiveFacts
  <2>6. \A q \in Touches(p) : info[q].state = "live"
    BY <2>1, <2>2, <2>3, <2>4, <2>5 DEF Touches
  <2>7. \A q \in TouchesAux(p) : aux[q].state = "live"
    <3>1. pc[p] \in {"load", "signal", "signal_failed"} => aux[p].state = "live"
      BY DEF ProcessInv, AuxInv, InExec
    <3>2. pc[p] \in {"exec_down", "exec_link"} => aux[arg[p]].state = "live"
      BY ProcessAssumption DEF ProcessInv, TypeOK, AuxInv, InExec
    <3>3. QED BY <3>1, <3>2 DEF TouchesAux
  <2>8. QED BY <2>6, <2>7
<1>2. QED BY <1>1, ProcessInvInit, ProcessInvStep, PTL DEF Spec

(* Whatever is allocated has somebody left to free it.                     *)
THEOREM SomebodyFrees == Spec => []NoLeak
<1>1. ProcessInv => NoLeak
  <2> SUFFICES ASSUME ProcessInv, NEW q \in Process
               PROVE  /\ info[q].state = "live" => \E p \in Process : WillFree(p, q)
                      /\ aux[q].state = "live" => \E p \in Process \ {q} : q \in TouchesAux(p)
    BY DEF NoLeak
  <2>1. ASSUME info[q].state = "live" PROVE \E p \in Process : WillFree(p, q)
    <3>1. pc[q] # "dead" \/ Minded(q)
      BY <2>1 DEF ProcessInv, InfoInv, NoInfo
    <3>2. CASE pc[q] # "dead"
      BY <3>2 DEF WillFree
    <3>3. CASE Minded(q)
      <4>1. PICK p \in Process : InList(p, q) \/ InExec(p, q)
        BY <3>3 DEF Minded, Minds
      <4>2. pc[p] # "dead"
        <5>1. pc[p] = "dead" => Children(p) = {}
          BY TargetFacts DEF ProcessInv, PlaceInv
        <5>2. QED BY <4>1, <5>1 DEF InList, InExec
      <4>3. QED BY <4>1, <4>2 DEF WillFree, InList, InExec, Children, TouchesAux
    <3>4. QED BY <3>1, <3>2, <3>3
  <2>2. ASSUME aux[q].state = "live" PROVE \E p \in Process \ {q} : q \in TouchesAux(p)
    BY <2>2 DEF ProcessInv, AuxInv, FamilyInv, InExec, TouchesAux
  <2>3. QED BY <2>1, <2>2
<1>2. QED BY <1>1, ProcessInvInit, ProcessInvStep, PTL DEF Spec

-----------------------------------------------------------------------------
(* The refinement of WaitSpec.  What a step leaves of its variables:       *)
Seen(q)   == info[q].observer_seen
SameKids  == child_infos' = child_infos
SameCodes == \A x \in Process : CodeLeft(x)' = CodeLeft(x)
SameWaits == \A x \in Process : WaitsFor(x)' = WaitsFor(x)
SameSeen  == \A x \in Process : Seen(x)' <=> Seen(x)
Silent    == SameKids /\ SameCodes /\ SameWaits /\ SameSeen /\ UNCHANGED result

LEMMA SilentMaps ==
  ASSUME Silent
  PROVE  UNCHANGED Waits!wvars
<1>1. UNCHANGED << [x \in Process |-> CodeLeft(x)], [x \in Process |-> WaitsFor(x)],
                   { x \in Process : Seen(x) } >>
  BY DEF Silent, SameCodes, SameWaits, SameSeen
<1>2. QED BY <1>1 DEF Silent, SameKids, Seen, Waits!wvars

(* No code is NULL, and only who has exited has left one.                  *)
LEMMA CodeLeftFacts ==
  ASSUME ProcessInv, NEW p \in Process
  PROVE  /\ NULL \notin ExitCodes \cup {Killed} /\ NULL \notin Process
         /\ HasExited(p) <=> pc[p] \in Exited
         /\ HasExited(p) <=> CodeLeft(p) # NULL
         /\ HasExited(p) => CodeLeft(p) = code[p] /\ code[p] \in ExitCodes \cup {Killed}
BY ProcessAssumption DEF ProcessInv, TypeOK, CodeLeft, HasExited, Exited

(* A process exits.                                                        *)
LEMMA ExitMaps ==
  ASSUME ProcessInv, NEW p \in Process,
         pc[p] \notin Exited, pc'[p] = "exit", WaitsFor(p) = NULL, WaitsFor(p)' = NULL,
         \A x \in Process \ {p} : pc'[x] = pc[x],
         UNCHANGED << arg, child_infos, code, result >>, SameSeen
  PROVE  Waits!Next
<1>1. /\ \A x \in Process \ {p} : CodeLeft(x)' = CodeLeft(x)
      /\ CodeLeft(p) = NULL /\ CodeLeft(p)' = code[p] /\ code[p] \in ExitCodes \cup {Killed}
  BY DEF CodeLeft, HasExited, Exited, ProcessInv, TypeOK
<1>2. SameWaits
  BY DEF SameWaits, WaitsFor
<1>3. /\ [x \in Process |-> CodeLeft(x)]' =
           [[x \in Process |-> CodeLeft(x)] EXCEPT ![p] = code[p]]
      /\ UNCHANGED << [x \in Process |-> WaitsFor(x)], { x \in Process : Seen(x) } >>
  BY <1>1, <1>2 DEF SameWaits, SameSeen
<1>4. Waits!Exit(p, code[p])
  BY <1>1, <1>3 DEF Seen, Waits!Exit
<1>5. QED BY <1>1, <1>4 DEF Waits!Next

-----------------------------------------------------------------------------
(* The steps WaitSpec does not see.                                        *)
LEMMA QuietMaps ==
  ASSUME ProcessInv, NEW p \in Process,
         \/ Load(p) \/ Signal(p) \/ ExecDown(p) \/ WaitDown(p) \/ NotifyCode(p)
         \/ ProcessExit(p) \/ DestroyAcquire(p) \/ DestroyRead(p) \/ DestroyMark(p)
         \/ Kill(p) \/ \E q \in Process : Exec(p, q)
         \/ \E c \in ExitCodes : ExitProcess(p, c)
  PROVE  UNCHANGED Waits!wvars
<1>1. TypeOK /\ Target(p) \in Process
  BY TargetFacts DEF ProcessInv
<1>2. pc \in [Process -> Places] /\ info \in [Process -> ProcessInfo] /\ code \in [Process -> ExitCodes \cup {Killed}]
      /\ arg \in [Process -> Process \cup {NULL}]
  BY <1>1 DEF TypeOK
<1>3. CASE \E q \in Process : Exec(p, q)
  <2>1. PICK q \in Process : Exec(p, q)
    BY <1>3
  <2>2. SameKids /\ UNCHANGED result /\ SameCodes /\ SameWaits
    BY <1>2, <2>1 DEF Exec, User, locals, SameKids, SameCodes, SameWaits, CodeLeft, WaitsFor,
                      HasExited
  <2>3. SameSeen
    <3>1. ~Seen(q)
      BY <2>1 DEF Seen, ProcessInv, InfoInv, Exec, User, NoInfo
    <3>2. \A x \in Process : info'[x] = IF x = q THEN [NoInfo EXCEPT !.state = "live"] ELSE info[x]
      BY <1>2, <2>1 DEF Exec
    <3>3. [NoInfo EXCEPT !.state = "live"].observer_seen = FALSE
      BY DEF NoInfo
    <3>4. QED BY <3>1, <3>2, <3>3 DEF SameSeen, Seen
  <2>4. QED BY <2>2, <2>3, SilentMaps DEF Silent
<1>4. CASE \/ Load(p) \/ Signal(p) \/ ExecDown(p) \/ ProcessExit(p) \/ DestroyRead(p) \/ Kill(p)
  <2>1. SameKids /\ UNCHANGED << result, info >> /\ SameSeen
    BY <1>4 DEF Load, Signal, ExecDown, ProcessExit, DestroyRead, Kill, locals, SameKids,
                SameSeen, Seen
  <2>2. SameCodes /\ SameWaits
    BY <1>2, <1>4 DEF Load, Signal, ExecDown, ProcessExit, DestroyRead, Kill, User, Goto,
                      locals, SameCodes, SameWaits, CodeLeft, WaitsFor, HasExited
  <2>3. QED BY <2>1, <2>2, SilentMaps DEF Silent
<1>5. CASE \/ WaitDown(p) \/ NotifyCode(p) \/ DestroyAcquire(p) \/ DestroyMark(p)
           \/ \E c \in ExitCodes : ExitProcess(p, c)
  <2>1. SameKids /\ UNCHANGED result
    BY <1>5 DEF WaitDown, NotifyCode, DestroyAcquire, DestroyMark, ExitProcess, locals, SameKids
  <2>2. SameCodes /\ SameWaits
    BY <1>2, <1>5 DEF WaitDown, NotifyCode, DestroyAcquire, DestroyMark, ExitProcess, User, Goto,
                      locals, SameCodes, SameWaits, CodeLeft, WaitsFor, HasExited
  <2>3. SameSeen
    BY <1>1, <1>2, <1>5 DEF WaitDown, NotifyCode, DestroyAcquire, DestroyMark, ExitProcess,
                            SameSeen, Seen, ProcessInfo
  <2>4. QED BY <2>1, <2>2, <2>3, SilentMaps DEF Silent
<1>6. QED BY <1>3, <1>4, <1>5

(* The exits: after a load that failed, after a signal, and main's.        *)
LEMMA ExitsMap ==
  ASSUME ProcessInv, NEW p \in Process,
         LoadFailed(p) \/ NotifyUp(p) \/ (MainExit /\ p = Main)
  PROVE  Waits!Next
<1>1. pc \in [Process -> Places] /\ info \in [Process -> ProcessInfo]
  BY DEF ProcessInv, TypeOK
<1>2. /\ pc[p] \in {"failed", "notify_up", "user"} /\ pc'[p] = "exit"
      /\ \A x \in Process \ {p} : pc'[x] = pc[x]
      /\ UNCHANGED << arg, child_infos, code, result >>
  BY <1>1 DEF LoadFailed, NotifyUp, MainExit, User, Goto, locals
<1>3. SameSeen
  BY <1>1 DEF LoadFailed, NotifyUp, MainExit, SameSeen, Seen, ProcessInfo
<1>4. WaitsFor(p) = NULL /\ WaitsFor(p)' = NULL /\ pc[p] \notin Exited
  BY <1>2 DEF WaitsFor, Exited
<1>5. QED BY <1>2, <1>3, <1>4, ExitMaps

(* The end of an exec: the child joins the list of its parent.             *)
LEMMA StartMaps ==
  ASSUME ProcessInv, NEW p \in Process, ExecReturn(p)
  PROVE  Waits!Next \/ UNCHANGED Waits!wvars
<1> DEFINE q == arg[p]
           Kids == [x \in Process |-> ToSet(child_infos[x])]
<1>1. /\ pc[p] = "exec_link" /\ q \in Process /\ InExec(p, q)
      /\ UNCHANGED << arg, code, result, info >>
      /\ pc'[p] \in {"run_task", "user"} /\ \A x \in Process \ {p} : pc'[x] = pc[x]
  BY ProcessAssumption DEF ExecReturn, Goto, ProcessInv, TypeOK, InExec
<1>2. SameCodes /\ SameWaits /\ SameSeen
  BY <1>1 DEF SameCodes, SameWaits, SameSeen, CodeLeft, WaitsFor, HasExited, Seen
<1>3. \A x \in Process : q \notin ToSet(child_infos[x])
  BY <1>1 DEF ProcessInv, FamilyInv, InList, Children
<1>4. CASE ~aux[q].success
  <2>1. SameKids
    BY <1>4 DEF ExecReturn, Links, SameKids, ProcessInv, TypeOK
  <2>2. QED BY <1>1, <1>2, <2>1, SilentMaps DEF Silent
<1>5. CASE aux[q].success
  <2>1. child_infos[p] \in Seq(Process) /\ DOMAIN child_infos = Process
    BY DEF ProcessInv, TypeOK
  <2>2. \A x \in Process :
          child_infos'[x] = IF x = p THEN Append(child_infos[p], q) ELSE child_infos[x]
    BY <1>5, <2>1 DEF ExecReturn, Links
  <2>3. ToSet(Append(child_infos[p], q)) = ToSet(child_infos[p]) \cup {q}
    BY <1>1, <2>1, AppendFacts
  <2>4. Kids' = [Kids EXCEPT ![p] = Kids[p] \cup {q}]
    BY <2>2, <2>3
  <2>5. UNCHANGED << [x \in Process |-> CodeLeft(x)], [x \in Process |-> WaitsFor(x)],
                     { x \in Process : Seen(x) }, result >>
    BY <1>1, <1>2 DEF SameCodes, SameWaits, SameSeen
  <2>6. WaitsFor(p) = NULL
    BY <1>1 DEF WaitsFor
  <2>7. Waits!Start(p, q)
    BY <1>3, <2>4, <2>5, <2>6 DEF Seen, Waits!Start
  <2>8. QED BY <1>1, <2>7 DEF Waits!Next
<1>6. QED BY <1>4, <1>5

(* A process calls wait.                                                   *)
LEMMA AskMaps ==
  ASSUME ProcessInv, NEW p \in Process, NEW q \in Process, WaitCall(p, q)
  PROVE  Waits!Next
<1>1. /\ pc[p] \in {"user", "run_task"} /\ pc'[p] = "wait_find" /\ arg'[p] = q
      /\ \A x \in Process \ {p} : pc'[x] = pc[x] /\ arg'[x] = arg[x]
      /\ UNCHANGED << child_infos, code, result, info >>
  BY DEF WaitCall, User, Goto, locals, ProcessInv, TypeOK
<1>2. SameCodes /\ SameSeen /\ CodeLeft(p) = NULL
  BY <1>1 DEF SameCodes, SameSeen, CodeLeft, HasExited, Seen
<1>3. /\ WaitsFor(p) = NULL /\ WaitsFor(p)' = q
      /\ \A x \in Process \ {p} : WaitsFor(x)' = WaitsFor(x)
  BY <1>1 DEF WaitsFor
<1>4. /\ [x \in Process |-> WaitsFor(x)]' = [[x \in Process |-> WaitsFor(x)] EXCEPT ![p] = q]
      /\ UNCHANGED << [x \in Process |-> CodeLeft(x)], { x \in Process : Seen(x) } >>
  BY <1>2, <1>3 DEF SameCodes, SameSeen
<1>5. Waits!Ask(p, q)
  BY <1>1, <1>2, <1>3, <1>4 DEF Seen, Waits!Ask
<1>6. QED BY <1>5 DEF Waits!Next

(* A wait ends, with an answer.                                            *)
Delivers(p, q) ==
  /\ InList(p, q) /\ ~Seen(q) /\ CodeLeft(q) # NULL
  /\ result' = [result EXCEPT ![p] = [child |-> q, code |-> CodeLeft(q)]]
  /\ \A x \in Process : Seen(x)' <=> Seen(x) \/ x = q

Refuses(p, q) ==
  /\ ~InList(p, q) \/ Seen(q)
  /\ result' = [result EXCEPT ![p] = [child |-> q, code |-> Killed]]
  /\ SameSeen

LEMMA ReturnMaps ==
  ASSUME NEW p \in Process, NEW q \in Process, q # NULL,
         WaitsFor(p) = q, WaitsFor(p)' = NULL,
         \A x \in Process \ {p} : WaitsFor(x)' = WaitsFor(x),
         SameKids, SameCodes, Delivers(p, q) \/ Refuses(p, q)
  PROVE  Waits!Next
<1> DEFINE Asking == [x \in Process |-> WaitsFor(x)]
<1>1. Asking[p] = q
  OBVIOUS
<1>2. Asking' = [Asking EXCEPT ![p] = NULL]
  <2>1. \A x \in Process : WaitsFor(x)' = IF x = p THEN NULL ELSE Asking[x]
    OBVIOUS
  <2>2. QED BY <2>1
<1>3. UNCHANGED << [x \in Process |-> ToSet(child_infos[x])], [x \in Process |-> CodeLeft(x)] >>
  BY DEF SameKids, SameCodes
<1>4. [x \in Process |-> ToSet(child_infos[x])][p] = Children(p)
      /\ [x \in Process |-> CodeLeft(x)][q] = CodeLeft(q)
  BY DEF Children
<1>5. CASE Delivers(p, q)
  <2>1. { x \in Process : Seen(x) }' = { x \in Process : Seen(x) } \cup {q}
    BY <1>5 DEF Delivers
  <2>2. Waits!Return(p)
    BY <1>1, <1>2, <1>3, <1>4, <1>5, <2>1
    DEF Delivers, InList, Seen, Waits!Return, Waits!Deliver
  <2>3. QED BY <2>2 DEF Waits!Next
<1>6. CASE Refuses(p, q)
  <2>1. UNCHANGED { x \in Process : Seen(x) }
    BY <1>6 DEF Refuses, SameSeen
  <2>2. Waits!Return(p)
    BY <1>1, <1>2, <1>3, <1>4, <1>6, <2>1
    DEF Refuses, InList, Seen, Waits!Return, Waits!Refuse
  <2>3. QED BY <2>2 DEF Waits!Next
<1>7. QED BY <1>5, <1>6

(* A wait that finds no child to wait for is refused.                      *)
LEMMA RefuseMaps ==
  ASSUME ProcessInv, NEW p \in Process, Wait(p)
  PROVE  Waits!Next \/ UNCHANGED Waits!wvars
<1> DEFINE q == arg[p]
<1>1. /\ pc[p] = "wait_find" /\ q \in Process /\ pc'[p] \in {"wait_down", "user"}
      /\ \A x \in Process \ {p} : pc'[x] = pc[x]
      /\ UNCHANGED << arg, child_infos, code, info >>
  BY DEF Wait, Goto, ProcessInv, TypeOK
<1>2. SameCodes /\ SameSeen /\ SameKids
  BY <1>1 DEF SameCodes, SameSeen, SameKids, CodeLeft, HasExited, Seen
<1>3. \A x \in Process \ {p} : WaitsFor(x)' = WaitsFor(x)
  BY <1>1 DEF WaitsFor
<1>4. CASE Waitable(p, q)
  <2>1. pc'[p] = "wait_down" /\ UNCHANGED result
    BY <1>1, <1>4 DEF Wait, Goto, ProcessInv, TypeOK
  <2>2. SameWaits
    BY <1>1, <1>3, <2>1 DEF SameWaits, WaitsFor
  <2>3. QED BY <1>2, <2>1, <2>2, SilentMaps DEF Silent
<1>5. CASE ~Waitable(p, q)
  <2>1. pc'[p] = "user" /\ result' = [result EXCEPT ![p] = [child |-> q, code |-> Killed]]
    BY <1>1, <1>5 DEF Wait, Goto, ProcessInv, TypeOK
  <2>2. WaitsFor(p) = q /\ WaitsFor(p)' = NULL /\ q # NULL
    BY <1>1, <2>1, ProcessAssumption DEF WaitsFor
  <2>3. Refuses(p, q)
    BY <1>1, <1>2, <1>5, <2>1 DEF Waitable, Refuses, InList, Children, Seen
  <2>4. QED BY <1>1, <1>2, <1>3, <2>2, <2>3, ReturnMaps
<1>6. QED BY <1>4, <1>5

(* The code is delivered, and the child remembered as waited for.          *)
LEMMA DeliverMaps ==
  ASSUME ProcessInv, NEW p \in Process, WaitReturn(p)
  PROVE  Waits!Next
<1> DEFINE q == arg[p]
<1>1. /\ pc[p] = "wait_read" /\ q \in Process /\ InList(p, q) /\ ~Seen(q) /\ HasExited(q)
      /\ pc'[p] = "user" /\ \A x \in Process \ {p} : pc'[x] = pc[x]
      /\ UNCHANGED << arg, child_infos, code >>
      /\ result' = [result EXCEPT ![p] = [child |-> q, code |-> info[q].exit_code]]
  BY DEF WaitReturn, Goto, ProcessInv, TypeOK, PlaceInv, WaitInv, Seen, Exited, HasExited
<1>2. CodeLeft(q) = info[q].exit_code /\ CodeLeft(q) # NULL
  BY <1>1, CodeLeftFacts DEF ProcessInv, CodeInv
<1>3. SameCodes
  BY <1>1 DEF SameCodes, CodeLeft, HasExited
<1>4. /\ WaitsFor(p) = q /\ WaitsFor(p)' = NULL /\ q # NULL
      /\ \A x \in Process \ {p} : WaitsFor(x)' = WaitsFor(x)
  BY <1>1, ProcessAssumption DEF WaitsFor
<1>5. \A x \in Process : Seen(x)' <=> Seen(x) \/ x = q
  BY <1>1 DEF WaitReturn, ProcessInv, TypeOK, ProcessInfo, Seen
<1>6. Delivers(p, q) /\ SameKids
  BY <1>1, <1>2, <1>5 DEF Delivers, SameKids
<1> HIDE DEF q
<1>7. QED BY <1>1, <1>3, <1>4, <1>6, ReturnMaps

(* A process that exits lets go of its children one by one.                *)
LEMMA LeaveMaps ==
  ASSUME ProcessInv, NEW p \in Process, DestroyRelease(p) \/ DestroyFree(p)
  PROVE  Waits!Next \/ UNCHANGED Waits!wvars
<1> DEFINE Kids == [x \in Process |-> ToSet(child_infos[x])]
<1>1. /\ pc[p] \in {"unlock", "free"} /\ pc'[p] \in {"free", "dead", "destroy"}
      /\ \A x \in Process \ {p} : pc'[x] = pc[x]
      /\ UNCHANGED << arg, code, result >>
      /\ \/ child_infos' = child_infos
         \/ child_infos[p] # << >> /\ child_infos' = [child_infos EXCEPT ![p] = Tail(@)]
  BY DEF DestroyRelease, DestroyFree, DestroyNext, Goto, ProcessInv, TypeOK
<1>2. SameSeen
  <2>1. Target(p) \in Process /\ info \in [Process -> ProcessInfo]
    BY TargetFacts DEF ProcessInv, TypeOK
  <2>2. QED BY <2>1 DEF DestroyRelease, DestroyFree, SameSeen, Seen, ProcessInfo
<1>3. SameCodes /\ SameWaits /\ CodeLeft(p) # NULL
  BY <1>1, CodeLeftFacts DEF SameCodes, SameWaits, CodeLeft, WaitsFor, HasExited
<1>4. CASE child_infos' = child_infos
  BY <1>1, <1>2, <1>3, <1>4, SilentMaps DEF Silent, SameKids
<1>5. CASE child_infos[p] # << >> /\ child_infos' = [child_infos EXCEPT ![p] = Tail(@)]
  <2>1. child_infos[p] \in Seq(Process) /\ IsInjective(child_infos[p]) /\ DOMAIN child_infos = Process
    BY DEF ProcessInv, TypeOK, FamilyInv
  <2>2. PICK q \in Process : q = Head(child_infos[p])
    <3>1. ASSUME NEW w \in Seq(Process), w # << >> PROVE Head(w) \in Process
      BY <3>1
    <3>2. QED BY <1>5, <2>1, <3>1
  <2>3. ToSet(Tail(child_infos[p])) = ToSet(child_infos[p]) \ {q}
    BY <1>5, <2>1, <2>2, TailFacts
  <2>4. Kids' = [Kids EXCEPT ![p] = Kids[p] \ {q}]
    BY <1>5, <2>1, <2>3
  <2>5. UNCHANGED << [x \in Process |-> CodeLeft(x)], [x \in Process |-> WaitsFor(x)],
                     { x \in Process : Seen(x) }, result >>
    BY <1>1, <1>2, <1>3 DEF SameCodes, SameWaits, SameSeen
  <2>6. Waits!Leave(p, q)
    BY <1>3, <2>4, <2>5 DEF Seen, Waits!Leave
  <2>7. QED BY <2>6 DEF Waits!Next
<1>6. QED BY <1>1, <1>4, <1>5

(* Wait keeps the promise of WaitSpec: the first wait for a child returns  *)
(* the code it exited with, and not before; every other wait returns -1.   *)
THEOREM WaitImplementsSpec == Spec => ImplementsWaitSpec
<1>1. Init => Waits!Init
  <2>1. ASSUME Init PROVE Waits!Init
    <3>1. \A x \in Process : /\ ToSet(child_infos[x]) = {}
                             /\ CodeLeft(x) = NULL /\ WaitsFor(x) = NULL /\ ~Seen(x)
      BY <2>1 DEF Init, ToSet, CodeLeft, HasExited, WaitsFor, Seen, NoInfo
    <3>2. result = [x \in Process |-> [child |-> NULL, code |-> Killed]]
      BY <2>1 DEF Init
    <3>3. QED BY <3>1, <3>2 DEF Seen, Waits!Init
  <2>2. QED BY <2>1
<1>2. ProcessInv /\ [Next]_vars => [Waits!Next]_(Waits!wvars)
  <2> SUFFICES ASSUME ProcessInv, [Next]_vars
               PROVE  Waits!Next \/ UNCHANGED Waits!wvars
    OBVIOUS
  <2>1. CASE UNCHANGED vars
    <3>1. Silent
      BY <2>1 DEF vars, locals, Silent, SameKids, SameCodes, SameWaits, SameSeen, CodeLeft,
                  WaitsFor, HasExited, Seen
    <3>2. QED BY <3>1, SilentMaps
  <2>2. CASE MainExit
    BY <2>2, ExitsMap, ProcessAssumption
  <2>3. ASSUME NEW p \in Process, KernelCode(p) PROVE Waits!Next \/ UNCHANGED Waits!wvars
    <3>1. ASSUME WaitCall(Main, arg[Main]), p = Main PROVE Waits!Next
      <4>1. arg[Main] \in Process
        BY <3>1, ProcessAssumption DEF WaitCall, ProcessInv, TypeOK
      <4>2. QED BY <3>1, <4>1, AskMaps
    <3>2. QED BY <2>3, <3>1, QuietMaps, ExitsMap, StartMaps, RefuseMaps, DeliverMaps, LeaveMaps
              DEF KernelCode
  <2>4. ASSUME NEW p \in Process, Program(p) PROVE Waits!Next \/ UNCHANGED Waits!wvars
    BY <2>4, QuietMaps, AskMaps DEF Program
  <2>5. QED BY <2>1, <2>2, <2>3, <2>4 DEF Next
<1>3. QED
  BY <1>1, <1>2, ProcessInvInit, ProcessInvStep, PTL DEF Spec, ImplementsWaitSpec, Waits!Spec
=============================================================================
