---------------------------- MODULE BankReports ----------------------------
(***************************************************************************)
(* The nightly reports of the bank (report.c): the workers meet, the last  *)
(* to come writes the report and lets the others go on.  Between reports   *)
(* they log their transfers in the report to come.                         *)
(*                                                                         *)
(* workersFinished is counted under inc_lock, tested under check_lock and  *)
(* reset under neither; favWorker is compared without a lock.  A step is   *)
(* one access to one of them, or a critical section of a mutex around      *)
(* accesses that nothing outside of it races with.                         *)
(***************************************************************************)
EXTENDS Integers, FiniteSets

CONSTANTS
  Worker,
  NULL,               (* favWorker before the first report                 *)
  MAX_NUM_REPORTS,
  MAX_LOG_ENTRIES,
  Periods             (* bound: reports each worker asks for               *)

numWorkers == Cardinality(Worker)

VARIABLES
  workersFinished,
  inc_lock,           (* the worker that holds it                          *)
  lockIfArrived,      (* value of the semaphore                            *)
  favWorker,
  numReports,
  log,                (* entries and overflow of each report               *)
  pc, reg, posts,     (* where a worker is, what it read, sem_posts it owes *)
  asked               (* reports each worker has asked for                 *)

vars == << workersFinished, inc_lock, lockIfArrived, favWorker, numReports, log,
           pc, reg, posts, asked >>

Init ==
  /\ workersFinished = 0 /\ inc_lock = NULL /\ lockIfArrived = 0
  /\ favWorker = NULL
  /\ numReports = 0
  /\ log = [r \in 0 .. MAX_NUM_REPORTS - 1 |-> [numLogEntries |-> 0, hasOverflowed |-> FALSE]]
  /\ pc = [w \in Worker |-> "work"]
  /\ reg = [w \in Worker |-> 0]
  /\ posts = [w \in Worker |-> 0]
  /\ asked = [w \in Worker |-> 0]

Goto(w, l) == pc' = [pc EXCEPT ![w] = l]

(* Report_Transfer, all of it under rep_lock, of a transfer that is large  *)
(* enough to be logged.                                                    *)
Transfer(w) ==
  /\ pc[w] = "work" /\ numReports < MAX_NUM_REPORTS
  /\ log' = IF log[numReports].numLogEntries >= MAX_LOG_ENTRIES
            THEN [log EXCEPT ![numReports].hasOverflowed = TRUE]
            ELSE [log EXCEPT ![numReports].numLogEntries = @ + 1]
  /\ UNCHANGED << workersFinished, inc_lock, lockIfArrived, favWorker, numReports, pc, reg,
                  posts, asked >>

-----------------------------------------------------------------------------
(* Report_DoReport: workersFinished++ under inc_lock.                      *)
Arrive(w) ==
  /\ pc[w] = "work" /\ asked[w] < Periods /\ inc_lock = NULL
  /\ inc_lock' = w
  /\ reg' = [reg EXCEPT ![w] = workersFinished]
  /\ asked' = [asked EXCEPT ![w] = @ + 1]
  /\ Goto(w, "count")
  /\ UNCHANGED << workersFinished, lockIfArrived, favWorker, numReports, log, posts >>

Count(w) ==
  /\ pc[w] = "count"
  /\ workersFinished' = reg[w] + 1
  /\ inc_lock' = NULL
  /\ Goto(w, "check")
  /\ UNCHANGED << lockIfArrived, favWorker, numReports, log, reg, posts, asked >>

(* The test under check_lock.                                              *)
Check(w) ==
  /\ pc[w] = "check"
  /\ IF workersFinished < numWorkers
     THEN Goto(w, "wait") /\ UNCHANGED favWorker
     ELSE Goto(w, "compare") /\ favWorker' = w
  /\ UNCHANGED << workersFinished, inc_lock, lockIfArrived, numReports, log, reg, posts, asked >>

SemWait(w) ==
  /\ pc[w] = "wait" /\ lockIfArrived > 0
  /\ lockIfArrived' = lockIfArrived - 1
  /\ Goto(w, "compare")
  /\ UNCHANGED << workersFinished, inc_lock, favWorker, numReports, log, reg, posts, asked >>

(* The comparison with favWorker, and the test at the start of             *)
(* doActualReport.                                                         *)
Compare(w) ==
  /\ pc[w] = "compare"
  /\ Goto(w, IF favWorker = w /\ numReports < MAX_NUM_REPORTS THEN "report" ELSE "work")
  /\ UNCHANGED << workersFinished, inc_lock, lockIfArrived, favWorker, numReports, log, reg,
                  posts, asked >>

(* doActualReport: numReports is read, then written.                       *)
ReadReports(w) ==
  /\ pc[w] = "report"
  /\ reg' = [reg EXCEPT ![w] = numReports]
  /\ Goto(w, "number")
  /\ UNCHANGED << workersFinished, inc_lock, lockIfArrived, favWorker, numReports, log, posts,
                  asked >>

WriteReports(w) ==
  /\ pc[w] = "number"
  /\ numReports' = reg[w] + 1
  /\ Goto(w, "reset")
  /\ UNCHANGED << workersFinished, inc_lock, lockIfArrived, favWorker, log, reg, posts, asked >>

Reset(w) ==
  /\ pc[w] = "reset"
  /\ workersFinished' = 0
  /\ posts' = [posts EXCEPT ![w] = numWorkers - 1]
  /\ Goto(w, "post")
  /\ UNCHANGED << inc_lock, lockIfArrived, favWorker, numReports, log, reg, asked >>

SemPost(w) ==
  /\ pc[w] = "post"
  /\ IF posts[w] > 0
     THEN /\ lockIfArrived' = lockIfArrived + 1
          /\ posts' = [posts EXCEPT ![w] = @ - 1] /\ UNCHANGED pc
     ELSE Goto(w, "work") /\ UNCHANGED << lockIfArrived, posts >>
  /\ UNCHANGED << workersFinished, inc_lock, favWorker, numReports, log, reg, asked >>

Step(w) ==
  \/ Transfer(w)
  \/ Arrive(w) \/ Count(w) \/ Check(w) \/ SemWait(w) \/ Compare(w)
  \/ ReadReports(w) \/ WriteReports(w) \/ Reset(w) \/ SemPost(w)

Next == \E w \in Worker : Step(w)

Spec == Init /\ [][Next]_vars

-----------------------------------------------------------------------------
(* "Report_DoReport is called by every worker for each report period", and *)
(* the last to come writes the report: nobody is back at work before the   *)
(* report it asked for is written, and none is written before all have     *)
(* asked for it.                                                           *)
ReportsTogether ==
  \A w \in Worker :
    /\ numReports <= asked[w]
    /\ pc[w] = "work" => numReports >= asked[w]
=============================================================================
