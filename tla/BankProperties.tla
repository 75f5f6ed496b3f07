--------------------------- MODULE BankProperties ---------------------------
(***************************************************************************)
(* What the mutexes of the bank are for.                                   *)
(***************************************************************************)
EXTENDS Bank, Functions

(* Locks around a branch: while one of them is taken an operation may be   *)
(* half done.                                                              *)
Quiet(b) ==
  /\ owner[BranchLock(b)] = NULL
  /\ \A a \in AccountsOf(b) : owner[AccountLock(a)] = NULL

(* The balance kept for a branch is the sum of its accounts (the condition *)
(* of Branch_Validate) whenever no operation is at work in it: no change   *)
(* of an account or of a branch is lost, however deposits, withdrawals and *)
(* transfers meet.                                                         *)
BranchesAgree ==
  \A b \in Branch :
    Quiet(b) => branchBalance[b] = FoldFunctionOnSet(+, 0, balance, AccountsOf(b))

(* Bank_Balance never sees a transfer half done: when no money enters or   *)
(* leaves the bank every answer is the amount it opened with.              *)
BankBalanceExact == balanceErrors = {}

(* A withdrawal never takes an account below zero: the balance it looked   *)
(* at is still there when it pays out, whatever transfers run beside it.   *)
(* A transfer looks at the balance, lets go of the account and locks it    *)
(* again, and gives no such promise.                                       *)
WithdrawalsCovered ==
  [][\A w \in Worker :
       pc[w] = "write" /\ pc'[w] # "write" /\ action[w].cmd = "withdraw"
         => balance'[action[w].dst] >= 0]_vars

(* The mutex a worker is trying to take.                                   *)
Wanted(w) ==
  CASE pc[w] = "lock" -> {LockOrder(action[w])[i[w]]}
    [] pc[w] = "check_lock" -> {AccountLock(action[w].src)}
    [] OTHER -> {}

(* No workers wait for each other in a circle: in every set of workers one *)
(* wants no mutex, or one that is free or that a worker outside the set    *)
(* has, and no worker has kept a mutex past the end of its command.        *)
NoCircleOfWaiters ==
  \A C \in (SUBSET Worker) \ {{}} :
    \E w \in C : \A l \in Wanted(w) :
      owner[l] # NULL => owner[l] \notin C /\ pc[owner[l]] \notin {"next", "exit"}

(* Every worker gets through its commands, whatever mutexes it meets on    *)
(* the way.                                                                *)
WorkersFinish == <>(\A w \in Worker : pc[w] = "exit")

=============================================================================
