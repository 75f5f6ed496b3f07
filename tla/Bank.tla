-------------------------------- MODULE Bank --------------------------------
(***************************************************************************)
(* The bank of Programming Paradigms assignment 6: workers that deposit,   *)
(* withdraw, transfer and ask for the balance of the bank (teller.c,       *)
(* account.c, branch.c, bank.c, the loop of Worker in bankdriver.c).       *)
(*                                                                         *)
(* Every account and every branch has a mutex, and bank_bal keeps both     *)
(* halves of a transfer together for Bank_Balance.  A step of a worker is  *)
(* one operation on a mutex or one access to a balance.  The balance of a  *)
(* single branch is only printed and is left out; reports are the subject  *)
(* of BankReports.                                                         *)
(***************************************************************************)
EXTENDS Integers, Sequences

CONSTANTS
  Worker,
  numberBranches,
  accountsPerBranch,
  InitialAmount,
  Amounts,          (* what a command may ask for                          *)
  CmdCount,         (* commands of each worker                             *)
  NULL

ASSUME BankAssumption ==
  /\ numberBranches \in Nat \ {0} /\ accountsPerBranch \in Nat \ {0}
  /\ InitialAmount \in Nat /\ Amounts \subseteq Nat /\ CmdCount \in Nat
  /\ NULL \notin Worker

Branch == 0 .. numberBranches - 1

(* An account number is made of the branch and the place in the branch.    *)
Account == Branch \X (0 .. accountsPerBranch - 1)

BranchOf(a) == a[1]
AccountsOf(b) == {a \in Account : BranchOf(a) = b}

BranchLock(b) == << "branch", b >>
AccountLock(a) == << "account", a >>
bank_bal == << "bank_bal" >>
Lock == {BranchLock(b) : b \in Branch} \cup {AccountLock(a) : a \in Account} \cup {bank_bal}

VARIABLES
  noFundsFlow,      (* ACTION_NO_FUNDS_FLOW: nothing is paid in or out     *)
  balance,          (* of every account                                    *)
  branchBalance,
  owner,            (* the worker that holds a mutex                       *)
  pc, action,       (* where a worker is, and what it was told to do       *)
  i,                (* the next mutex, account or branch of its loop       *)
  reg,              (* the balance it read, or the total so far            *)
  cmdCount,         (* the commands it still gets                          *)
  balanceErrors     (* workers that were told a wrong balance of the bank  *)

locals == << pc, action, i, reg, cmdCount >>
vars == << noFundsFlow, balance, branchBalance, owner, locals, balanceErrors >>

NoAction == [cmd |-> "none", src |-> << 0, 0 >>, dst |-> << 0, 0 >>, amount |-> 0]

Init ==
  /\ noFundsFlow \in BOOLEAN
  /\ balance = [a \in Account |-> InitialAmount]
  /\ branchBalance = [b \in Branch |-> accountsPerBranch * InitialAmount]
  /\ owner = [l \in Lock |-> NULL]
  /\ pc = [w \in Worker |-> "next"]
  /\ action = [w \in Worker |-> NoAction]
  /\ i = [w \in Worker |-> 1]
  /\ reg = [w \in Worker |-> 0]
  /\ cmdCount = [w \in Worker |-> CmdCount]
  /\ balanceErrors = {}

Goto(w, l) == pc' = [pc EXCEPT ![w] = l]

Acquire(w, l) == owner[l] = NULL /\ owner' = [owner EXCEPT ![l] = w]

(* Mutation of BranchLocks: a transfer between branches locks neither.     *)
BranchLocksForgotten(act) ==
  IF act.cmd = "transfer" THEN << >> ELSE << BranchLock(BranchOf(act.dst)) >>

(* The later branch is locked before the earlier.                          *)
BranchLocks(act) ==
  IF act.cmd \in {"deposit", "withdraw"} THEN << BranchLock(BranchOf(act.dst)) >>
  ELSE CASE BranchOf(act.src) < BranchOf(act.dst) ->
              << BranchLock(BranchOf(act.dst)), BranchLock(BranchOf(act.src)) >>
         [] BranchOf(act.src) > BranchOf(act.dst) ->
              << BranchLock(BranchOf(act.src)), BranchLock(BranchOf(act.dst)) >>
         [] OTHER -> << >>

(* Mutation of AccountLocks: the account paid from is locked first.        *)
AccountLocksSourceFirst(act) ==
  IF act.cmd = "transfer"
  THEN << AccountLock(act.src), AccountLock(act.dst) >> ELSE << AccountLock(act.dst) >>

(* Mutation of AccountLocks: a withdrawal locks the branch alone.          *)
AccountLocksNotOnWithdrawal(act) ==
  IF act.cmd = "withdraw" THEN << >>
  ELSE IF act.cmd = "deposit" THEN << AccountLock(act.dst) >>
  ELSE IF \/ BranchOf(act.src) < BranchOf(act.dst)
          \/ BranchOf(act.src) = BranchOf(act.dst) /\ act.src[2] > act.dst[2]
  THEN << AccountLock(act.src), AccountLock(act.dst) >>
  ELSE << AccountLock(act.dst), AccountLock(act.src) >>

(* Accounts are locked in the order of their branches and, in one branch,  *)
(* the one at the higher address first.                                    *)
AccountLocks(act) ==
  IF act.cmd \in {"deposit", "withdraw"} THEN << AccountLock(act.dst) >>
  ELSE IF \/ BranchOf(act.src) < BranchOf(act.dst)
          \/ BranchOf(act.src) = BranchOf(act.dst) /\ act.src[2] > act.dst[2]
  THEN << AccountLock(act.src), AccountLock(act.dst) >>
  ELSE << AccountLock(act.dst), AccountLock(act.src) >>

(* Mutation of BankLock: transfers run beside Bank_Balance.                *)
BankLockForgotten(act) == IF act.cmd = "balance" THEN << bank_bal >> ELSE << >>

BankLock(act) == IF act.cmd \in {"transfer", "balance"} THEN << bank_bal >> ELSE << >>

(* The mutexes of a command in the order in which it takes them.           *)
LockOrder(act) ==
  IF act.cmd = "balance" THEN BankLock(act)
  ELSE BranchLocks(act) \o AccountLocks(act) \o BankLock(act)

(* Mutation of UnlockOrder: a transfer keeps bank_bal.                     *)
UnlockOrderBankForgotten(act) ==
  IF act.cmd = "balance" THEN BankLock(act) ELSE AccountLocks(act) \o BranchLocks(act)

(* The order in which it gives them back.                                  *)
UnlockOrder(act) ==
  CASE act.cmd = "balance" -> BankLock(act)
    [] act.cmd \in {"deposit", "withdraw"} -> AccountLocks(act) \o BranchLocks(act)
    [] OTHER -> BankLock(act) \o << AccountLock(act.src), AccountLock(act.dst) >> \o
                (IF BranchLocks(act) = << >> THEN << >>
                 ELSE << BranchLock(BranchOf(act.src)), BranchLock(BranchOf(act.dst)) >>)

(* The calls of Account_Adjust a command makes.                            *)
Adjustments(act) ==
  CASE act.cmd = "deposit" -> << [account |-> act.dst, change |-> act.amount] >>
    [] act.cmd = "withdraw" -> << [account |-> act.dst, change |-> - act.amount] >>
    [] OTHER -> << [account |-> act.src, change |-> - act.amount],
                   [account |-> act.dst, change |-> act.amount] >>

(* The balance of a branch is left alone by transfers inside it.           *)
UpdatesBranch(act) == act.cmd # "transfer" \/ BranchOf(act.src) # BranchOf(act.dst)

-----------------------------------------------------------------------------
(* Action_GetNext: a command drawn at random.  Deposits and withdrawals    *)
(* are of nothing when no funds may flow.                                  *)
Commands ==
  [cmd : {"deposit", "withdraw"}, src : {<< 0, 0 >>}, dst : Account,
   amount : IF noFundsFlow THEN {0} ELSE Amounts]
  \cup [cmd : {"transfer"}, src : Account, dst : Account, amount : Amounts]
  \cup {[NoAction EXCEPT !.cmd = "balance"]}

GetNext(w) ==
  /\ pc[w] = "next" /\ cmdCount[w] > 0
  /\ \E act \in Commands :
       /\ action' = [action EXCEPT ![w] = act]
       /\ Goto(w, IF act.cmd = "transfer" THEN "check_lock" ELSE "lock")
  /\ cmdCount' = [cmdCount EXCEPT ![w] = @ - 1]
  /\ UNCHANGED << noFundsFlow, balance, branchBalance, owner, i, reg, balanceErrors >>

Exit(w) ==
  /\ pc[w] = "next" /\ cmdCount[w] = 0
  /\ Goto(w, "exit")
  /\ UNCHANGED << noFundsFlow, balance, branchBalance, owner, action, i, reg, cmdCount,
                  balanceErrors >>

(* Teller_DoTransfer looks at the balance with only the source locked, and *)
(* lets go of it again.                                                    *)
CheckLock(w) ==
  /\ pc[w] = "check_lock" /\ Acquire(w, AccountLock(action[w].src))
  /\ Goto(w, "check")
  /\ UNCHANGED << noFundsFlow, balance, branchBalance, action, i, reg, cmdCount, balanceErrors >>

Check(w) ==
  LET act == action[w] IN
  /\ pc[w] = "check"
  /\ owner' = [owner EXCEPT ![AccountLock(act.src)] = NULL]
  /\ IF act.amount > balance[act.src] \/ act.src = act.dst
     THEN Goto(w, "next") /\ action' = [action EXCEPT ![w] = NoAction]
     ELSE Goto(w, "lock") /\ UNCHANGED action
  /\ UNCHANGED << noFundsFlow, balance, branchBalance, i, reg, cmdCount, balanceErrors >>

(* mut(wait, ...), then what the command does with the mutexes held.       *)
LockNext(w) ==
  LET order == LockOrder(action[w]) IN
  /\ pc[w] = "lock" /\ Acquire(w, order[i[w]])
  /\ IF i[w] < Len(order)
     THEN i' = [i EXCEPT ![w] = @ + 1] /\ UNCHANGED pc
     ELSE /\ i' = [i EXCEPT ![w] = 1]
          /\ Goto(w, CASE action[w].cmd = "withdraw" -> "funds"
                       [] action[w].cmd = "balance" -> "sum"
                       [] OTHER -> "read")
  /\ UNCHANGED << noFundsFlow, balance, branchBalance, action, reg, cmdCount, balanceErrors >>

Funds(w) ==
  /\ pc[w] = "funds"
  /\ Goto(w, IF action[w].amount > balance[action[w].dst] THEN "unlock" ELSE "read")
  /\ UNCHANGED << noFundsFlow, balance, branchBalance, owner, action, i, reg, cmdCount,
                  balanceErrors >>

-----------------------------------------------------------------------------
(* Account_Adjust reads and writes the account, then the branch.           *)
Adjusted(w) == Adjustments(action[w])[i[w]]

AdjustNext(w) ==
  IF i[w] < Len(Adjustments(action[w]))
  THEN Goto(w, "read") /\ i' = [i EXCEPT ![w] = @ + 1]
  ELSE Goto(w, "unlock") /\ i' = [i EXCEPT ![w] = 1]

ReadAccount(w) ==
  /\ pc[w] = "read"
  /\ reg' = [reg EXCEPT ![w] = balance[Adjusted(w).account]]
  /\ Goto(w, "write")
  /\ UNCHANGED << noFundsFlow, balance, branchBalance, owner, action, i, cmdCount, balanceErrors >>

WriteAccount(w) ==
  /\ pc[w] = "write"
  /\ balance' = [balance EXCEPT ![Adjusted(w).account] = reg[w] + Adjusted(w).change]
  /\ reg' = [reg EXCEPT ![w] = 0]
  /\ IF UpdatesBranch(action[w]) THEN Goto(w, "branch_read") /\ UNCHANGED i ELSE AdjustNext(w)
  /\ UNCHANGED << noFundsFlow, branchBalance, owner, action, cmdCount, balanceErrors >>

ReadBranch(w) ==
  /\ pc[w] = "branch_read"
  /\ reg' = [reg EXCEPT ![w] = branchBalance[BranchOf(Adjusted(w).account)]]
  /\ Goto(w, "branch_write")
  /\ UNCHANGED << noFundsFlow, balance, branchBalance, owner, action, i, cmdCount, balanceErrors >>

WriteBranch(w) ==
  /\ pc[w] = "branch_write"
  /\ branchBalance' = [branchBalance EXCEPT ![BranchOf(Adjusted(w).account)] =
                         reg[w] + Adjusted(w).change]
  /\ reg' = [reg EXCEPT ![w] = 0]
  /\ AdjustNext(w)
  /\ UNCHANGED << noFundsFlow, balance, owner, action, cmdCount, balanceErrors >>

(* Bank_Balance adds up the branches; the worker compares the total with   *)
(* the one taken at the start when it tests the balances.                  *)
SumBranch(w) ==
  LET total == reg[w] + branchBalance[i[w] - 1] IN
  /\ pc[w] = "sum"
  /\ IF i[w] < numberBranches
     THEN i' = [i EXCEPT ![w] = @ + 1] /\ reg' = [reg EXCEPT ![w] = total]
          /\ UNCHANGED << pc, balanceErrors >>
     ELSE /\ i' = [i EXCEPT ![w] = 1] /\ reg' = [reg EXCEPT ![w] = 0]
          /\ balanceErrors' =
               IF noFundsFlow /\ total # numberBranches * accountsPerBranch * InitialAmount
               THEN balanceErrors \cup {w} ELSE balanceErrors
          /\ Goto(w, "unlock")
  /\ UNCHANGED << noFundsFlow, balance, branchBalance, owner, action, cmdCount >>

Unlock(w) ==
  LET order == UnlockOrder(action[w]) IN
  /\ pc[w] = "unlock"
  /\ owner' = [owner EXCEPT ![order[i[w]]] = NULL]
  /\ IF i[w] < Len(order)
     THEN i' = [i EXCEPT ![w] = @ + 1] /\ UNCHANGED << pc, action >>
     ELSE /\ i' = [i EXCEPT ![w] = 1]
          /\ Goto(w, "next") /\ action' = [action EXCEPT ![w] = NoAction]
  /\ UNCHANGED << noFundsFlow, balance, branchBalance, reg, cmdCount, balanceErrors >>

Step(w) ==
  \/ GetNext(w) \/ Exit(w)
  \/ CheckLock(w) \/ Check(w)
  \/ LockNext(w) \/ Funds(w)
  \/ ReadAccount(w) \/ WriteAccount(w) \/ ReadBranch(w) \/ WriteBranch(w)
  \/ SumBranch(w) \/ Unlock(w)

(* MultipleWorkers has joined all workers.                                 *)
Joined == (\A w \in Worker : pc[w] = "exit") /\ UNCHANGED vars

Next == Joined \/ \E w \in Worker : Step(w)

Spec == Init /\ [][Next]_vars

(* A worker that can go on does: threads of the operating system.          *)
FairSpec == Spec /\ \A w \in Worker : WF_vars(Step(w))
=============================================================================
