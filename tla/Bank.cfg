SPECIFICATION FairSpec
CONSTANTS
  Worker = {w1, w2}
  numberBranches = 2
  accountsPerBranch = 2
  InitialAmount = 2
  Amounts = {1, 2}
  CmdCount = 1
  NULL = NULL
INVARIANTS
  BranchesAgree
  BankBalanceExact
  NoCircleOfWaiters
PROPERTIES
  WithdrawalsCovered
  WorkersFinish
