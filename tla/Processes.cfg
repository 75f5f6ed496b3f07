SPECIFICATION FairSpec
CONSTANTS
  Process = {main, p, q}
  Main = main
  NULL = NULL
  ExitCodes = {0}
INVARIANTS
  TypeOK
  NoUseAfterFree
  NoLeak
PROPERTIES
  ImplementsWaitSpec
  ExecReturns
  WaitReturns
  ExitEnds
CHECK_DEADLOCK FALSE
